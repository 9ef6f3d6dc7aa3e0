SPECIFICATION Spec
CONSTANTS
    ann = ann
    bob = bob
    robot = robot
    me = me
    Ann = Ann
    Spoof = Spoof
    NULL = NULL
    Emails = {ann, bob, robot, me}
    Names = {Ann, Spoof}
    Automated = {robot}
    Own = me
    MaxPeople = 1
    Mails <- MCMails
    Entered <- MCEntered
    Sends = {1, 2}
    Requests <- MCRequests
    Valid = {ann, bob, me}
    MaxRecipients = 2
    MaxSubject = 1
    MaxBody = 1
    MaxBytes = 3
    MaxForwarded = 2
    Original <- MCOriginal
INVARIANTS
    TypeOK
    SentAsAsked
    AnswersAreTrue
PROPERTIES
    NamesKept
