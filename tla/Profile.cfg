SPECIFICATION FairSpec
CONSTANTS
    mail = mail
    demo = demo
    NULL = NULL
    Mailboxes = {mail, demo}
    Demo = {demo}
    Passwords = {p1, p2}
    DemoPassword = p1
    p1 = p1
    p2 = p2
    Requests = {r1, r2}
    r1 = r1
    r2 = r2
    MaxIds <- MCMaxIds
INVARIANTS
    TypeOK
    AsAsked
PROPERTIES
    LaunchEnds
