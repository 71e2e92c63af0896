SPECIFICATION FairSpec
CONSTANTS
    request = request
    mail = mail
    burn = burn
    connect = connect
    sftp1 = sftp1
    up1 = up1
    up2 = up2
    p1 = p1
    p2 = p2
    Requests = {request}
    Mails = {mail}
    Burns = {burn}
    Dials = {connect}
    Links = {sftp1}
    Uploads = {up1, up2}
    Names = {"a", "b", "f"}
    Directories <- MCDirectories
    Target <- MCTarget
    Size = 1
    Clerks = {p1}
    MaxCalls = 1
    Pollers = {p1, p2}
    NoSession = NoSession
    Nobody = Nobody
CHECK_DEADLOCK FALSE
INVARIANTS NothingLostUnread OpenLinkOwned ToldAsItEnded AloneOnTheWire CacheTrue
PROPERTIES ConnectSettles
