CONSTANTS
    senator = senator
    Changes = {h1}
    Messages = {x1}
    Watches = {x1}
    Clients = {c1}
    Sends = {x1}
SPECIFICATION FairSpec
PROPERTY VotesAreCast
