SPECIFICATION FairSpec
CONSTANTS
    p1 = p1  p2 = p2  p3 = p3  a = a  b = b
    document = document  other = other  conversation = conversation
    None = None  Database = Database
    Writers = {p1, p2, p3}
    Tenants = {a, b}
    Documents = {document, other}
    Conversations = {conversation}
    TenantOf <- Owner
    MaxEvents = 2
INVARIANTS TypeOK ChainIntact NumbersNeverClash TrailTellsHistory
PROPERTIES TransactionsEnd
