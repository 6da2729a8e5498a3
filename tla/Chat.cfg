SPECIFICATION Spec
CONSTANTS
    t1 = t1  t2 = t2  anna = anna  bert = bert  s1 = s1  Blank = Blank
    d1 = d1  
    Turns = {t1, t2}
    Earlier <- TheEarlier
    Users = {anna, bert}
    Askers <- TheAskers
    Sessions = {s1}
    Questions <- TheQuestions
    Documents = {d1}
    Readers <- TheReaders
    MaxBatches = 2
    TopK = 1
    HistoryLimit = 1
INVARIANTS TypeOK NothingWithdrawnIsCited PolicyHolds ContextIsNewest IndexRestored
