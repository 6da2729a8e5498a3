---------------------------- MODULE AlertLogProofs ----------------------------
(***************************************************************************)
(* Proofs about AlertLog, for any alerts and states, and without a bound   *)
(* on what is killed or fails.                                             *)
(***************************************************************************)
EXTENDS AlertLog, TLAPS

\* Why the journal agrees with the file between runs: off `unsaved` it does so
\* during a run too, since a run puts there what it writes until it has saved
\* it, and by then has written every difference between its two lists.
Kept == \A a \in Alerts \ unsaved : told[a] = Stored[a]

Written ==
    /\ pc \in {"record", "replace"} =>
        \A a \in Alerts \ todo :
            current[a] # previous[a] => a \in unsaved /\ told[a] = current[a]
    /\ pc = "replace" => todo = {}

JournalInv == TypeOK /\ Kept /\ Written

Records == States \cup {Inactive, Broken}

\* load_state returns a list of records or raises.
LEMMA StoredType == ASSUME TypeOK PROVE Stored \in [Alerts -> Records]
BY DEF TypeOK, Stored, Files, Nothing, Records

LEMMA NothingType == Nothing \in Lists /\ Nothing \in [Alerts -> Records]
BY DEF Nothing, Lists, Records

LEMMA JournalInit == Init => JournalInv
<1> SUFFICES ASSUME Init PROVE JournalInv
    OBVIOUS
<1>1. TypeOK
    BY NothingType DEF Init, TypeOK, Records
<1>2. Kept /\ Written
    BY DEF Init, Kept, Written
<1> QED BY <1>1, <1>2 DEF JournalInv

\* A run that ends before it has saved.
LEMMA EndStep ==
    ASSUME JournalInv, End, UNCHANGED <<active, file, told, unsaved>>
    PROVE  JournalInv'
<1>1. TypeOK'
    BY NothingType DEF JournalInv, TypeOK, End, Files, Lists, Records
<1>2. Kept'
    BY DEF JournalInv, Kept, Stored, Nothing
<1>3. Written'
    BY DEF End, Written
<1> QED BY <1>1, <1>2, <1>3 DEF JournalInv

\* One case for each action.
LEMMA JournalStep == JournalInv /\ [Next]_vars => JournalInv'
<1> SUFFICES ASSUME JournalInv, [Next]_vars PROVE JournalInv'
    OBVIOUS
<1> USE DEF JournalInv
<1>1. ASSUME NEW a \in Alerts, Change(a) PROVE JournalInv'
    <2>1. TypeOK'
        BY <1>1 DEF TypeOK, Change, run, Lists, Files
    <2>2. Kept' /\ Written'
        BY <1>1 DEF Change, run, Kept, Written, Stored, Nothing
    <2> QED BY <2>1, <2>2
<1>2. CASE Start
    <2>1. TypeOK'
        BY <1>2 DEF TypeOK, Start, Lists, Files
    <2>2. Kept' /\ Written'
        BY <1>2 DEF Start, Kept, Written, Stored, Nothing
    <2> QED BY <2>1, <2>2
<1>3. CASE Load \/ LoadFails
    <2>1. TypeOK'
        BY <1>3, StoredType, NothingType DEF TypeOK, Load, LoadFails, Lists, Files, Records
    <2>2. Kept' /\ Written'
        BY <1>3 DEF Load, LoadFails, Kept, Written, Stored, Nothing
    <2> QED BY <2>1, <2>2
<1>4. CASE LoadRaises \/ FetchFails \/ SaveFails \/ Killed
    BY <1>4, EndStep DEF LoadRaises, FetchFails, SaveFails, Killed
<1>5. CASE Fetch
    <2>1. TypeOK'
        BY <1>5 DEF TypeOK, Fetch, Lists, Files
    <2>2. Kept' /\ Written'
        BY <1>5 DEF Fetch, Kept, Written, Stored, Nothing
    <2> QED BY <2>1, <2>2
<1>6. ASSUME NEW a \in Alerts, Record(a) PROVE JournalInv'
    <2>1. TypeOK'
        BY <1>6 DEF TypeOK, Record, Turn, Lists, Files
    <2>2. \A b \in Alerts : told'[b] = IF b = a THEN current[a] ELSE told[b]
        BY <1>6 DEF Record, TypeOK, Lists
    <2>3. Kept'
        BY <1>6, <2>2 DEF Record, Kept, Stored, Nothing
    <2>4. Written'
        BY <1>6, <2>2 DEF Record, Turn, Written
    <2> QED BY <2>1, <2>3, <2>4
<1>7. ASSUME NEW a \in Alerts, RecordRaises(a) PROVE JournalInv'
    BY <1>7, EndStep DEF RecordRaises
<1>8. CASE Write
    <2>1. TypeOK'
        BY <1>8 DEF TypeOK, Write, Lists, Files
    <2>2. Kept' /\ Written'
        BY <1>8 DEF Write, Kept, Written, Stored, Nothing
    <2> QED BY <2>1, <2>2
<1>9. CASE Replace
    <2>1. current \in Files /\ current \notin {Missing, Unparsed, Malformed}
        BY FileAssumption DEF TypeOK, Lists, Files
    <2>2. TypeOK'
        BY <1>9, <2>1, NothingType DEF TypeOK, Replace, End, Lists, Files, Records
    <2>3. Stored' = current
        BY <1>9, <2>1 DEF Stored, Replace
    <2>4. ASSUME NEW a \in Alerts, a \notin unsaved' PROVE told[a] = current[a]
        <3>1. CASE current[a] # previous[a]
            BY <1>9, <3>1 DEF Replace, Written
        <3>2. CASE current[a] = previous[a]
            <4>1. a \notin unsaved /\ previous[a] = Stored[a]
                BY <1>9, <2>4, <3>2 DEF Replace
            <4> QED BY <3>2, <4>1 DEF Kept
        <3> QED BY <3>1, <3>2
    <2>5. told' = told
        BY <1>9 DEF Replace
    <2>6. Kept'
        BY <2>3, <2>4, <2>5 DEF Kept
    <2>7. Written'
        BY <1>9 DEF Replace, End, Written
    <2> QED BY <2>2, <2>6, <2>7
<1>10. CASE UNCHANGED vars
    <2>1. TypeOK'
        BY <1>10 DEF TypeOK, vars, run, Lists, Files
    <2>2. Kept' /\ Written'
        BY <1>10 DEF Kept, Written, Stored, Nothing, vars, run
    <2> QED BY <2>1, <2>2
<1> QED
    BY <1>1, <1>2, <1>3, <1>4, <1>5, <1>6, <1>7, <1>8, <1>9, <1>10 DEF Next, Run

\* Whatever became of the state file, a run works on a list of records or ends:
\* a file that is missing or no JSON counts as an empty list, one that makes
\* load_state raise ends the run, and a record that is no object ends it where
\* main comes to it; what is written and saved are states of alerts only.
THEOREM TypeCorrect == Spec => []TypeOK
<1>1. JournalInv => TypeOK
    BY DEF JournalInv
<1> QED BY <1>1, JournalInit, JournalStep, PTL DEF Spec

\* Between runs the journal's last word on an alert is what the file says, but
\* for those of which the journal had a word that no run saved or could read.
THEOREM JournalAgrees == Spec => []JournalMatches
<1>1. JournalInv => JournalMatches
    BY DEF JournalInv, Kept, JournalMatches
<1> QED BY <1>1, JournalInit, JournalStep, PTL DEF Spec

\* A state file that is whole stays whole, whatever is killed while it is
\* written.
THEOREM FileStaysWhole == Spec => StaysWhole
<1>1. JournalInv /\ [Next]_vars => [(file \in Lists) => file' \in Lists]_vars
    <2> SUFFICES ASSUME JournalInv, [Next]_vars, file \in Lists PROVE file' \in Lists
        OBVIOUS
    <2>1. CASE Replace
        BY <2>1 DEF Replace, JournalInv, TypeOK
    <2>2. CASE ~Replace
        <3>1. file' = file
            BY <2>2 DEF Next, Run, Change, Start, Load, LoadFails, LoadRaises, Fetch,
                        FetchFails, Record, RecordRaises, Write, SaveFails, Killed,
                        vars, run
        <3>2. Lists' = Lists
            BY DEF Lists
        <3> QED BY <3>1, <3>2
    <2> QED BY <2>1, <2>2
<1> QED BY <1>1, JournalInit, JournalStep, PTL DEF Spec, StaysWhole
==============================================================================
