------------------------------- MODULE AlertLog -------------------------------
(***************************************************************************)
(* log_prometheus_alerts.py: every minute a timer starts the script, one   *)
(* at a time.  It compares the alerts that Prometheus has with those it    *)
(* saved in a file, writes the differences to the journal and replaces the *)
(* file.                                                                   *)
(*                                                                         *)
(* An alert is its labels, and an alert list is a function that gives      *)
(* every alert its state; an alert that is not in the list is Inactive, as *)
(* is one whose last word in the journal is "resolved".  The state file    *)
(* may be damaged in three ways that load_state and main treat apart: it   *)
(* is no JSON (or its alerts are no object) and counts as an empty list;   *)
(* or reading it raises (bytes that are no UTF-8, JSON that is no object); *)
(* or the record of an alert is neither an object nor null, and main       *)
(* raises where it comes to it.                                            *)
(***************************************************************************)
EXTENDS Naturals, FiniteSets

CONSTANTS
    Alerts,
    Inactive,      \* not in the list, resolved
    States,        \* pending, firing
    Broken,        \* a record that main cannot work with
    Missing,       \* the state file does not exist,
    Unparsed,      \* is no JSON,
    Malformed,     \* makes load_state raise
    MaxChanges,    \* bound on the changes of alerts
    MaxKills,      \* bound on the runs that are killed
    MaxFailures    \* bound on the reads and writes of the file that fail

ASSUME StatesAssumption == Inactive \notin States /\ Broken \notin States \cup {Inactive}
ASSUME FileAssumption ==
    {Missing, Unparsed, Malformed} \cap [Alerts -> States \cup {Inactive, Broken}] = {}
ASSUME BoundsAssumption == MaxChanges \in Nat /\ MaxKills \in Nat /\ MaxFailures \in Nat

VARIABLES
    active,    \* the alerts in Prometheus
    file,      \* the state file
    pc,        \* where the run is
    previous,  \* the alerts the run loaded
    current,   \* the alerts it fetched
    todo,      \* the transitions it has not written yet
    told,      \* the last word of the journal on each alert
    unsaved,   \* alerts of whose last word in the journal the file knows nothing
    changes, kills, failures

run == <<pc, previous, current, todo>>
budget == <<changes, kills, failures>>
vars == <<active, file, run, told, unsaved, budget>>

Lists == [Alerts -> States \cup {Inactive}]
Files == {Missing, Unparsed, Malformed} \cup [Alerts -> States \cup {Inactive, Broken}]
Nothing == [a \in Alerts |-> Inactive]

\* What load_state makes of the file unless it raises or cannot read it.
Stored == IF file \in {Missing, Unparsed, Malformed} THEN Nothing ELSE file

\* The script is installed beside whatever file and journal an older one left.
Init ==
    /\ active \in Lists
    /\ file \in Files
    /\ pc = "idle" /\ previous = Nothing /\ current = Nothing /\ todo = {}
    /\ told \in Lists /\ unsaved = {a \in Alerts : told[a] # Stored[a]}
    /\ changes = 0 /\ kills = 0 /\ failures = 0

------------------------------------------------------------------------------
Change(a) ==
    /\ changes < MaxChanges
    /\ \E s \in States \cup {Inactive} : s # active[a] /\ active' = [active EXCEPT ![a] = s]
    /\ changes' = changes + 1
    /\ UNCHANGED <<file, run, told, unsaved, kills, failures>>

\* The run is over; what it wrote since its list was loaded stays in the journal.
End == pc' = "idle" /\ previous' = Nothing /\ current' = Nothing /\ todo' = {}

\* The timer starts a run.
Start ==
    /\ pc = "idle"
    /\ pc' = "load"
    /\ UNCHANGED <<active, file, previous, current, todo, told, unsaved, budget>>

\* Only a file that is missing counts as an empty list: a mistake in load_state.
LoadUnchecked ==
    /\ pc = "load" /\ file # Malformed
    /\ pc' = "fetch"
    /\ previous' = IF file = Missing THEN Nothing ELSE file
    /\ UNCHANGED <<active, file, current, todo, told, unsaved, budget>>

\* A file that is no JSON ends the run: another mistake.
LoadStrict ==
    /\ pc = "load" /\ file # Malformed
    /\ pc' = IF file = Unparsed THEN "idle" ELSE "fetch"
    /\ previous' = Stored
    /\ UNCHANGED <<active, file, current, todo, told, unsaved, budget>>

\* load_state returns a list, an empty one for a file that is missing or no JSON.
Load ==
    /\ pc = "load" /\ file # Malformed
    /\ pc' = "fetch"
    /\ previous' = Stored
    /\ UNCHANGED <<active, file, current, todo, told, unsaved, budget>>

\* The operating system does not let it read the file this time: an empty list.
LoadFails ==
    /\ failures < MaxFailures
    /\ pc = "load" /\ file # Missing
    /\ pc' = "fetch"
    /\ previous' = Nothing
    /\ failures' = failures + 1
    /\ UNCHANGED <<active, file, current, todo, told, unsaved, changes, kills>>

\* load_state raises what it does not catch, and so will every later run.
LoadRaises ==
    /\ pc = "load" /\ file = Malformed
    /\ End
    /\ UNCHANGED <<active, file, told, unsaved, budget>>

\* The answer settles which transitions there are.
Fetch ==
    /\ pc = "fetch"
    /\ pc' = "record"
    /\ current' = active
    /\ todo' = {a \in Alerts : current'[a] # previous[a]}
    /\ UNCHANGED <<active, file, previous, told, unsaved, budget>>

\* Prometheus does not answer, or with something that is no list of alerts.
FetchFails ==
    /\ pc = "fetch"
    /\ End
    /\ UNCHANGED <<active, file, told, unsaved, budget>>

\* Only new alerts and changed ones are written, not those that vanished: a
\* mistake in main.
RecordListed(a) ==
    /\ pc = "record"
    /\ a \in todo /\ previous[a] # Broken
    /\ todo' = todo \ {a}
    /\ told' = [told EXCEPT ![a] = IF current[a] = Inactive THEN @ ELSE current[a]]
    /\ unsaved' = unsaved \cup {a}
    /\ UNCHANGED <<active, file, pc, previous, current, budget>>

\* Alerts of the list first, then those that vanished from it.
Turn(a) ==
    /\ pc = "record"
    /\ a \in todo
    /\ current[a] = Inactive => \A b \in todo : current[b] = Inactive

Record(a) ==
    /\ Turn(a) /\ previous[a] # Broken
    /\ todo' = todo \ {a}
    /\ told' = [told EXCEPT ![a] = current[a]]
    /\ unsaved' = unsaved \cup {a}
    /\ UNCHANGED <<active, file, pc, previous, current, budget>>

\* A record that is no object: main raises, with some transitions written.
RecordRaises(a) ==
    /\ Turn(a) /\ previous[a] = Broken
    /\ End
    /\ UNCHANGED <<active, file, told, unsaved, budget>>

\* The state file itself is opened for writing: a mistake in save_state.
WriteInPlace ==
    /\ pc = "record" /\ todo = {}
    /\ pc' = "replace"
    /\ file' = Unparsed
    /\ UNCHANGED <<active, previous, current, todo, told, unsaved, budget>>

\* save_state: write the list to a temporary file and force it to the disk ...
Write ==
    /\ pc = "record" /\ todo = {}
    /\ pc' = "replace"
    /\ UNCHANGED <<active, file, previous, current, todo, told, unsaved, budget>>

\* ... and give it the name of the state file.  The file now has the run's
\* words; not those of runs before it, nor of records that it could not read.
Replace ==
    /\ pc = "replace"
    /\ file' = current
    /\ unsaved' = {a \in Alerts : /\ a \in unsaved \/ previous[a] # Stored[a]
                                  /\ current[a] = previous[a]}
    /\ End
    /\ UNCHANGED <<active, told, budget>>

\* The disk is full, say: the temporary file is removed and the script ends.
SaveFails ==
    /\ failures < MaxFailures
    /\ pc = "replace" \/ (pc = "record" /\ todo = {})
    /\ failures' = failures + 1
    /\ End
    /\ UNCHANGED <<active, file, told, unsaved, changes, kills>>

\* The run is killed wherever it is; its temporary file, under a name no other
\* run uses, stays behind.
Killed ==
    /\ kills < MaxKills
    /\ pc # "idle"
    /\ kills' = kills + 1
    /\ End
    /\ UNCHANGED <<active, file, told, unsaved, changes, failures>>

Run ==
    \/ Start \/ Load \/ LoadFails \/ LoadRaises
    \/ Fetch \/ FetchFails
    \/ \E a \in Alerts : Record(a) \/ RecordRaises(a)
    \/ Write \/ Replace \/ SaveFails

Next == Run \/ Killed \/ \E a \in Alerts : Change(a)

Spec == Init /\ [][Next]_vars

\* The timer keeps starting runs, a run goes on, and Prometheus answers again
\* and again however often it does not.
FairSpec == Spec /\ WF_vars(Run) /\ SF_vars(Fetch)

------------------------------------------------------------------------------
(* Properties *)

\* Types; a run works on a list of records, which load_state returns or the run
\* is over, and what it writes and saves are the states of alerts only
\* (deploy/log_prometheus_alerts.py:37-47).
TypeOK ==
    /\ active \in Lists /\ file \in Files
    /\ previous \in [Alerts -> States \cup {Inactive, Broken}] /\ current \in Lists
    /\ told \in Lists /\ unsaved \subseteq Alerts /\ todo \subseteq Alerts
    /\ pc \in {"idle", "load", "fetch", "record", "replace"}

\* Once the state file is whole it is never missing or damaged again, whatever
\* is killed while it is written (deploy/log_prometheus_alerts.py:52-70).
StaysWhole == [][(file \in Lists) => file' \in Lists]_vars

\* Between runs the journal's last word on an alert is what the file says; they
\* differ only for alerts on which a run that did not save had the last word, or
\* whose record a run replaced that could not read it, and which no run has
\* told and saved since (deploy/log_prometheus_alerts.py:149-162).
JournalMatches == pc = "idle" => \A a \in Alerts \ unsaved : told[a] = Stored[a]

\* The file is one that the script can work with: no run dies of it.
Workable == file # Malformed /\ \A a \in Alerts : Stored[a] # Broken

\* If the script begins with a file it can work with, be it missing or no JSON,
\* then once the alerts have come to rest the file follows them, however many
\* runs failed, were killed or got no answer before; and so does the journal,
\* except for the alerts of JournalMatches: if such an alert is back at what the
\* file says, no run sees a transition
\* (deploy/log_prometheus_alerts.py:37-43,135-162).
JournalFollows ==
    Workable => <>[](/\ file = active
                     /\ \A a \in Alerts \ unsaved : told[a] = active[a])
==============================================================================
