----------------------------- MODULE GraphWatch -----------------------------
(***************************************************************************)
(* The watcher of graph files (watch in dg-graph/src/engine.rs): a thread  *)
(* that loads a root file and what it includes, remembers the state of     *)
(* each file it loaded, looks at those files every 50 ms, waits 100 ms     *)
(* after a change and loads again, while others write the files. The graph *)
(* is its two files' contents; a file's state (mtime, length, inode) tells *)
(* its contents apart.                                                     *)
(***************************************************************************)
EXTENDS Integers, FiniteSets

CONSTANT MaxWrites      \* how often the files are written

ASSUME WritesAssumption == MaxWrites \in Nat

Files == {"root", "part"}
Absent == [version |-> 0, good |-> FALSE, includes |-> FALSE]

VARIABLES disk,       \* the content of each file
          writes,
          watcher,    \* the thread: [at, tracked, states, read]
          reported,   \* the graph the callback was given last (the first load's before that), or Failed
          missed,     \* files written after they were parsed and before their state was read
          stopAsked

watchVars == <<disk, writes, watcher, reported, missed, stopAsked>>

Failed == {}        \* an error instead of a graph

Unread == [f \in Files |-> Absent]

WatchInit ==
    /\ \E inc \in BOOLEAN :
         disk = [root |-> [version |-> 1, good |-> TRUE, includes |-> inc],
                 part |-> [version |-> 1, good |-> TRUE, includes |-> FALSE]]
    /\ writes = 0 /\ reported = Failed /\ missed = {} /\ stopAsked = FALSE
    /\ watcher = [at |-> "load", tracked |-> {}, states |-> Unread, read |-> Unread]

\* What loading the files of d gives (load_spec_and_track): an error
\* when one that is needed is missing or invalid.
Needed(d) == IF d["root"].includes THEN Files ELSE {"root"}
Loads(d) == \A f \in Needed(d) : d[f].good
Graph(d) == IF Loads(d) THEN {<<f, d[f].version>> : f \in Needed(d)} ELSE Failed

\* Somebody writes, breaks or removes a file.
Write(f) ==
    /\ writes < MaxWrites /\ writes' = writes + 1
    /\ \E good, inc \in BOOLEAN : \E v \in {0, writes + 2} :
         /\ inc => f = "root"
         /\ v = 0 => ~good /\ ~inc
         /\ disk' = [disk EXCEPT ![f] = [version |-> v, good |-> good, includes |-> inc]]
    /\ missed' = IF watcher.at = "states" /\ f \in Needed(watcher.read) THEN missed \cup {f} ELSE missed
    /\ UNCHANGED <<watcher, reported, stopAsked>>

\* The root is read and parsed first, ...
ReadRoot ==
    /\ watcher.at \in {"load", "reload"}
    /\ watcher' = [watcher EXCEPT !.read = [Unread EXCEPT !["root"] = disk["root"]],
                                  !.at = IF watcher.at = "load" THEN "first" ELSE "again"]
    /\ UNCHANGED <<disk, writes, reported, missed, stopAsked>>

\* ... then what it includes. A first load that fails ends the thread; a later
\* one leaves the tracked files and their states as they were.
ReadPart ==
    /\ watcher.at \in {"first", "again"}
    /\ LET read == IF watcher.read["root"].includes THEN [watcher.read EXCEPT !["part"] = disk["part"]]
                                                    ELSE watcher.read IN
       IF Loads(read)
         THEN /\ watcher' = [watcher EXCEPT !.read = read, !.at = "states"]
              /\ missed' = {f \in Needed(read) : disk[f] # read[f]} /\ UNCHANGED reported
         ELSE /\ watcher' = [watcher EXCEPT !.read = Unread,
                                            !.at = IF watcher.at = "first" THEN "gone" ELSE "poll"]
              /\ reported' = Failed /\ missed' = {}
    /\ UNCHANGED <<disk, writes, stopAsked>>

\* The states of the files just loaded; the callback hears of a reload.
ReadStates ==
    /\ watcher.at = "states"
    /\ watcher' = [at |-> "poll", tracked |-> Needed(watcher.read), read |-> Unread,
                   states |-> [f \in Files |-> IF f \in Needed(watcher.read) THEN disk[f] ELSE Absent]]
    /\ reported' = Graph(watcher.read)
    /\ UNCHANGED <<disk, writes, missed, stopAsked>>

\* One look at the tracked files; a change starts the debounce.
Changed == {f \in watcher.tracked : watcher.states[f] # disk[f]}

Poll ==
    /\ watcher.at = "poll" /\ ~stopAsked
    /\ watcher' = [watcher EXCEPT !.states = [f \in Files |-> IF f \in watcher.tracked THEN disk[f] ELSE Absent],
                                  !.at = IF Changed = {} THEN "poll" ELSE "debounce"]
    /\ UNCHANGED <<disk, writes, reported, missed, stopAsked>>

\* The files are not looked at until the debounce is over.
Debounced_Dropped ==
    /\ watcher.at = "debounce" /\ ~stopAsked
    /\ watcher' = [watcher EXCEPT !.at = IF Changed = {} THEN "reload" ELSE "poll"]
    /\ UNCHANGED <<disk, writes, reported, missed, stopAsked>>
Debounced ==
    /\ watcher.at = "debounce" /\ watcher' = [watcher EXCEPT !.at = "reload"]
    /\ UNCHANGED <<disk, writes, reported, missed, stopAsked>>

\* WatchHandle::stop, or its drop: a message, seen between two looks.
AskStop ==
    /\ ~stopAsked /\ stopAsked' = TRUE
    /\ UNCHANGED <<disk, writes, watcher, reported, missed>>

Stop ==
    /\ stopAsked /\ watcher.at \in {"poll", "debounce"}
    /\ watcher' = [watcher EXCEPT !.at = "gone"]
    /\ UNCHANGED <<disk, writes, reported, missed, stopAsked>>

watch == ReadRoot \/ ReadPart \/ ReadStates \/ Poll \/ Debounced \/ Stop

WatchNext == watch \/ AskStop \/ \E f \in Files : Write(f)

(* Properties *)

\* A file the graph on disk needs that the watcher does not look at, because
\* the load that met its name failed.
Unwatched == Needed(disk) \ watcher.tracked # {}

\* When the writing ends, the callback was told last what the files say, or
\* that they cannot be loaded: however the writes fell between reading,
\* remembering, looking and waiting. Two ways of missing a write remain, a
\* file written between its parsing and its remembering, and a file not yet
\* tracked. A watcher asked to stop stops (watch, engine.rs:1589-1692).
WatchSettles ==
    /\ <>[](watcher.at = "gone" \/ missed # {} \/ Unwatched \/ reported = Graph(disk))
    /\ stopAsked ~> watcher.at = "gone"
=============================================================================
