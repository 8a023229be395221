----------------------------- MODULE RunFollow ------------------------------
(***************************************************************************)
(* Following the event log of a run from another machine: logs --follow    *)
(* (followLogs) and the progress of deploy and organize                    *)
(* (streamRunProgress), both of which call internal-tail again and again   *)
(* (internalTail), all in src/bimo.mjs.                                    *)
(*                                                                         *)
(* A log is the set of the offsets at which its lines end, and its size,   *)
(* which may lie behind the last of them while a line is being written.    *)
(* The follower's output is the sequence of pieces of logs it has printed. *)
(***************************************************************************)
EXTENDS Integers, Sequences, FiniteSets, FiniteSetsExt, SequencesExt

CONSTANTS
    Runs,       \* run ids, in the order in which the runs are started
    MaxLine,    \* bytes of the longest line, its newline included
    MaxSize,    \* bound on the size of a log
    MaxFaults   \* bound on calls of internal-tail that fail

Latest == 0     \* what one asks for without naming a run

VARIABLES
    made,       \* runs that have a log
    ends, size, \* the logs
    latest,     \* the run that the file latest names, or Latest without it
    f,          \* the follower and its call of internal-tail
    shown,      \* what it has printed: pieces <<run, from, to>>
    faults

vars == <<made, ends, size, latest, f, shown, faults>>
logs == <<made, ends, size, latest>>

TypeOK ==
    /\ made \subseteq Runs /\ latest \in Runs \cup {Latest}
    /\ ends \in [Runs -> SUBSET (1..MaxSize)]
    /\ size \in [Runs -> 0..MaxSize]
    /\ \A r \in Runs : ends[r] \subseteq 1..size[r]
    /\ f.kind \in {"follow", "progress"}
    /\ f.at \in {"ask", "stat", "read", "reply", "sleep", "stopped"}
    /\ f.asked \in Runs \cup {Latest} /\ f.run \in Runs \cup {Latest}
    /\ f.offset \in 0..MaxSize /\ f.offset + f.window <= MaxSize
    /\ f.next >= f.offset /\ f.next <= f.offset + f.window
    /\ shown \in Seq(Runs \X (0..MaxSize) \X (0..MaxSize))
    /\ faults \in 0..MaxFaults

(* Progress is that of the run the command starts; one follows a run by    *)
(* name, or the latest.                                                    *)
Init ==
    /\ made = {} /\ latest = Latest
    /\ ends = [r \in Runs |-> {}] /\ size = [r \in Runs |-> 0]
    /\ \E kind \in {"follow", "progress"}, asked \in Runs \cup {Latest} :
         /\ kind = "progress" => asked # Latest
         /\ f = [kind |-> kind, at |-> "ask", asked |-> asked, run |-> Latest,
                 offset |-> 0, window |-> 0, next |-> 0, size |-> 0]
    /\ shown = <<>> /\ faults = 0

-----------------------------------------------------------------------------
(* Controllers, one after the other.                                       *)

MakeLog(r) ==
    /\ r \notin made /\ \A q \in Runs : q < r => q \in made
    /\ made' = made \cup {r}
    /\ UNCHANGED <<ends, size, latest, f, shown, faults>>

SetLatest(r) ==
    /\ r \in made /\ \A q \in made : q <= r
    /\ latest' = r
    /\ UNCHANGED <<made, ends, size, f, shown, faults>>

LastEnd(r) == Max(ends[r] \cup {0})

(* An append adds a line; a reader may see it in parts, and a crash may    *)
(* leave it so.                                                            *)
Append1(r) ==
    /\ r \in made /\ size[r] < MaxSize
    /\ size' = [size EXCEPT ![r] = @ + 1]
    /\ \/ /\ size[r] + 1 - LastEnd(r) < MaxLine
          /\ UNCHANGED ends
       \/ ends' = [ends EXCEPT ![r] = @ \cup {size[r] + 1}]
    /\ UNCHANGED <<made, latest, f, shown, faults>>

-----------------------------------------------------------------------------
(* internalTail.                                                           *)

TailChunk == MaxLine + 1

(* The call fails: the target cannot be reached, it takes too long, its    *)
(* answer is lost, or there is no such run.  logs --follow ends with the   *)
(* error, progress asks again later.                                       *)
Fail == f' = [f EXCEPT !.at = IF f.kind = "follow" THEN "stopped" ELSE "sleep",
                       !.window = 0, !.next = f.offset]

Asked == IF f.run # Latest THEN f.run ELSE f.asked

Resolve ==
    /\ f.at = "ask"
    /\ LET r == IF Asked = Latest THEN latest ELSE Asked IN
       IF r = Latest THEN Fail ELSE f' = [f EXCEPT !.at = "stat", !.run = r]
    /\ UNCHANGED <<logs, shown, faults>>

(* An offset behind the end of the log begins anew.                        *)
Stat ==
    /\ f.at = "stat"
    /\ LET from == IF f.offset > size[f.run] THEN 0 ELSE f.offset IN
       IF f.run \notin made THEN Fail
       ELSE f' = [f EXCEPT !.at = "read", !.size = size[f.run],
                    !.offset = from, !.next = from,
                    !.window = Min({TailChunk, size[f.run] - from})]
    /\ UNCHANGED <<logs, shown, faults>>

(* Mutant: all that was read.                                              *)
CutAnywhere(r, from, window) == from + window

(* Up to the last newline among the bytes read, or nothing.                *)
Cut(r, from, window) ==
    Max({e \in ends[r] : from < e /\ e <= from + window} \cup {from})

Read ==
    /\ f.at = "read"
    /\ f' = [f EXCEPT !.at = "reply", !.next = Cut(f.run, f.offset, f.window)]
    /\ UNCHANGED <<logs, shown, faults>>

-----------------------------------------------------------------------------
(* followLogs and streamRunProgress.                                       *)

(* The lines of a chunk.                                                   *)
Pieces(r, from, to) ==
    LET cuts == SetToSortSeq({from, to}
                  \cup {e \in ends[r] : from < e /\ e < to}, <)
    IN  [i \in 1..(Len(cuts) - 1) |-> <<r, cuts[i], cuts[i + 1]>>]

(* Print; logs --follow asks at once while the log has more.               *)
Deliver ==
    /\ f.at = "reply"
    /\ shown' = shown \o Pieces(f.run, f.offset, f.next)
    /\ f' = [f EXCEPT !.offset = f.next, !.window = 0,
               !.at = IF f.kind = "follow" /\ f.size > f.next
                      THEN "ask" ELSE "sleep"]
    /\ UNCHANGED <<logs, faults>>

Lose ==
    /\ f.at \in {"stat", "read", "reply"} /\ faults < MaxFaults
    /\ faults' = faults + 1
    /\ Fail
    /\ UNCHANGED <<logs, shown>>

Wake ==
    /\ f.at = "sleep"
    /\ f' = [f EXCEPT !.at = "ask"]
    /\ UNCHANGED <<logs, shown, faults>>

(* A signal, or the end of the command whose progress it is.               *)
Stop ==
    /\ f.at # "stopped"
    /\ f' = [f EXCEPT !.at = "stopped"]
    /\ UNCHANGED <<logs, shown, faults>>

Write == \E r \in Runs : MakeLog(r) \/ SetLatest(r) \/ Append1(r)

Follow == Resolve \/ Stat \/ Read \/ Deliver \/ Wake

Next == Write \/ Follow \/ Lose \/ Stop

(* The loop of the follower goes on; nothing has to be written, and nobody *)
(* has to stop it.                                                         *)
Spec == Init /\ [][Next]_vars /\ WF_vars(Follow)

-----------------------------------------------------------------------------
(* README.md: "`logs --follow` replays the run's events from the start and *)
(* then polls for new ones".  What is printed is the lines of the log, all *)
(* of them whole, in order, none twice and none left out, whatever was     *)
(* being written and however many calls were lost.                         *)
PrintsTheLog ==
    \A i \in 1..Len(shown) :
        /\ shown[i][2] = IF i = 1 THEN 0 ELSE shown[i - 1][3]
        /\ shown[i][3] \in ends[shown[i][1]]
        /\ \A e \in ends[shown[i][1]] : ~(shown[i][2] < e /\ e < shown[i][3])

(* All of it is of one run: the one asked for, or the one that was the     *)
(* latest when the follower first got an answer.                           *)
StaysWithRun ==
    \A i \in 1..Len(shown) :
        /\ shown[i][1] = shown[1][1]
        /\ f.asked \in {Latest, shown[i][1]}

(* Every line that is completed in the log being followed is printed some  *)
(* time, unless the follower is stopped or ends with an error.             *)
EveryLineShown ==
    \A e \in 1..MaxSize :
        (f.run # Latest /\ e \in ends[f.run])
          ~> (f.at = "stopped" \/ \E i \in 1..Len(shown) : shown[i][3] = e)

(* Both at once: followLogs prints one run, and all of its log in order.   *)
FollowSafety ==
    /\ TypeOK /\ StaysWithRun /\ PrintsTheLog
=============================================================================
