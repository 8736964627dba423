---------------------------- MODULE WindowSampler ----------------------------
(***************************************************************************)
(* What the reservoir promises about the spans it is given, without        *)
(* buffers, pools, goroutines and clocks.  Spans of the window that is     *)
(* open are held, at most Capacity of them; taking a span may make the     *)
(* reservoir give up others.  Closing the window sets its spans aside; of  *)
(* those each is sent at most once or is lost.  A span never moves back.   *)
(***************************************************************************)
EXTENDS Integers

CONSTANTS Spans, Capacity

VARIABLES
  open,     \* the spans held for the window that is open
  closing,  \* the spans of closed windows on their way out
  sent,     \* the spans the next consumer was given
  lost      \* the spans given up

wvars == <<open, closing, sent, lost>>

(* S has at most m elements: they can be numbered.                          *)
AtMost(S, m) == \E number \in [S -> 1 .. m] : \A x, y \in S : number[x] = number[y] => x = y

(* A start may find the spans of a window that an earlier run had open.      *)
Init ==
  /\ open \subseteq Spans /\ AtMost(open, Capacity)
  /\ closing = {} /\ sent = {} /\ lost = {}

Take(s, givenUp) ==
  /\ s \notin open \cup closing \cup sent \cup lost
  /\ open' = (open \ givenUp) \cup {s}
  /\ AtMost(open', Capacity)
  /\ lost' = lost \cup givenUp
  /\ UNCHANGED <<closing, sent>>

Close ==
  /\ closing' = closing \cup open
  /\ open' = {}
  /\ UNCHANGED <<sent, lost>>

(* A flush sends some of the spans it found and loses the others. *)
Finish(S, T) ==
  /\ closing' = closing \ (S \cup T)
  /\ sent' = sent \cup S
  /\ lost' = lost \cup T
  /\ UNCHANGED open

Next ==
  \/ \E s \in Spans, givenUp \in SUBSET open : Take(s, givenUp)
  \/ Close
  \/ \E S \in SUBSET closing : \E T \in SUBSET (closing \ S) : Finish(S, T)

Spec == Init /\ [][Next]_wvars
=============================================================================
