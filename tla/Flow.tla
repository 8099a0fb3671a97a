--------------------------------- MODULE Flow ---------------------------------
(***************************************************************************)
(* flow.c: cifs_flow is called with the bytes of every read or write of a  *)
(* copy. It measures the speed over a window a .. c that is moved on at    *)
(* marks b, and sleeps when the window holds more than the limit allows.   *)
(*                                                                         *)
(* flow is struct cifs_flow_s, now the time of day, which the clock's owner*)
(* may set back; differences of times have no sign, as in the code. marks  *)
(* is what total was at a and b: what d and e claim to count from.         *)
(***************************************************************************)
EXTENDS Integers

CONSTANTS
    Second,     \* units of time in a second: 1000000
    Interval,   \* DEFAULT_INTERVAL
    Limits,     \* values of -s, bytes per second; 0 for none
    Deltas,     \* what a read or write may return
    Word,       \* times are unsigned numbers below this: 2^64
    MaxTime, MaxTotal, MaxSteps \* bounds on the clock, the bytes and the settings back

ASSUME FlowAssumption ==
    /\ Second \in Nat \ {0} /\ Interval \in Nat /\ Word \in Nat \ {0}
    /\ Limits \subseteq Nat /\ Deltas \subseteq Nat
    /\ MaxTime \in Nat /\ MaxTotal \in Nat /\ MaxSteps \in Nat

VARIABLES flow, now, marks, steps

flowVars == <<flow, now, marks, steps>>

Minus(t, u) == (t - u) % Word

\* cifs_flow_new, cifs_flow_reset, and the option -s.
FlowInit ==
    /\ \E l \in Limits :
          flow = [limit |-> l, total |-> 0, start |-> 0, a |-> 0, b |-> 0, c |-> 0,
                  d |-> 0, e |-> 0, speed |-> 0]
    /\ now = 0 /\ marks = [a |-> 0, b |-> 0] /\ steps = 0

Tick ==
    /\ now < MaxTime /\ now' = now + 1 /\ UNCHANGED <<flow, marks, steps>>

SetBack ==
    /\ steps < MaxSteps /\ now > 0
    /\ now' = now - 1 /\ steps' = steps + 1 /\ UNCHANGED <<flow, marks>>

\* Mutant of Flip: the new window begins now.
FlipToNow(g) == [g EXCEPT !.d = 0, !.e = 0, !.a = g.c, !.b = g.c]

\* The window moves on: what was counted from b is now counted from a.
Flip(g) == [g EXCEPT !.d = g.e, !.e = 0, !.a = g.b, !.b = g.c]

Counted(delta) ==
    [flow EXCEPT !.total = flow.total + delta, !.d = flow.d + delta, !.e = flow.e + delta,
                 !.c = now]

\* Mutant of Pause: what is over the limit is never waited for longer than the
\* time that has passed.
PauseAtMost(x, t) ==
    IF flow.limit > 0 /\ x \div flow.limit > t
    THEN IF x \div flow.limit - t > t THEN t ELSE x \div flow.limit - t
    ELSE 0

\* The time that x bytes times Second should have taken, less what they took.
Pause(x, t) ==
    IF flow.limit > 0 /\ x \div flow.limit > t THEN x \div flow.limit - t ELSE 0

\* cifs_flow: a call with its sleep.
CifsFlow ==
    /\ \E delta \in Deltas :
        LET g == Counted(delta)
            x == g.d * Second
            t == Minus(g.c, g.a)
            speed == IF t > 0 THEN x \div t ELSE 0
        IN  /\ g.total <= MaxTotal
            /\ IF Minus(g.c, g.b) > Interval
               THEN /\ flow' = [Flip(g) EXCEPT !.speed = speed]
                    /\ marks' = [a |-> marks.b, b |-> g.total]
               ELSE flow' = [g EXCEPT !.speed = speed] /\ UNCHANGED marks
            /\ now' = now + Pause(x, t)
    /\ UNCHANGED steps

FlowNext == Tick \/ SetBack \/ CifsFlow
FlowSpec == FlowInit /\ [][FlowNext]_flowVars
-------------------------------------------------------------------------------
(* Properties *)

\* flow.h: d counts the bytes of a .. c and e those of b .. c, whatever the clock
\* does; as long as it is not set back the marks stand in the order of the drawing
\* there.
WindowRight ==
    /\ flow.d = flow.total - marks.a /\ flow.e = flow.total - marks.b
    /\ steps = 0 => flow.start <= flow.a /\ flow.a <= flow.b /\ flow.b <= flow.c /\ flow.c <= now

\* What the limit of -s comes to: twice as much at most. A window that is over the
\* limit is waited for, but it begins at a mark from before the last wait, so that
\* one wait counts for two windows. (The plain limit does not hold.)
RateBound ==
    flow.limit > 0 /\ steps = 0 =>
        flow.total * Second <= 2 * flow.limit * (now - flow.start) + flow.limit
===============================================================================
