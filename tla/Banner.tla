------------------------------- MODULE Banner -------------------------------
(***************************************************************************)
(* The alert banner.  A Success or Warning leaves by itself, an Error when *)
(* the user dismisses it.  Nothing but a repaint request brings the frame  *)
(* in which a banner leaves.                                               *)
(***************************************************************************)
EXTENDS Integers, FiniteSets

CONSTANTS
    Kinds,       \* kinds of alert
    Life,        \* alert_lifetime: ticks per kind, 0 for one that stays
    MaxAlerts    \* bound: alerts raised

ASSUME BannerAssumption == Life \in [Kinds -> Nat] /\ MaxAlerts \in Nat

VARIABLES
    uiAlert,    \* ui_alert: a kind or none
    since,      \* ui_alert_since: at most one [alert, age]
    wakeIn,     \* ticks until the next frame somebody asked for: at most one
    raised,     \* alerts raised
    shown       \* history: ticks that the alert last raised has been up

bannerVars == <<uiAlert, since, wakeIn, raised, shown>>

-----------------------------------------------------------------------------
\* Mutant: an alert raised again keeps the stamp of the first time.
StampKept == since
StampAfterRaise == {}

\* raise_alert, in a click; the input asks for the next frame.
RaiseAlert(kind) ==
    /\ raised < MaxAlerts
    /\ raised' = raised + 1
    /\ uiAlert' = {kind}
    /\ since' = StampAfterRaise
    /\ shown' = 0
    /\ wakeIn' = {0}

DismissBanner ==
    /\ uiAlert # {}
    /\ uiAlert' = {}
    /\ wakeIn' = {0}
    /\ UNCHANGED <<since, raised, shown>>

Leaves(kind) == Life[kind] # 0
TimeLeft(stamp) == IF stamp.age >= Life[stamp.alert] THEN 0 ELSE Life[stamp.alert] - stamp.age

\* expire_alert, in every frame: the alert is stamped when it is new.
Stamped ==
    IF {s.alert : s \in since} = uiAlert THEN since
    ELSE {[alert |-> kind, age |-> 0] : kind \in uiAlert}

ExpireAlert ==
    LET leaving == {s \in Stamped : Leaves(s.alert)}
        over == \E s \in leaving : TimeLeft(s) = 0
    IN /\ uiAlert' = IF over THEN {} ELSE uiAlert
       /\ since' = IF over THEN {} ELSE Stamped
       /\ wakeIn' = IF over THEN {} ELSE {TimeLeft(s) : s \in leaving}
       /\ UNCHANGED <<raised, shown>>

WakeDue == wakeIn = {0}

BannerTick ==
    /\ ~WakeDue
    /\ since # {}
    /\ since' = {[s EXCEPT !.age = IF Leaves(s.alert) THEN @ + 1 ELSE @] : s \in since}
    /\ shown' = IF \E kind \in uiAlert : Leaves(kind) THEN shown + 1 ELSE shown
    /\ wakeIn' = {n - 1 : n \in wakeIn}
    /\ UNCHANGED <<uiAlert, raised>>

BannerInit == uiAlert = {} /\ since = {} /\ wakeIn = {} /\ raised = 0 /\ shown = 0

BannerNext ==
    \/ \E kind \in Kinds : RaiseAlert(kind)
    \/ DismissBanner
    \/ ExpireAlert
    \/ BannerTick

BannerSpec == BannerInit /\ [][BannerNext]_bannerVars

-----------------------------------------------------------------------------
BannerTypeOK ==
    /\ \A kind \in uiAlert : uiAlert = {kind} /\ kind \in Kinds
    /\ \A s \in since : since = {s} /\ s \in [alert : Kinds, age : Nat]
    /\ wakeIn \subseteq Nat /\ Cardinality(wakeIn) <= 1
    /\ raised \in 0 .. MaxAlerts
    /\ shown \in Nat

(* A banner keeps its time: one that leaves by itself was up for its whole  *)
(* life since it was last raised, also when the same alert was raised again *)
(* or another was dismissed before it, and none is up for longer, although  *)
(* no input and no event brings a frame.  An Error never leaves by itself.  *)
BannerKeepsTime ==
    [][ /\ uiAlert' = {} /\ ~DismissBanner =>
              \A kind \in uiAlert : Leaves(kind) /\ shown >= Life[kind]
        /\ \A kind \in uiAlert' : Leaves(kind) => shown' <= Life[kind] ]_bannerVars
=============================================================================
