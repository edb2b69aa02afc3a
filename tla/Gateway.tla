------------------------------- MODULE Gateway -------------------------------
(***************************************************************************)
(* What stands between a client and the services, and shares no state: the *)
(* rate limiter, personal access tokens and the browser's cookies. A       *)
(* behaviour exercises one of them; the others stay as they start.         *)
(***************************************************************************)
EXTENDS RateLimit, Pat, Browser

CONSTANT Parts  \* bound: which of the three a behaviour may exercise

ASSUME GatewayAssumption == Parts \subseteq {"limiter", "pats", "browser"}

VARIABLE part  \* the one this behaviour exercises; it never changes

vars == <<part, lvars, patvars, bvars>>

\* The options of the parts at rest are of no account.
Init ==
    /\ part \in Parts
    /\ LInit
    /\ PatInit /\ (part # "pats" => requireExpiry)
    /\ BInit /\ (part # "browser" => setup = CHOOSE o \in Setups : TRUE)

LimiterStep == part = "limiter" /\ LNext /\ UNCHANGED <<part, patvars, bvars>>

PatStep == part = "pats" /\ PatNext /\ UNCHANGED <<part, lvars, bvars>>

BrowserStep == part = "browser" /\ BNext /\ UNCHANGED <<part, lvars, patvars>>

Next == LimiterStep \/ PatStep \/ BrowserStep

Spec == Init /\ [][Next]_vars

TypeOK == LTypeOK /\ PatTypeOK /\ BTypeOK
=============================================================================
