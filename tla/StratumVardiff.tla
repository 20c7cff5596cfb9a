---------------------------- MODULE StratumVardiff ----------------------------
(***************************************************************************)
(* The share difficulty of one miner (stratum.cpp): the thread of the      *)
(* client retargets it from the rate of accepted shares, the miner may     *)
(* suggest one, and a submission is measured against the current one and,  *)
(* for a while, against the one before.                                    *)
(*                                                                         *)
(* Difficulties are integers, in units of the smallest one, and the time   *)
(* of a client is kept as the seconds since its two time stamps.           *)
(***************************************************************************)
EXTENDS Integers, FiniteSets

CONSTANTS MinDiff,     \* 0.001
          MaxDiff,     \* 1048576
          Interval,    \* 45 s between retargets
          Grace,       \* 20 s in which the difficulty before counts
          Step,        \* the seconds of a tick
          Suggestions, \* the difficulties that the miner may suggest
          Starts,      \* the difficulties at which a connection may start, -stratumdiff
          MaxIntervalShares, \* bound of a run: the shares of an interval
          MaxElapsed   \* bound of a run: the seconds until the miner subscribes

ASSUME DiffsAssumption ==
    /\ MinDiff \in Nat \ {0} /\ MaxDiff \in Nat /\ MinDiff <= MaxDiff
    /\ Starts \subseteq Nat \ {0}
ASSUME TimesAssumption == {Interval, Grace, Step} \subseteq Nat \ {0} /\ Grace < Interval

\* The limits bind a retarget and a suggestion, and not -stratumdiff.
Diffs == MinDiff..MaxDiff

VARIABLES g_fVardiff,      \* -stratumvardiff
          fSubscribed,
          dDiff, dPrevDiff,
          change,          \* the seconds since nDiffChangeTime, Interval when it is longer ago
          elapsed,         \* the seconds since nVardiffStart
          nVardiffShares,
          silent,          \* the miner will find no share any more
          recent           \* the difficulties that a retarget replaced in the last Grace
                           \* seconds, with the seconds since, and no suggestion came after
minerVars == <<g_fVardiff, fSubscribed>>
diffVars == <<minerVars, dDiff, dPrevDiff, change, elapsed, nVardiffShares, silent, recent>>

\* Both handlers that set a new difficulty keep the one before and the time.
SetDifficulty(d) ==
    /\ dPrevDiff' = dDiff
    /\ dDiff' = d
    /\ change' = 0

Clamp(d) == IF d < MinDiff THEN MinDiff ELSE IF d > MaxDiff THEN MaxDiff ELSE d

\* Mutant of NewDiff: no shares, no change
NewDiffMutant(n, e) ==
    Clamp(IF n = 0 THEN dDiff
          ELSE IF 8 * n < e THEN dDiff \div 2
          ELSE IF n > e THEN 4 * dDiff
          ELSE (dDiff * 4 * n) \div e)

\* The new difficulty after n shares in e seconds: one share in 4 s is wanted, and the
\* factor stays between 1/2 and 4.
NewDiff(n, e) ==
    Clamp(IF 8 * n < e THEN dDiff \div 2
          ELSE IF n > e THEN 4 * dDiff
          ELSE (dDiff * 4 * n) \div e)

\* Mutant of Due: a retarget whenever the miner sent something
DueMutant == elapsed > 0

\* StratumClientThread: the retarget, which leaves a difficulty alone that would change
\* by at most a fifth
Due == elapsed >= Interval
Retarget ==
    /\ g_fVardiff /\ fSubscribed
    /\ Due
    /\ LET new == NewDiff(nVardiffShares, elapsed)
       IN  IF 5 * new > 6 * dDiff \/ 5 * new < 4 * dDiff
           THEN SetDifficulty(new) /\ recent' = recent \cup {<<dDiff, 0>>}
           ELSE UNCHANGED <<dDiff, dPrevDiff, change, recent>>
    /\ elapsed' = 0
    /\ nVardiffShares' = 0
    /\ UNCHANGED <<minerVars, silent>>

\* mining.subscribe
MiningSubscribe ==
    /\ ~fSubscribed
    /\ fSubscribed' = TRUE
    /\ UNCHANGED <<g_fVardiff, dDiff, dPrevDiff, change, elapsed, nVardiffShares, silent, recent>>

\* mining.suggest_difficulty; one out of range is ignored.
Suggest(d) ==
    /\ ~silent
    /\ d \in Diffs
    /\ SetDifficulty(d)
    /\ recent' = {}
    /\ UNCHANGED <<minerVars, elapsed, nVardiffShares, silent>>

\* HandleSubmit: what a share of difficulty d is measured against
Meets(d) ==
    \/ d >= dDiff
    \/ change < Grace /\ d >= dPrevDiff
Submit(d) ==
    /\ ~silent /\ nVardiffShares < MaxIntervalShares
    /\ Meets(d)
    /\ nVardiffShares' = nVardiffShares + 1
    /\ UNCHANGED <<minerVars, dDiff, dPrevDiff, change, elapsed, silent, recent>>

\* The miner goes silent, connected as it is.
Silence ==
    /\ ~silent
    /\ silent' = TRUE
    /\ UNCHANGED <<minerVars, dDiff, dPrevDiff, change, elapsed, nVardiffShares, recent>>

\* Time passes; the thread looks at the clock at least once per tick.  Without vardiff
\* nothing looks at nVardiffStart.
Aged(t) == IF t + Step > Interval THEN Interval ELSE t + Step
TimePasses ==
    /\ elapsed <= IF fSubscribed THEN Interval ELSE MaxElapsed
    /\ elapsed' = IF g_fVardiff THEN elapsed + Step ELSE elapsed
    /\ change' = Aged(change)
    /\ recent' = {<<r[1], Aged(r[2])>> : r \in {x \in recent : x[2] + Step < Grace}}
    /\ UNCHANGED <<minerVars, dDiff, dPrevDiff, nVardiffShares, silent>>

DiffInit ==
    /\ g_fVardiff \in BOOLEAN /\ fSubscribed = FALSE
    /\ dDiff \in Starts /\ dPrevDiff = dDiff
    /\ change = Interval /\ elapsed = 0 /\ nVardiffShares = 0
    /\ silent = FALSE /\ recent = {}

DiffNext ==
    \/ Retarget \/ MiningSubscribe \/ Silence \/ TimePasses
    \/ \E d \in Suggestions : Suggest(d)
    \/ \E d \in Diffs \cup Starts : Submit(d)

DiffSpec == DiffInit /\ [][DiffNext]_diffVars

\* The clock runs and the thread of the client does.
FairDiffSpec == DiffSpec /\ WF_diffVars(TimePasses) /\ WF_diffVars(Retarget)

-----------------------------------------------------------------------------
(* Properties                                                              *)

\* Every variable has its type.
DiffTypeOK ==
    /\ g_fVardiff \in BOOLEAN /\ fSubscribed \in BOOLEAN
    /\ dDiff \in Nat \ {0} /\ dPrevDiff \in Nat \ {0}
    /\ change \in 0..Interval /\ elapsed \in Nat
    /\ nVardiffShares \in Nat /\ silent \in BOOLEAN
    /\ recent \subseteq (Nat \ {0}) \X (0..Grace)

\* -stratumdiff is not held to the limits of suggest_difficulty and of the retarget, but
\* a difficulty outside them is the one that the connection started with, and was never
\* changed: once within the limits it never leaves them.
LimitsKept == dDiff \in Diffs \/ (dDiff \in Starts /\ dPrevDiff = dDiff /\ change = Interval)

\* "20 s grace window after retargets": a share of a difficulty that a retarget replaced
\* less than 20 s ago is accepted, unless the miner has chosen another one since.
GraceHonoured == \A r \in recent : Meets(r[1])

\* The difficulty is so low that a step down would be less than a fifth.
Eased == dDiff <= (5 * MinDiff) \div 4

\* With vardiff, a miner that subscribed and for which the difficulty is too high is
\* brought down, wherever it started, and not left where it never finds a share.
EasedDown == (silent /\ g_fVardiff /\ fSubscribed) ~> Eased

=============================================================================
