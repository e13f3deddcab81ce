----------------------------- MODULE Timelocks -----------------------------
(***************************************************************************)
(* The numbers of time locks: how heights, durations and times become the  *)
(* u32 of a LockTime and of a clause (sapio-base/src/timelocks.rs), and    *)
(* how the list of locks of a PowSwap outcome becomes one relative and one *)
(* absolute lock (sapio-contrib, derivatives/powswap.rs).                  *)
(*                                                                         *)
(* The limits of the integers are constants, so that small ones can stand  *)
(* for 2^16 - 1, 2^32 - 1, 500_000_000, bit 22 and 512 seconds.            *)
(***************************************************************************)
EXTENDS Integers, FiniteSets

CONSTANTS U16Max, U32Max,
          StartOfTime,      \* absolute locks below it are heights
          TimeFlag,         \* the bit that makes a sequence a time
          Granule           \* seconds in one unit of a relative time

ASSUME TimelockAssumption ==
    /\ {U16Max, U32Max, StartOfTime, TimeFlag} \subseteq Nat
    /\ Granule \in Nat \ {0}
    /\ U16Max < TimeFlag /\ TimeFlag + U16Max <= U32Max
    /\ StartOfTime <= U32Max

(***************************************************************************)
(* A lock has the two type tags of LockTime and the number it wraps; a     *)
(* conversion that fails gives Refused.                                    *)
(***************************************************************************)
Lock(rel, time, n) == [ok |-> TRUE, rel |-> rel, time |-> time, n |-> n]
Refused == [ok |-> FALSE]

RelHeight(u) == Lock(TRUE, FALSE, u)
RelTime(u) == Lock(TRUE, TRUE, u + TimeFlag)        \* u < TimeFlag: | is +

AbsTime(u) == IF u < StartOfTime THEN Refused ELSE Lock(FALSE, TRUE, u)
AbsHeight(u) == IF u < StartOfTime THEN Lock(FALSE, FALSE, u) ELSE Refused

MutRelTimeOf(secs) == RelTime((secs \div Granule) % (U16Max + 1))
RelTimeOf(secs) ==
    LET units == secs \div Granule IN
    IF units > U16Max THEN Refused ELSE RelTime(units)

AbsTimeOf(secs) == IF secs > U32Max THEN Refused ELSE AbsTime(secs)

\* One request for a lock: the type wanted, and what it is made from.
Converted(kind, n) ==
    IF kind = "height from now" THEN RelHeight(n)
    ELSE IF kind = "units from now" THEN RelTime(n)
    ELSE IF kind = "seconds from now" THEN RelTimeOf(n)
    ELSE IF kind = "height" THEN AbsHeight(n)
    ELSE IF kind = "time" THEN AbsTime(n)
    ELSE AbsTimeOf(n)       \* "seconds"

\* From<LockTime> for Clause: Older for relative locks, After for absolute.
ClauseOf(lock) == [op |-> IF lock.rel THEN "Older" ELSE "After", n |-> lock.n]

(***************************************************************************)
(* How nodes read the number of a clause (external: BIP 65 and BIP 68).    *)
(***************************************************************************)
ReadByNodes(clause) ==
    IF clause.op = "Older"
    THEN IF clause.n >= TimeFlag
         THEN [from |-> "now", unit |-> "time", n |-> clause.n - TimeFlag]
         ELSE [from |-> "now", unit |-> "height", n |-> clause.n]
    ELSE [from |-> "zero", n |-> clause.n,
          unit |-> IF clause.n >= StartOfTime THEN "time" ELSE "height"]

(***************************************************************************)
(* TryFrom<ValidContractVariant> for ContractVariant, for the set of the   *)
(* locks listed. A missing part is None and read as a lock of zero.        *)
(***************************************************************************)
Latest(locks) == CHOOSE l \in locks : \A m \in locks : m.n <= l.n

NoLock == [ok |-> FALSE, none |-> TRUE]

Variant(listed) ==
    LET rel == {l \in listed : l.rel}
        abs == listed \ rel
        allHeights(locks) == \A l \in locks : ~l.time
        allTimes(locks) == \A l \in locks : l.time
        part(locks) == IF locks = {} THEN NoLock ELSE Latest(locks)
    IN  IF \/ ~allHeights(rel) /\ ~allTimes(rel)
           \/ ~allHeights(abs) /\ ~allTimes(abs)
           \/ listed = {}
           \/ allTimes(rel) /\ (allTimes(abs) \/ allHeights(rel))
        THEN Refused
        ELSE [ok |-> TRUE, relative |-> part(rel), absolute |-> part(abs)]

GetRelative(variant) ==
    IF variant.relative.ok THEN variant.relative ELSE RelTime(0)
GetAbs(variant) == IF variant.absolute.ok THEN variant.absolute ELSE AbsHeight(0)
=============================================================================
