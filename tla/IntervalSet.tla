----------------------------- MODULE IntervalSet -----------------------------
(***************************************************************************)
(* A set of integers kept as intervals (sheaves/support/interval_set.cc).  *)
(* The map _interval_map has an entry for the end of every interval, that  *)
(* says whether the interval is in the set or is a gap; an interval begins *)
(* where the one before it ends.                                           *)
(***************************************************************************)
EXTENDS Integers, FiniteSets, Functions, FiniteSetsExt

Erase(s, keys) == Restrict(s, DOMAIN s \ keys)
Put(s, key, value) == [k \in DOMAIN s \cup {key} |-> IF k = key THEN value ELSE s[k]]

clear == [k \in {} |-> FALSE]

is_empty(s) == DOMAIN s = {}

(***************************************************************************)
(* The first entry that is not before x tells whether x is in the set.     *)
(***************************************************************************)
IsLowerBound(s, k, x) == k \in DOMAIN s /\ k >= x /\ \A j \in DOMAIN s : j >= x => j >= k

contains_member(s, x) == \E k \in DOMAIN s : IsLowerBound(s, k, x) /\ s[k]

(***************************************************************************)
(* The first member, and the last.                                         *)
(***************************************************************************)
first_member(s) == Min(DOMAIN s) + 1
last_member(s)  == Max(DOMAIN s)

(***************************************************************************)
(* The members in b..e: of every interval in the set, from the first id in *)
(* b..e that is not before it to its end or e.                             *)
(***************************************************************************)
member_ct(s, b, e) ==
  LET since(k) == Max({b} \cup {j + 1 : j \in {j \in DOMAIN s : j < k}})
      until(k) == Min({k, e})
  IN MapThenSumSet(LAMBDA k : until(k) - since(k) + 1,
                   {k \in DOMAIN s : s[k] /\ since(k) <= until(k)})

(***************************************************************************)
(* Put b..e in the set, or take it out: the interval before ends at b - 1, *)
(* unless it is continued; the one at e ends there, unless it goes on;     *)
(* what ended in between is erased.                                        *)
(***************************************************************************)
put_left(s, b, value) ==
  IF b - 1 \in DOMAIN s
    THEN IF s[b - 1] = value THEN Erase(s, {b - 1}) ELSE s
    ELSE IF contains_member(s, b) = value THEN s ELSE Put(s, b - 1, ~value)

put_right(s, e, value) ==
  IF contains_member(s, e) = value THEN s
  ELSE IF e \in DOMAIN s THEN Erase(s, {e})
  ELSE Put(s, e, value)

\* A bug: ends of intervals inside b..e stay.
put_interval_NotErasedBug(s, b, e, value) == put_right(put_left(s, b, value), e, value)

put_interval(s, b, e, value) ==
  Erase(put_right(put_left(s, b, value), e, value), b..e - 1)

insert_interval(s, b, e) == put_interval(s, b, e, TRUE)
remove_interval(s, b, e) == put_interval(s, b, e, FALSE)
insert_member(s, x) == insert_interval(s, x, x)
remove_member(s, x) == remove_interval(s, x, x)

(***************************************************************************)
(* The intervals alternate, from a gap to an interval in the set; begin()  *)
(* and end() rely on it.                                                   *)
(***************************************************************************)
Alternates(s) ==
  /\ ~is_empty(s) => ~s[Min(DOMAIN s)] /\ s[Max(DOMAIN s)]
  /\ \A k \in DOMAIN s, j \in DOMAIN s :
       k < j /\ (\A i \in DOMAIN s : i <= k \/ i >= j) => s[k] # s[j]
==============================================================================
