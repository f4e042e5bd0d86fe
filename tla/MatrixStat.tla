---------------------------- MODULE MatrixStat ----------------------------
(***************************************************************************)
(* The statistics of one name (monitor/matrix_stat.h, .cpp) and the map of *)
(* them the collector fills for one period (monitor/matrix_stat_map.h).    *)
(* Times and rates, and how a statistic is printed, are left out.          *)
(***************************************************************************)
EXTENDS Integers, FiniteSets

CONSTANTS
    kBucketUsec, kTotalBucket,
    MinInit             \* 0xFFFFFFFF, what min_ starts from

ASSUME StatAssumption ==
    /\ kBucketUsec \in Nat \ {0}
    /\ kTotalBucket \in Nat \ {0}
    /\ MinInit \in Nat

Lesser(x, y) == IF x < y THEN x ELSE y
Greater(x, y) == IF x > y THEN x ELSE y

(* distribution_ is <<>> until the first TimeDistribute sizes it; child_   *)
(* holds the same counters for each result.                                *)
NewStat(persistent) ==
    [persistent |-> persistent, count |-> 0, value |-> 0, max |-> 0, min |-> MinInit,
     distribution |-> <<>>, child |-> <<>>]

Counted(stat, value) ==
    [stat EXCEPT !.count = @ + 1, !.value = value,
                 !.max = Greater(value, @), !.min = Lesser(value, @)]

Set(stat, value) == Counted(stat, value)
Add(stat, value) == Counted(stat, stat.value + value)
Sub(stat, value) == Counted(stat, stat.value - value)

(* What was distributed, and the results, stay. *)
Reset(stat) ==
    [stat EXCEPT !.count = 0, !.value = 0, !.max = 0, !.min = MinInit]

(* The division is towards zero, and the cast to uint32_t makes a negative *)
(* quotient larger than any bucket.                                        *)
BucketOf(value) ==
    IF value <= -kBucketUsec THEN kTotalBucket - 1
    ELSE Lesser(Greater(value, 0) \div kBucketUsec, kTotalBucket - 1)

(* max_ and min_ are of the single values here, where Add takes them of    *)
(* the sum.                                                                *)
Distribute(stat, value) ==
    LET sized == IF stat.distribution = <<>> THEN [b \in 0 .. kTotalBucket - 1 |-> 0]
                 ELSE stat.distribution
    IN [stat EXCEPT !.max = Greater(value, @), !.min = Lesser(value, @),
                    !.count = @ + 1, !.value = @ + value,
                    !.distribution = [sized EXCEPT ![BucketOf(value)] = @ + 1]]

(* A value with a result counts for the name and for the child; the empty  *)
(* result ("") has no child.                                               *)
TimeDistribute(stat, result, value) ==
    LET known == DOMAIN stat.child
        child == IF result \in known THEN stat.child[result] ELSE NewStat(stat.persistent)
    IN IF result = "" THEN Distribute(stat, value)
       ELSE [Distribute(stat, value) EXCEPT !.child =
                 [r \in known \cup {result} |->
                     IF r = result THEN Distribute(child, value) ELSE stat.child[r]]]

(* The sum of the first n buckets. *)
SumTo(distribution, n) ==
    LET sum[i \in 0 .. n] == IF i = 0 THEN 0 ELSE sum[i - 1] + distribution[i - 1]
    IN sum[n]

(* A slip: the bucket after the one that reached the count. *)
GetTimeDistributePast(stat, percent) ==
    LET count == (percent * stat.count) \div 100
        size == IF stat.distribution = <<>> THEN 0 ELSE kTotalBucket
        bucket == CHOOSE b \in 0 .. size :
                     /\ b = size \/ SumTo(stat.distribution, b) >= count
                     /\ \A c \in 0 .. b - 1 : SumTo(stat.distribution, c) < count
    IN bucket * kBucketUsec

(* GetTimeDistribute walks the buckets until enough values are behind it,  *)
(* and steps back by one.                                                  *)
GetTimeDistribute(stat, percent) ==
    LET count == (percent * stat.count) \div 100
        size == IF stat.distribution = <<>> THEN 0 ELSE kTotalBucket
        bucket == CHOOSE b \in 0 .. size :
                     /\ b = size \/ SumTo(stat.distribution, b) >= count
                     /\ \A c \in 0 .. b - 1 : SumTo(stat.distribution, c) < count
    IN Greater(bucket - 1, 0) * kBucketUsec

----------------------------------------------------------------------------
(* A map of statistics by name.  GetMatrixStat makes a missing one, and    *)
(* takes the persistent flag of the call that made it.                     *)
GetMatrixStat(map, name, persistent) ==
    IF name \in DOMAIN map THEN map[name] ELSE NewStat(persistent)

Put(map, name, stat) ==
    [n \in DOMAIN map \cup {name} |-> IF n = name THEN stat ELSE map[n]]

(* One item the collector has taken from a queue, applied to the map. *)
Apply(map, item) ==
    LET persistent == item.operation # "Reset" /\ item.persistent
        stat == GetMatrixStat(map, item.name, persistent)
    IN Put(map, item.name,
           CASE item.operation = "Set" -> Set(stat, item.val)
             [] item.operation = "Add" -> Add(stat, item.val)
             [] item.operation = "Sub" -> Sub(stat, item.val)
             [] item.operation = "Reset" -> Reset(stat)
             [] item.operation = "TimeDistribute" -> TimeDistribute(stat, item.result, item.val))

(* Slip: every statistic goes over to the next period. *)
InheritAll(map) == map

(* What the map of the next period starts with. *)
Inherit(map) ==
    [n \in {name \in DOMAIN map : map[name].persistent} |-> map[n]]

----------------------------------------------------------------------------
(* The percentile of GetTimeDistribute is the lower end of the bucket that *)
(* holds the value of that rank among the values distributed so far, for   *)
(* values a clock that does not go back can give.                          *)
PercentileIsRankOf(stat, values, percent) ==
    LET rank == (percent * Cardinality(DOMAIN values)) \div 100
        answer == GetTimeDistribute(stat, percent)
        Below(x) == Cardinality({i \in DOMAIN values : BucketOf(values[i]) * kBucketUsec < x})
        UpTo(x) == Cardinality({i \in DOMAIN values : BucketOf(values[i]) * kBucketUsec <= x})
    IN IF rank = 0 THEN answer = 0
       ELSE Below(answer) < rank /\ rank <= UpTo(answer)
=============================================================================
