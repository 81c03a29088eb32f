---------------------------- MODULE KstatCommon ----------------------------
(***************************************************************************)
(* lib/instrumenter/lib/kstat-common.js and the collectors that are little *)
(* more than a call of it: which kstats each reads, how they are labelled  *)
(* and when the whole reading fails.  The functions are synchronous, so    *)
(* they are operators.  The counters' names and values are left out: of    *)
(* the keys of a kstat the model tells apart "plain" ones, which every     *)
(* kernel has, those that may be missing, and limits, which may be unset.  *)
(***************************************************************************)
EXTENDS Integers, FiniteSets

\* A kstat as the reader returns it: the keys of its data with their values,
\* the zone and the instance it belongs to and what tells it from the others
\* of the same collector (a CPU, a vdev, the PPA of a link).
Kstat(data, zone, instance, unit) ==
    [data |-> data, zone |-> zone, instance |-> instance, unit |-> unit]

\* A collector's kstatMap, kstatReadOpts, kstatLabeler and EMPTY_OK.
Zonewide == [required |-> {"plain"}, optional |-> {}, limits |-> {},
             labelled |-> FALSE, emptyOK |-> FALSE, by |-> "instanceId"]

cpucap == [Zonewide EXCEPT !.emptyOK = TRUE]

link == [Zonewide EXCEPT !.labelled = TRUE, !.by = "zonename"]

memcap == [Zonewide EXCEPT !.limits = {"physcap", "swapcap"}]

tcp == Zonewide

zone_misc == Zonewide

zone_vfs == Zonewide

arcstats == [Zonewide EXCEPT !.by = "global",
               !.optional = {"sync_wait_for_async", "async_upgrade_sync"}]

cpu_info == [Zonewide EXCEPT !.by = "global"]

cpu_util == [Zonewide EXCEPT !.by = "global", !.labelled = TRUE]

zpool == [Zonewide EXCEPT !.by = "global", !.labelled = TRUE]

KstatMap(c) == c.required \cup c.limits \cup c.optional

-----------------------------------------------------------------------------

AnyZones(c, zInfo, kstats) == kstats                                 \* slip

\* What reader.read returns for kstatReadOpts, and of that what the collector's
\* filter keeps.
Read(c, zInfo, kstats) ==
    CASE c.by = "instanceId" -> {k \in kstats : k.instance = zInfo.instanceId}
      [] c.by = "zonename"   -> {k \in kstats : k.zone = zInfo.zonename}
      [] c.by = "global"     -> kstats

\* memLimit returns undefined for a limit that is not set, and loadMetrics
\* calls toString of what the modifier returned.
Unset(c, k) == \E key \in c.limits \cap DOMAIN k.data : k.data[key] = "unset"

\* Two kstats would make metrics of the same key and label.
SameLabel(c, j, k) ==
    /\ KstatMap(c) \cap DOMAIN j.data \cap DOMAIN k.data # {}
    /\ j.unit = k.unit

\* One of the two assertions about the kstats fails ...
Asserts(c, kstats) ==
    \/ Cardinality(kstats) > 1 /\ ~c.labelled
    \/ \E j, k \in kstats : j # k /\ SameLabel(c, j, k)

\* ... or there is no value to call toString of: a TypeError.
LimitUnset(c, kstats) == \E k \in kstats : Unset(c, k)

Throws(c, kstats) == Asserts(c, kstats) \/ LimitUnset(c, kstats)

Missing(c, kstats) ==
    \E k \in kstats : ~(c.required \cup c.limits \subseteq DOMAIN k.data)

\* loadMetrics for every kstat: a metric for each key of the map it has.
LoadMetrics(c, kstats, label) ==
    UNION {[key : KstatMap(c) \cap DOMAIN k.data, label : {label[k]}] : k \in kstats}

\* What kstatsToMetrics and, after it, cachedMetricGet make of the kstats: a
\* missing key is a failure, and no metrics are refused unless the collector
\* says that there may be none.
KstatsToMetrics(c, kstats, label) ==
    [outcome |-> CASE Asserts(c, kstats) -> "assertion"
                   [] ~Asserts(c, kstats) /\ LimitUnset(c, kstats) -> "typeError"
                   [] ~Throws(c, kstats) /\ Missing(c, kstats) -> "failed"
                   [] kstats = {} -> IF c.emptyOK THEN "empty" ELSE "notFound"
                   [] OTHER -> "metrics",
     metrics |-> LoadMetrics(c, kstats, label)]
=============================================================================
