------------------------------- MODULE Metrics -------------------------------
(***************************************************************************)
(* Metrics collection.  A child process counts in tables of its own, under *)
(* its process mutex; its collector thread wakes up now and then, adds the *)
(* tables to a JSON text in shared memory, under the global mutex, and     *)
(* clears them.  A request to the metrics page reads the text and resets   *)
(* it where the format or the client says so.                              *)
(*                                                                         *)
(* One counter and one timing stand for all; a timing is a histogram with  *)
(* cumulative buckets.  Integers end at IntMax, where a value starts anew. *)
(***************************************************************************)
EXTENDS Naturals, FiniteSets, FiniteSetsExt

CONSTANTS
    Children,       \* child processes
    IntMax,         \* OIDC_JSON_INT_MAX
    EventBound,     \* bound: events that are counted
    MetricFaults    \* faults that happen, of {"crash", "size"}

\* The global mutex is with nobody.
Unlocked == "free"

ASSUME MetricsAssumption ==
    /\ IsFiniteSet(Children) /\ Unlocked \notin Children
    /\ IntMax \in Nat \ {0} /\ EventBound \in Nat

VARIABLES
    table,      \* per child: its own count and histogram
    text,       \* what is in shared memory
    mutex,      \* the child that holds the global mutex
    thread,     \* per child: where its collector thread is, and what it read
    leaving,    \* per child: _oidc_metrics_thread_exit
    tally       \* ghost: events counted, reported by a page with reset, lost; timings made

metricVars == <<table, text, mutex, thread, leaving, tally>>

\* le01, le05, ... and inf, which is the last.
Buckets == 1 .. 2
Zero == [hits |-> 0, count |-> 0, bucket |-> [b \in Buckets |-> 0]]

Tallies == [hits : Nat, count : Nat, bucket : [Buckets -> Nat]]

MetricsTypeOK ==
    /\ table \in [Children -> Tallies]
    /\ text \in Tallies
    /\ mutex \in Children \cup {Unlocked}
    /\ thread \in [Children -> [pc : {"sleep", "flush", "check", "ended", "dead"}, read : Tallies]]
    /\ leaving \in [Children -> BOOLEAN]
    /\ tally \in [counted : 0 .. EventBound, reported : Nat, lost : Nat, timed : 0 .. EventBound]

MetricsInit ==
    /\ table = [c \in Children |-> Zero]
    /\ text = Zero
    /\ mutex = Unlocked
    /\ thread = [c \in Children |-> [pc |-> "sleep", read |-> Zero]]
    /\ leaving = [c \in Children |-> FALSE]
    /\ tally = [counted |-> 0, reported |-> 0, lost |-> 0, timed |-> 0]

Alive(c) == thread[c].pc # "dead"

-----------------------------------------------------------------------------
(* Arithmetic                                                                *)

(* _is_overflow, with the reset that follows it                              *)
Sum(cur, add) == IF add > IntMax - cur THEN add ELSE cur + add
DroppedBy(cur, add) == IF add > IntMax - cur THEN cur ELSE 0

\* Only the bucket that the time falls into.
BucketsIncOne(h, b) == [h EXCEPT ![b] = @ + 1]

(* _oidc_metrics_timing_buckets_inc: every bucket that covers the time.      *)
BucketsInc(h, b) == [k \in Buckets |-> IF k >= b THEN h[k] + 1 ELSE h[k]]

(* oidc_metrics_store_counters, oidc_metrics_store_timings: the tables are   *)
(* added to what was in the text; a new entry is set.                        *)
MergedText(old, new) ==
    [hits |-> Sum(old.hits, new.hits), count |-> old.count + new.count,
     bucket |-> [b \in Buckets |-> old.bucket[b] + new.bucket[b]]]

-----------------------------------------------------------------------------
(* A request is counted: oidc_metrics_counter_inc                            *)
CounterInc(c) ==
    /\ Alive(c) /\ thread[c].pc # "flush" /\ tally.counted + tally.timed < EventBound
    /\ table' = [table EXCEPT ![c].hits = Sum(@, 1)]
    /\ tally' = [tally EXCEPT !.counted = @ + 1, !.lost = @ + DroppedBy(table[c].hits, 1)]
    /\ UNCHANGED <<text, mutex, thread, leaving>>

(* oidc_metrics_timing_add: a sum that would overflow clears the timing.     *)
TimingAdd(c) ==
    /\ Alive(c) /\ thread[c].pc # "flush" /\ tally.counted + tally.timed < EventBound
    /\ \E b \in Buckets, overflow \in BOOLEAN :
         LET t == IF overflow /\ table[c].count > 0 THEN [Zero EXCEPT !.hits = table[c].hits]
                  ELSE table[c] IN
         table' = [table EXCEPT ![c] = [t EXCEPT !.bucket = BucketsInc(@, b), !.count = @ + 1]]
    /\ tally' = [tally EXCEPT !.timed = @ + 1]
    /\ UNCHANGED <<text, mutex, thread, leaving>>

-----------------------------------------------------------------------------
(* oidc_metrics_thread_run                                                   *)

\* The text is read without the global mutex.
WakeUpUnlocked(c) ==
    /\ thread[c].pc = "sleep" /\ table[c] # Zero
    /\ mutex' = c
    /\ thread' = [thread EXCEPT ![c] = [pc |-> "flush", read |-> text]]
    /\ UNCHANGED <<table, text, leaving, tally>>

(* Woken by the interval or by the exit flag, the thread takes the process   *)
(* mutex, which stops the counting, and stores, which takes the global one.  *)
WakeUp(c) ==
    /\ thread[c].pc = "sleep"
    /\ IF table[c] = Zero
         THEN thread' = [thread EXCEPT ![c].pc = "check"] /\ UNCHANGED mutex
         ELSE /\ mutex = Unlocked /\ mutex' = c
              /\ thread' = [thread EXCEPT ![c] = [pc |-> "flush", read |-> text]]
    /\ UNCHANGED <<table, text, leaving, tally>>

(* _oidc_metrics_storage_set refuses a text that is too long; the tables are *)
(* cleared all the same.                                                     *)
StoreMetrics(c) ==
    /\ thread[c].pc = "flush"
    /\ \/ /\ text' = MergedText(thread[c].read, table[c])
          /\ tally' = [tally EXCEPT !.lost = @ + DroppedBy(thread[c].read.hits, table[c].hits)]
       \/ /\ "size" \in MetricFaults
          /\ text' = text
          /\ tally' = [tally EXCEPT !.lost = @ + table[c].hits]
    /\ mutex' = Unlocked
    /\ table' = [table EXCEPT ![c] = Zero]
    /\ thread' = [thread EXCEPT ![c] = [pc |-> "check", read |-> Zero]]
    /\ UNCHANGED leaving

(* The exit flag is looked at before the next sleep.                         *)
CheckExit(c) ==
    /\ thread[c].pc = "check"
    /\ thread' = [thread EXCEPT ![c].pc = IF leaving[c] THEN "ended" ELSE "sleep"]
    /\ UNCHANGED <<table, text, mutex, leaving, tally>>

(* oidc_metrics_cleanup: the flag, then the thread is waited for, then the   *)
(* process ends with what is in its tables.  httpd starts another child      *)
(* (oidc_metrics_child_init).                                                *)
BeginCleanup(c) ==
    /\ Alive(c) /\ ~leaving[c]
    /\ leaving' = [leaving EXCEPT ![c] = TRUE]
    /\ UNCHANGED <<table, text, mutex, thread, tally>>

EndCleanup(c) ==
    /\ thread[c].pc = "ended"
    /\ tally' = [tally EXCEPT !.lost = @ + table[c].hits]
    /\ table' = [table EXCEPT ![c] = Zero]
    /\ thread' = [thread EXCEPT ![c].pc = "sleep"]
    /\ leaving' = [leaving EXCEPT ![c] = FALSE]
    /\ UNCHANGED <<text, mutex>>

(* A child dies; a semaphore that it holds stays locked.                     *)
ChildDies(c) ==
    /\ "crash" \in MetricFaults /\ Alive(c)
    /\ tally' = [tally EXCEPT !.lost = @ + table[c].hits]
    /\ table' = [table EXCEPT ![c] = Zero]
    /\ thread' = [thread EXCEPT ![c] = [pc |-> "dead", read |-> Zero]]
    /\ UNCHANGED <<text, mutex, leaving>>

-----------------------------------------------------------------------------
(* oidc_metrics_handle_request: under the global mutex the text is read and, *)
(* by the format's default or the reset parameter, set to zero.              *)
HandleMetrics ==
    /\ mutex = Unlocked
    /\ \/ UNCHANGED <<text, tally>>
       \/ text' = Zero /\ tally' = [tally EXCEPT !.reported = @ + text.hits]
    /\ UNCHANGED <<table, mutex, thread, leaving>>

MetricsNext ==
    \/ HandleMetrics
    \/ \E c \in Children :
         \/ CounterInc(c) \/ TimingAdd(c) \/ WakeUp(c) \/ StoreMetrics(c) \/ CheckExit(c)
         \/ BeginCleanup(c) \/ EndCleanup(c) \/ ChildDies(c)

MetricsSpec == MetricsInit /\ [][MetricsNext]_metricVars

-----------------------------------------------------------------------------
(* Properties                                                                *)

\* The events in the tables t of all children.
HitsIn(t) == FoldSet(LAMBDA c, n : n + t[c].hits, 0, Children)

\* Every event that was counted is in the table of a child, in the text, was
\* reported, or was given up on one of the ways known (a dead child, a text
\* that is too long, an integer that started anew): none is lost or counted
\* twice by flushes and pages that overlap.
CountsConserved ==
    tally.counted = text.hits + tally.reported + tally.lost + HitsIn(table)

\* A histogram is one at every moment: cumulative, and the last bucket is
\* the number of events.
HistogramCoherent ==
    \A v \in {text} \cup {table[c] : c \in Children} :
        /\ \A b \in Buckets : b + 1 \in Buckets => v.bucket[b] <= v.bucket[b + 1]
        /\ v.bucket[2] = v.count

\* What the metrics report adds up, counter by counter and within each
\* histogram.
MetricsRight == CountsConserved /\ HistogramCoherent
=============================================================================
