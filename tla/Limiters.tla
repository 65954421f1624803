------------------------------ MODULE Limiters ------------------------------
(***************************************************************************)
(* The limiters of dbtool-core as pure operators: how many items and bytes *)
(* a read may take in and show, and what a mutation may ask for.           *)
(*                                                                         *)
(* An item, a row, a hit, a sample or a message is a record with its size  *)
(* in compact JSON as `bytes`; a complete request or response is Overhead  *)
(* bytes longer than its items (names, delimiters, markers).  A limiter    *)
(* that has refused something is `failed` and stays so: every caller       *)
(* returns the error at once.                                              *)
(***************************************************************************)
EXTENDS Naturals, Sequences

CONSTANTS
  MaxUsize,       \* usize::MAX: no probe can be reserved beyond it
  MaxReadBytes,   \* the hard ceilings on what a caller may ask for
  MaxInputItems,
  Overhead

ASSUME LimitersAssumption ==
  /\ MaxUsize \in Nat /\ MaxReadBytes \in Nat \ {0}
  /\ MaxInputItems \in Nat \ {0} /\ Overhead \in Nat

\* checked_add at the width of usize: FALSE stands for None.
Fits(n)        == n <= MaxUsize
Total(sizes)   == LET sum[i \in 0..Len(sizes)] == IF i = 0 THEN 0 ELSE sum[i - 1] + sizes[i]
                  IN sum[Len(sizes)]
BytesOf(items) == Total([i \in DOMAIN items |-> items[i].bytes])
WholeOf(items) == Overhead + BytesOf(items)
\* SerializedByteCounter: counts up to its limit and refuses the byte behind it.
Measured(bytes, limit) == Fits(bytes) /\ bytes <= limit
-----------------------------------------------------------------------------
(* n + 1 probes *)

\* checked_probe_limit: the addition of usize must not wrap around.
ProbeLimit(limit) == limit > 0 /\ Fits(limit + 1)

\* Faulty variant: no more than what may be shown is asked for.
ProbeWithoutExtra(limit) == limit

Probe(limit) == (limit + 1) % (MaxUsize + 1)

ValidReadBudget(budget) ==
  /\ ProbeLimit(budget.max_items)
  /\ budget.max_bytes \in 1..MaxReadBytes

\* ListLimiter::finish and ResultLimiter::apply.
FinishList(items, max) ==
  [items |-> SubSeq(items, 1, IF Len(items) < max THEN Len(items) ELSE max),
   truncated |-> Len(items) > max]
-----------------------------------------------------------------------------
(* ReadLimiter: n items and one probe within one envelope of bytes *)

ReadLimiter == [observed |-> 0, bytes |-> 0, probe |-> 0, truncated |-> FALSE, failed |-> FALSE]

Refused(limiter) == [limiter EXCEPT !.failed = TRUE]

ObserveHeader(limiter, budget, bytes) ==
  IF Measured(bytes, budget.max_bytes - limiter.bytes)
  THEN [limiter EXCEPT !.bytes = @ + bytes]
  ELSE Refused(limiter)

\* Faulty variant: the bytes are added up and only looked at in the end.
ObserveItemUnmeasured(limiter, budget, bytes) ==
  IF limiter.truncated THEN Refused(limiter)
  ELSE LET retain == limiter.observed < budget.max_items IN
       [limiter EXCEPT !.observed = @ + 1,
                       !.bytes = @ + bytes,
                       !.truncated = ~retain,
                       !.probe = IF retain THEN 0 ELSE bytes]

\* The item is charged first; item n + 1 is the probe, and nothing may follow it.
ObserveItem(limiter, budget, bytes) ==
  IF limiter.truncated \/ ~Measured(bytes, budget.max_bytes - limiter.bytes)
  THEN Refused(limiter)
  ELSE LET retain == limiter.observed < budget.max_items IN
       [limiter EXCEPT !.observed = @ + 1,
                       !.bytes = @ + bytes,
                       !.truncated = ~retain,
                       !.probe = IF retain THEN 0 ELSE bytes]

\* What the caller sees, the envelope included, shares the bytes with the probe.
Finishes(limiter, budget, items) ==
  /\ ~limiter.failed
  /\ Len(items) = IF limiter.observed < budget.max_items
                  THEN limiter.observed ELSE budget.max_items
  /\ Measured(WholeOf(items), budget.max_bytes - limiter.probe)

\* Observes items in their order and keeps those in front of the probe.
ReadAll(limiter, budget, items) ==
  LET read[i \in 0..Len(items)] ==
        IF i = 0 THEN [limiter |-> limiter, kept |-> <<>>]
        ELSE LET before == read[i - 1]
                 next   == ObserveItem(before.limiter, budget, items[i].bytes)
             IN IF before.limiter.failed THEN before
                ELSE [limiter |-> next,
                      kept |-> IF next.failed \/ next.truncated
                               THEN before.kept ELSE Append(before.kept, items[i])]
  IN read[Len(items)]

\* finish_optional and finish_single: one item, or the absence of one.
FinishesScalar(budget, value) ==
  LET read == ReadAll(ReadLimiter, budget, value) IN
  Finishes(read.limiter, budget, read.kept)

\* SearchReadLimiter::apply: one hit too many is an error, never a truncation.
SearchApplies(budget, hits) ==
  LET read == ReadAll(ReadLimiter, budget, hits) IN
  ~read.limiter.truncated /\ Finishes(read.limiter, budget, read.kept)
-----------------------------------------------------------------------------
(* TimeSeriesReadLimiter: series and samples each have a probe, the first  *)
(* of the two ends the read; a series is [bytes, samples]                  *)

ValidSeriesBudget(budget) ==
  /\ ProbeLimit(budget.max_series) /\ ProbeLimit(budget.max_samples)
  /\ budget.max_bytes \in 1..MaxReadBytes

SeriesLimiter == [series |-> 0, samples |-> 0, bytes |-> 0, probe |-> 0,
                  truncated |-> FALSE, failed |-> FALSE]

\* All series share one count of samples.
RetainSample(read, budget, sample) ==
  IF read.limiter.failed \/ read.limiter.truncated THEN read
  ELSE IF ~Measured(sample.bytes, budget.max_bytes - read.limiter.bytes)
  THEN [read EXCEPT !.limiter = Refused(@)]
  ELSE LET retain == read.limiter.samples < budget.max_samples IN
       [limiter |-> [read.limiter EXCEPT !.samples = @ + 1,
                                         !.bytes = @ + sample.bytes,
                                         !.truncated = ~retain,
                                         !.probe = IF retain THEN 0 ELSE sample.bytes],
        values |-> IF retain THEN Append(read.values, sample) ELSE read.values]

\* A header beyond max_series is the probe; a series whose samples end in the
\* probe is still shown, with the samples in front of it.
RetainSeries(read, budget, series) ==
  LET limiter == read.limiter
      charged == [limiter EXCEPT !.series = @ + 1, !.bytes = @ + series.bytes]
      retained[i \in 0..Len(series.samples)] ==
        IF i = 0 THEN [limiter |-> charged, values |-> <<>>]
        ELSE LET before == retained[i - 1] IN RetainSample(before, budget, series.samples[i])
      samples == retained[Len(series.samples)]
  IN IF limiter.failed \/ limiter.truncated THEN read
     ELSE IF ~Measured(series.bytes, budget.max_bytes - limiter.bytes)
     THEN [read EXCEPT !.limiter = Refused(@)]
     ELSE IF limiter.series >= budget.max_series
     THEN [read EXCEPT !.limiter = [charged EXCEPT !.truncated = TRUE, !.probe = series.bytes]]
     ELSE [limiter |-> samples.limiter,
           kept |-> Append(read.kept, [series EXCEPT !.samples = samples.values])]

ReadSeries(budget, all) ==
  LET read[i \in 0..Len(all)] ==
        IF i = 0 THEN [limiter |-> SeriesLimiter, kept |-> <<>>]
        ELSE LET before == read[i - 1] IN RetainSeries(before, budget, all[i])
  IN read[Len(all)]

\* Nothing is shown unless both counts are exact and the whole answer fits.
SampleCount(all) == Total([i \in DOMAIN all |-> Len(all[i].samples)])
SeriesBytes(all) == BytesOf(all) + Total([i \in DOMAIN all |-> BytesOf(all[i].samples)])
AtMost(n, max)   == IF n < max THEN n ELSE max

FinishesSeries(limiter, budget, kept) ==
  /\ ~limiter.failed
  /\ Len(kept) = AtMost(limiter.series, budget.max_series)
  /\ SampleCount(kept) = AtMost(limiter.samples, budget.max_samples)
  /\ Measured(Overhead + SeriesBytes(kept), budget.max_bytes - limiter.probe)
-----------------------------------------------------------------------------
(* MetadataLimiter: errors instead of truncation *)

\* The items of one metadata object are exact: one more than max_items, or one
\* byte more than max_bytes, and there is no object.
MetadataProbe(budget, observed) ==
  (IF observed < budget.max_items THEN budget.max_items - observed ELSE 0) + 1

MetadataFits(budget, items) ==
  /\ Len(items) <= budget.max_items
  /\ Measured(BytesOf(items), budget.max_bytes)
  /\ Measured(WholeOf(items), budget.max_bytes)
-----------------------------------------------------------------------------
(* InputLimiter, MessageWriteLimiter: everything is measured before the    *)
(* first request                                                           *)

ValidInputBudget(budget) ==
  /\ budget.max_items \in 1..MaxInputItems
  /\ budget.max_item_bytes \in 1..MaxReadBytes
  /\ budget.max_batch_bytes \in 1..MaxReadBytes

\* validate_items_with_request, validate_batch and MessageWriteLimiter::validate.
BatchFits(budget, items) ==
  /\ Len(items) \in 1..budget.max_items
  /\ \A i \in DOMAIN items : Measured(items[i].bytes, budget.max_item_bytes)
  /\ Measured(WholeOf(items), budget.max_batch_bytes)

\* validate_request: the request is its own only item.
RequestFits(budget, items) ==
  /\ Measured(WholeOf(items), budget.max_item_bytes)
  /\ Measured(WholeOf(items), budget.max_batch_bytes)
=============================================================================
