----------------------------- MODULE Registries -----------------------------
(***************************************************************************)
(* The small stores the server keeps in memory (lib.rs): the saved         *)
(* queries, of the same shape as the registries of files and of feedback;  *)
(* the token bucket of one address; the samples behind the trends of the   *)
(* dashboard.  Time is a clock of ticks.                                   *)
(***************************************************************************)
EXTENDS Integers, Sequences, FiniteSets

CONSTANTS
    MaxRecords,  \* queries ever saved
    MaxRequests, \* rate_limit.max_requests
    Window,      \* its window, in ticks
    Spacing,     \* the ticks between two samples
    Capacity,    \* samples kept
    Horizon      \* the last tick

VARIABLES
    clock,
    queries,     \* id -> the tick of its last run, 0 for none
    nextQuery,   \* the last id handed out
    gone,        \* history: the ids deleted
    runs,        \* queries being run: read, not yet touched
    bucket,      \* [tokens, last]: tokens in Window-ths of a request
    admitted,    \* history: the ticks of the requests let through
    samples,     \* ticks of the samples kept
    part         \* which of the three is used: they share nothing but the clock

nvars == <<part, clock, queries, nextQuery, gone, runs, bucket, admitted, samples>>

Smaller(a, b) == IF a < b THEN a ELSE b
Full == MaxRequests * Window

NInit ==
    /\ part \in {"queries", "bucket", "samples"}
    /\ clock = 1 /\ queries = << >> /\ nextQuery = 0 /\ gone = {} /\ runs = {}
    /\ bucket = [tokens |-> Full, last |-> 1] /\ admitted = << >> /\ samples = << >>

Tick == /\ clock < Horizon /\ clock' = clock + 1
        /\ UNCHANGED <<queries, nextQuery, gone, runs, bucket, admitted, samples>>

(* insert, remove.                                                         *)
SaveQuery ==
    /\ nextQuery < MaxRecords /\ nextQuery' = nextQuery + 1
    /\ queries' = [q \in DOMAIN queries \cup {nextQuery'} |-> IF q = nextQuery' THEN 0 ELSE queries[q]]
    /\ UNCHANGED <<clock, gone, runs, bucket, admitted, samples>>

DropQuery ==
    \E q \in DOMAIN queries :
        /\ queries' = [r \in DOMAIN queries \ {q} |-> queries[r]] /\ gone' = gone \cup {q}
        /\ UNCHANGED <<clock, nextQuery, runs, bucket, admitted, samples>>

(* run_query reads the query, waits for the answer and marks the run: the  *)
(* query may be gone by then.                                              *)
RunQuery ==
    \E q \in DOMAIN queries \ runs :
        /\ runs' = runs \cup {q}
        /\ UNCHANGED <<clock, queries, nextQuery, gone, bucket, admitted, samples>>

TouchRun ==
    \E q \in runs :
        /\ runs' = runs \ {q}
        /\ queries' = [r \in DOMAIN queries |-> IF r = q THEN clock ELSE queries[r]]
        /\ UNCHANGED <<clock, nextQuery, gone, bucket, admitted, samples>>

(* RateLimiter::allow: refill for the time gone by, up to full, then take  *)
(* a whole token if there is one.                                          *)
Allow ==
    LET refilled == Smaller(Full, bucket.tokens + (clock - bucket.last) * MaxRequests)
        ok       == refilled >= Window IN
    /\ Len(admitted) < 2 * MaxRequests + 2
    /\ bucket' = [tokens |-> IF ok THEN refilled - Window ELSE refilled, last |-> clock]
    /\ admitted' = IF ok THEN Append(admitted, clock) ELSE admitted
    /\ UNCHANGED <<clock, queries, nextQuery, gone, runs, samples>>

(* StatsHistory::record, on a call of /stats.                              *)
Sample ==
    /\ samples # << >> => clock - samples[Len(samples)] >= Spacing
    /\ LET all == Append(samples, clock) IN
       samples' = IF Len(all) > Capacity THEN Tail(all) ELSE all
    /\ UNCHANGED <<clock, queries, nextQuery, gone, runs, bucket, admitted>>

NNext ==
    /\ \/ Tick
       \/ part = "queries" /\ (SaveQuery \/ DropQuery \/ RunQuery \/ TouchRun)
       \/ part = "bucket" /\ Allow
       \/ part = "samples" /\ Sample
    /\ UNCHANGED part

NSpec == NInit /\ [][NNext]_nvars

-----------------------------------------------------------------------------
(* A deleted query stays deleted, its run that ends later included, and    *)
(* ids are not handed out twice; a window, at either end included, lets    *)
(* through what a full bucket and one refill hold, no more; the samples    *)
(* are apart, bounded, and the last Capacity of them.                      *)
RegistriesKept ==
    /\ DOMAIN queries \cap gone = {} /\ DOMAIN queries \cup gone = 1..nextQuery
    /\ \A i, j \in 1..Len(admitted) :
          i < j /\ admitted[j] - admitted[i] <= Window => j - i + 1 <= 2 * MaxRequests
    /\ Len(samples) <= Capacity
    /\ \A i \in 2..Len(samples) : samples[i] - samples[i - 1] >= Spacing
=============================================================================
