------------------------------ MODULE UsageChart ------------------------------
(***************************************************************************)
(* What the dashboard shows of usage: the series of GET .../usage over     *)
(* UsageAggregate rows, the totals of .../usage/summary, and the hourly    *)
(* breakdown of the request log, read at any moment while rows are         *)
(* written.                                                                *)
(*                                                                         *)
(* Time is in ticks; a row's period is Period ticks.  A range is a window  *)
(* of `len` ticks before now in buckets of `bucket` ticks; the windows of  *)
(* rangeToWindow are no whole number of buckets when the clock changes     *)
(* for summer time inside them.                                            *)
(***************************************************************************)
EXTENDS Integers, FiniteSets, FiniteSetsExt

CONSTANTS Period,      \* BUCKET_MINUTES
          Ranges,      \* windows of the date picker: [len, bucket]
          Month,       \* ticks of a calendar month
          MaxTicks, MaxQuantity \* bounds

ASSUME ChartAssumption ==
  /\ Period \in Nat \ {0} /\ Month \in Nat \ {0} /\ MaxTicks \in Nat /\ MaxQuantity \in Nat
  /\ Ranges \subseteq [len : Nat \ {0}, bucket : Nat \ {0}]

KeyUsage == "key"         \* usage of an API key
PublicUsage == "rollup"   \* apiKeyId null: the public tunnel path
ChartSlots == {KeyUsage, PublicUsage}
Starts == {p * Period : p \in 0..MaxTicks \div Period}

VARIABLES now, usage, requestLog, chart
\* usage: quantity of each aggregate; requestLog: requests created at each tick;
\* chart: the response being sent

chartVars == <<now, usage, requestLog, chart>>

NoChart == [kind |-> "none"]
ChartInit ==
  /\ now = 0
  /\ usage = [s \in ChartSlots |-> [b \in Starts |-> 0]]
  /\ requestLog = [t \in 0..MaxTicks |-> 0]
  /\ chart = NoChart

SumOver(S, f(_)) == MapThenSumSet(f, S)
Written == SumOver(ChartSlots, LAMBDA s : SumOver(Starts, LAMBDA b : usage[s][b]))

\* Nothing reads a response that has been sent: the next step forgets it.
Served == chart = NoChart
Forget == ~Served /\ chart' = NoChart /\ UNCHANGED <<now, usage, requestLog>>

Tick == Served /\ now < MaxTicks /\ now' = now + 1 /\ UNCHANGED <<usage, requestLog, chart>>

\* The flush adds to the row of the period the requests were counted in.
AddUsage ==
  /\ Served
  /\ Written < MaxQuantity
  /\ \E s \in ChartSlots, b \in Starts :
       b =< now /\ usage' = [usage EXCEPT ![s][b] = @ + 1]
  /\ UNCHANGED <<now, requestLog, chart>>

LogRequest ==
  /\ Served
  /\ SumOver(0..MaxTicks, LAMBDA t : requestLog[t]) < MaxQuantity
  /\ requestLog' = [requestLog EXCEPT ![now] = @ + 1]
  /\ UNCHANGED <<now, usage, chart>>

-----------------------------------------------------------------------------

rangeToWindow(range) == [start |-> now - range.len, end |-> now]

\* findByAccountAndPeriod, findByApiKeyAndPeriod: whole periods inside the window,
\* of one key or of none.
findInPeriod(slot, w) ==
  {b \in Starts : usage[slot][b] > 0 /\ w.start =< b /\ b + Period =< w.end}

\* GetApiKeyUsage: the key's rows when a key is asked for, else the account's rollups.
getApiKeyUsage(slot, w) == findInPeriod(slot, w)

bucketIndex(b, w, range) == (b - w.start) \div range.bucket
bucketCountFloor(w, range) == (w.end - w.start) \div range.bucket
bucketCount(w, range) == (w.end - w.start + range.bucket - 1) \div range.bucket

\* buildTimeSeries: a value for every bucket, 0 where no row falls.
buildTimeSeries(slot, rows, w, range) ==
  [i \in 0..bucketCount(w, range) - 1 |->
     SumOver({b \in rows : bucketIndex(b, w, range) = i}, LAMBDA b : usage[slot][b])]

GetUsage ==
  /\ Served
  /\ \E range \in Ranges, slot \in ChartSlots :
       LET w == rangeToWindow(range)
           rows == getApiKeyUsage(slot, w)
           series == buildTimeSeries(slot, rows, w, range)
       IN chart' = [kind |-> "series", slot |-> slot, window |-> w,
                    total |-> SumOver(DOMAIN series, LAMBDA i : series[i]),
                    peak |-> Max({series[i] : i \in DOMAIN series})]
  /\ UNCHANGED <<now, usage, requestLog>>

\* .../usage/summary: every row since the first of the month, keyed or not.
GetSummary ==
  /\ Served
  /\ LET monthStart == now - (now % Month)
     IN chart' = [kind |-> "summary", from |-> monthStart,
                  total |-> SumOver(ChartSlots, LAMBDA s :
                    SumOver({b \in Starts : b >= monthStart}, LAMBDA b : usage[s][b]))]
  /\ UNCHANGED <<now, usage, requestLog>>

\* getHourlyStats: requests between from and to, grouped by the hour of createdAt.
hourOf(t, hour) == t - (t % hour)
getHourlyStats(from, to, hour) ==
  [h \in {hourOf(t, hour) : t \in {u \in from..to : requestLog[u] > 0}} |->
     SumOver({t \in from..to : hourOf(t, hour) = h}, LAMBDA t : requestLog[t])]

GetTunnelUsage ==
  /\ Served
  /\ \E from, to \in 0..now, range \in Ranges :
       /\ from =< to
       /\ LET stats == getHourlyStats(from, to, range.bucket)
          IN chart' = [kind |-> "hourly", from |-> from, to |-> to,
                       total |-> SumOver(DOMAIN stats, LAMBDA h : stats[h])]
  /\ UNCHANGED <<now, usage, requestLog>>

ChartNext == Forget \/ Tick \/ AddUsage \/ LogRequest \/ GetUsage \/ GetSummary \/ GetTunnelUsage
ChartSpec == ChartInit /\ [][ChartNext]_chartVars

-----------------------------------------------------------------------------
\* A response accounts for every unit of usage in its window exactly once:
\* cutting a window that starts and ends anywhere into buckets, also one that
\* is no whole number of them, drops or repeats no row, the peak is part of the
\* total, and the hours of the breakdown add up to the requests of the period.
ChartAccountsAll ==
  [][/\ chart'.kind = "series" =>
        LET whole == {b \in Starts : chart'.window.start =< b /\ b + Period =< chart'.window.end}
        IN /\ chart'.total = SumOver(whole, LAMBDA b : usage[chart'.slot][b])
           /\ chart'.peak =< chart'.total
     /\ chart'.kind = "hourly" =>
        chart'.total = SumOver(chart'.from..chart'.to, LAMBDA t : requestLog[t])]_chart

=============================================================================
