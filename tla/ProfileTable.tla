---------------------------- MODULE ProfileTable ----------------------------
(***************************************************************************)
(* Util/Profiler.h: each thread adds up the time of its tags in a table of *)
(* its own; DataOutText writes the tables of all of them.  Clear is that   *)
(* of the benchmark's copy.                                                *)
(*                                                                         *)
(* Update is three steps, for a thread that reads the table in between.    *)
(* DataOutText reads each row at one moment: its reads may also be spread  *)
(* over several, with more outcomes than here.                             *)
(***************************************************************************)
EXTENDS Integers, Sequences, SequencesExt

CONSTANTS Threads, Tags,
          Elapsed,      \* the times a scope may take
          LongLongMax,  \* LLONG_MAX
          ProfileMax,   \* PROFILE_MAX
          MaxCalls,     \* bound: scopes that are counted
          MaxNest,      \* bound: scopes of a thread at a time
          MaxCount      \* bound: of ProfileCount

ASSUME ProfileAssumption ==
  /\ Elapsed \subseteq Nat /\ \A ns \in Elapsed : ns < LongLongMax
  /\ {LongLongMax, ProfileMax, MaxCalls, MaxNest, MaxCount} \subseteq Nat

VARIABLES isInit,        \* the threads that have a context
          profileData,   \* rows 1 to ProfileCount of each, as far as there
                         \* are rows
          profileCount,
          scopes,        \* the tags of a thread's Profilers, the inner last
          step,          \* where Update is: "idle", "call" or "extremes"
          row, elapsed,  \* the row it updates, and by how much
          report,        \* the rows the last DataOutText has written
          samples        \* history: how often each tag took each time

profileVars == << isInit, profileData, profileCount, scopes, step, row,
                  elapsed, report, samples >>

NoSamples == [tag \in Tags |-> [ns \in Elapsed |-> 0]]

ProfileInit ==
  /\ isInit = {}
  /\ profileData = [t \in Threads |-> << >>]
  /\ profileCount = [t \in Threads |-> 0]
  /\ scopes = [t \in Threads |-> << >>]
  /\ step = [t \in Threads |-> "idle"]
  /\ row = [t \in Threads |-> 0]
  /\ elapsed = [t \in Threads |-> 0]
  /\ report = {}
  /\ samples = [t \in Threads |-> NoSamples]

(* A row as Initialize and the first Update of it leave it.                *)
NewRow(tag) == [Name |-> tag, TotalTime |-> 0, Call |-> 0,
                Min |-> << LongLongMax, LongLongMax >>, Max |-> << 0, 0 >>]

Times(bag) == FoldFunction(LAMBDA n, sum : n + sum, 0, bag)
Calls == FoldFunction(LAMBDA f, sum :
           FoldFunction(LAMBDA bag, s : Times(bag) + s, sum, f), 0, samples)

(* The constructor: CheckInit, and a scope begins.                         *)
Profile(t, tag) ==
  /\ step[t] = "idle"
  /\ Len(scopes[t]) < MaxNest
  /\ isInit' = isInit \cup {t}
  /\ scopes' = [scopes EXCEPT ![t] = Append(@, tag)]
  /\ UNCHANGED << profileData, profileCount, step, row, elapsed, report,
                  samples >>

-----------------------------------------------------------------------------
(* The destructor: End and Update. *)

RowsOf(t) == DOMAIN profileData[t]

AddTime(data, k, ns) == [data EXCEPT ![k].TotalTime = @ + ns]

Updates(t, k, ns) ==
  /\ Calls < MaxCalls
  /\ row' = [row EXCEPT ![t] = k]
  /\ elapsed' = [elapsed EXCEPT ![t] = ns]
  /\ step' = [step EXCEPT ![t] = "call"]

(* The tag has a row.                                                      *)
EndKnown(t, tag, ns) ==
  \E k \in RowsOf(t) :
    /\ profileData[t][k].Name = tag
    /\ profileData' = [profileData EXCEPT ![t] = AddTime(@, k, ns)]
    /\ Updates(t, k, ns)
    /\ UNCHANGED profileCount

Unknown(t, tag) == \A k \in RowsOf(t) : profileData[t][k].Name # tag

(* It gets one; ProfileCount takes it in when Update has returned.         *)
EndNew(t, tag, ns) ==
  LET k == profileCount[t] + 1 IN
  /\ Unknown(t, tag)
  /\ k <= ProfileMax
  /\ profileData' = [profileData EXCEPT ![t] =
                       AddTime(Append(@, NewRow(tag)), k, ns)]
  /\ Updates(t, k, ns)
  /\ UNCHANGED profileCount

(* The table is full: Update refuses, and ProfileCount goes on all the     *)
(* same.  Rows behind the table, which the search then reads, may seem to  *)
(* be of the tag.                                                          *)
EndRefused(t, tag) ==
  /\ Unknown(t, tag)
  /\ profileCount[t] >= ProfileMax
  /\ \/ /\ profileCount[t] < MaxCount
        /\ profileCount' = [profileCount EXCEPT ![t] = @ + 1]
     \/ /\ profileCount[t] > ProfileMax
        /\ UNCHANGED profileCount
  /\ UNCHANGED << profileData, step, row, elapsed >>

End(t) ==
  /\ step[t] = "idle" /\ scopes[t] # << >>
  /\ scopes' = [scopes EXCEPT ![t] = Front(@)]
  /\ \/ \E ns \in Elapsed :
          EndKnown(t, Last(scopes[t]), ns) \/ EndNew(t, Last(scopes[t]), ns)
     \/ EndRefused(t, Last(scopes[t]))
  /\ UNCHANGED << isInit, report, samples >>

AddCall(t) ==
  /\ step[t] = "call"
  /\ profileData' = [profileData EXCEPT ![t][row[t]].Call = @ + 1]
  /\ step' = [step EXCEPT ![t] = "extremes"]
  /\ UNCHANGED << isInit, profileCount, scopes, row, elapsed, report, samples >>

(* Mutant: the smallest so far is overwritten, not moved down.             *)
MinWith_NotMoved(min, ns) ==
  IF ns < min[1] THEN << ns, min[2] >>
  ELSE IF ns < min[2] THEN << min[1], ns >> ELSE min

MinWith(min, ns) ==
  IF ns < min[1] THEN << ns, min[1] >>
  ELSE IF ns < min[2] THEN << min[1], ns >> ELSE min

MaxWith(max, ns) ==
  IF ns > max[1] THEN << ns, max[1] >>
  ELSE IF ns > max[2] THEN << max[1], ns >> ELSE max

Counted(t) == IF row[t] > profileCount[t] THEN row[t] ELSE profileCount[t]

Extremes(t) ==
  LET k == row[t] IN
  /\ step[t] = "extremes"
  /\ profileData' = [profileData EXCEPT
                       ![t][k].Min = MinWith(@, elapsed[t]),
                       ![t][k].Max = MaxWith(@, elapsed[t])]
  /\ profileCount' = [profileCount EXCEPT ![t] = Counted(t)]
  /\ samples' = [samples EXCEPT ![t][profileData[t][k].Name][elapsed[t]] = @ + 1]
  /\ step' = [step EXCEPT ![t] = "idle"]
  /\ row' = [row EXCEPT ![t] = 0]
  /\ elapsed' = [elapsed EXCEPT ![t] = 0]
  /\ UNCHANGED << isInit, scopes, report >>

-----------------------------------------------------------------------------
(* DataOutText and Clear. *)

(* GetAvgUs, before its division: what it divides, and by what.  The two   *)
(* smallest and the two largest times do not count if there are others.    *)
Average(data) ==
  IF data.Call <= 4 THEN << data.TotalTime, data.Call >>
  ELSE << data.TotalTime - (data.Min[1] + data.Min[2] + data.Max[1] + data.Max[2]),
          data.Call - 4 >>

ReportLine(data) == [Name |-> data.Name, Average |-> Average(data),
                  Min |-> data.Min[1], Max |-> data.Max[1], Call |-> data.Call]

(* The first ProfileCount rows of every table; no thread is kept from      *)
(* updating them.                                                          *)
DataOutText(t) ==
  /\ step[t] = "idle"
  /\ report' = UNION { { ReportLine(profileData[u][k]) :
                 k \in { j \in RowsOf(u) : j <= profileCount[u] } } : u \in isInit }
  /\ UNCHANGED << isInit, profileData, profileCount, scopes, step, row,
                  elapsed, samples >>

(* In the benchmark, whose only thread calls it between two measurements.  *)
ClearTables(t) ==
  /\ isInit = {t} /\ scopes[t] = << >> /\ step[t] = "idle"
  /\ isInit' = {}
  /\ profileData' = [profileData EXCEPT ![t] = << >>]
  /\ profileCount' = [profileCount EXCEPT ![t] = 0]
  /\ samples' = [samples EXCEPT ![t] = NoSamples]
  /\ UNCHANGED << scopes, step, row, elapsed, report >>

ProfileNext ==
  \E t \in Threads :
    \/ \E tag \in Tags : Profile(t, tag)
    \/ End(t) \/ AddCall(t) \/ Extremes(t)
    \/ DataOutText(t) \/ ClearTables(t)

ProfileSpec == ProfileInit /\ [][ProfileNext]_profileVars

-----------------------------------------------------------------------------
(* Properties. *)

(* The times a bag holds, their sum, the extremes, or what stands for      *)
(* none, and a bag with one time less of a kind.                           *)
Held(bag) == { ns \in Elapsed : bag[ns] > 0 }
Total(bag) == SumFunction([ns \in Elapsed |-> ns * bag[ns]])
Least(bag) == Min(Held(bag) \cup {LongLongMax})
Greatest(bag) == Max(Held(bag) \cup {0})
Without(bag, ns) == [bag EXCEPT ![ns] = @ - 1]

TwoLeast(bag) == << Least(bag), Least(Without(bag, Least(bag))) >>
TwoGreatest(bag) == << Greatest(bag), Greatest(Without(bag, Greatest(bag))) >>
Others(bag) ==
  LET l == TwoLeast(bag)
      g == TwoGreatest(bag)
  IN  Without(Without(Without(Without(bag, l[1]), l[2]), g[1]), g[2])

(* What a tag's row must say of the times of its scopes.                   *)
RowIsOf(data, bag) ==
  /\ data.Call = Times(bag) /\ data.TotalTime = Total(bag)
  /\ data.Min = TwoLeast(bag) /\ data.Max = TwoGreatest(bag)
  /\ Times(bag) > 4 =>
       Average(data) = << Total(Others(bag)), Times(Others(bag)) >>

(* Between two scopes a thread's table has one row for each tag that it    *)
(* has timed and could still take in, and the row says exactly what the    *)
(* tag's scopes have taken: their number, sum, extremes, and the average   *)
(* without the two smallest and the two largest, also when a time comes    *)
(* twice, scopes are nested, or the table is full.                         *)
ProfileExact ==
  \A t \in Threads : step[t] = "idle" =>
    /\ \A k, j \in RowsOf(t) :
         profileData[t][k].Name = profileData[t][j].Name => k = j
    /\ \A k \in RowsOf(t) :
         RowIsOf(profileData[t][k], samples[t][profileData[t][k].Name])
    /\ \A tag \in Tags : Unknown(t, tag) => Times(samples[t][tag]) = 0

=============================================================================
