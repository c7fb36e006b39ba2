------------------------------- MODULE Forget -------------------------------
(***************************************************************************)
(* `forget`: which snapshots a retention policy keeps.  Snapshots are made *)
(* while time goes by and the policy is applied now and then; it sees only *)
(* what earlier applications left, and one of them may have been stopped   *)
(* when it had removed some of the files only.                             *)
(***************************************************************************)
EXTENDS Integers, FiniteSets, Sequences, SequencesExt

CONSTANTS Calendar,      \* the instants, oldest first: [at, year, month, doy,
                         \* week_year, week, hour, minute], `at` in minutes,
                         \* week and its year by ISO
          Hosts,         \* what snapshots are grouped by
          Trees, Deletes,  \* the trees and delete options of new snapshots
          Policies,      \* the KeepOptions to choose from
          MaxSnapshots   \* bound on the snapshots that are made

VARIABLES now,           \* index into Calendar
          snaps,         \* the snapshots there are
          made,          \* all snapshots there ever were
          given,         \* those removed because the user named them
          policy,        \* the KeepOptions in use
          append_only    \* of the repository's configuration

forgetVars == <<now, snaps, made, given, policy, append_only>>

(***************************************************************************)
(* A snapshot has an id, a time, a host, a tree, tags and a delete option: *)
(* "not set", "never" or an instant after which it is to be removed.       *)
(* SnapshotOptions: delete_after is counted from the time of the snapshot. *)
(***************************************************************************)
NotSet == [never |-> FALSE, after |-> <<>>]
Never == [never |-> TRUE, after |-> <<>>]
After(span) == [never |-> FALSE, after |-> <<span>>]

At(i) == Calendar[i].at
DeleteAt(s) == At(s.time) + s.delete.after[1]

must_delete(s, t) == ~s.delete.never /\ s.delete.after # <<>> /\ DeleteAt(s) < At(t)
must_keep(s, t) == s.delete.never \/ (s.delete.after # <<>> /\ DeleteAt(s) >= At(t))

(***************************************************************************)
(* The periods                                                             *)
(***************************************************************************)
Rules == {"last", "minutely", "hourly", "daily", "weekly", "monthly",
          "quarter_yearly", "half_yearly", "yearly"}

equal_year(a, b) == a.year = b.year
equal_half_year(a, b) == equal_year(a, b) /\ (a.month - 1) \div 6 = (b.month - 1) \div 6
equal_quarter_year(a, b) == equal_year(a, b) /\ (a.month - 1) \div 3 = (b.month - 1) \div 3
equal_month(a, b) == equal_year(a, b) /\ a.month = b.month
equal_week(a, b) == equal_year(a, b) /\ a.week = b.week
\* Mutant of equal_day: days are told apart by their number alone
equal_day_number(a, b) == a.doy = b.doy

equal_day(a, b) == equal_year(a, b) /\ a.doy = b.doy
equal_hour(a, b) == equal_day(a, b) /\ a.hour = b.hour
equal_minute(a, b) == equal_half_year(a, b) /\ a.minute = b.minute

\* The check function of a rule; the one of `last` is always_false.
CheckFunction(rule, a, b) ==
  CASE rule = "last" -> FALSE
    [] rule = "minutely" -> equal_minute(a, b)
    [] rule = "hourly" -> equal_hour(a, b)
    [] rule = "daily" -> equal_day(a, b)
    [] rule = "weekly" -> equal_week(a, b)
    [] rule = "monthly" -> equal_month(a, b)
    [] rule = "quarter_yearly" -> equal_quarter_year(a, b)
    [] rule = "half_yearly" -> equal_half_year(a, b)
    [] OTHER -> equal_year(a, b)

(***************************************************************************)
(* KeepOptions: for each rule a counter and a time span, which may be      *)
(* missing (a counter of -1 has no limit), ids, tags and two flags.        *)
(***************************************************************************)
NoKeep == [keep |-> [r \in Rules |-> <<>>], within |-> [r \in Rules |-> <<>>],
           ids |-> {}, tags |-> {}, none |-> FALSE, delete_unchanged |-> FALSE]

is_valid(opts) ==
  \/ opts.ids # {} \/ opts.tags # {} \/ opts.none
  \/ \E r \in Rules : opts.keep[r] # <<>> \/ opts.within[r] # <<>>

\* KeepOptions::matches for a snapshot that comes after `last` in the list,
\* with what is left of the counters: is it kept, and the counters after.
matches(opts, left, s, last, has_next, latest) ==
  LET hit == {r \in Rules : \/ ~has_next \/ last = <<>>
                            \/ ~CheckFunction(r, Calendar[s.time], Calendar[last[1].time])}
      counted == {r \in hit : left[r] # <<>> /\ left[r] # <<0>>}
      within == {r \in hit : opts.within[r] # <<>> /\ At(s.time) + opts.within[r][1] > At(latest)}
  IN  [keep |-> \/ s.id \in opts.ids
                \/ \E t \in opts.tags : t \subseteq s.tags
                \/ counted # {} \/ within # {},
       left |-> [r \in Rules |-> IF r \in counted /\ left[r][1] > 0 THEN <<left[r][1] - 1>>
                                 ELSE left[r]]]

\* Mutant of apply: a snapshot is unchanged if a neighbour has its tree
apply_neighbours(opts, list, t) ==
  LET step(a, i) ==
        LET s == list[i]
            has_next == i < Len(list)
            unchanged == opts.delete_unchanged /\ \E j \in {i - 1, i + 1} \cap DOMAIN list : list[j].tree = s.tree
            m == matches(opts, a.left, s, a.last, has_next, list[1].time)
        IN  IF must_keep(s, t) THEN [a EXCEPT !.kept = @ \cup {s}, !.last = <<s>>]
            ELSE IF must_delete(s, t) \/ unchanged THEN [a EXCEPT !.last = <<s>>]
            ELSE [left |-> m.left, last |-> <<s>>,
                  kept |-> IF m.keep THEN a.kept \cup {s} ELSE a.kept]
  IN  FoldLeft(step, [left |-> opts.keep, last |-> <<>>, kept |-> {}],
               [i \in DOMAIN list |-> i]).kept

\* KeepOptions::apply on the list of a group, newest first: the snapshots
\* that are kept.  Each one is compared with the one before it in the list,
\* whether that is kept or not.
apply(opts, list, t) ==
  LET step(a, i) ==
        LET s == list[i]
            has_next == i < Len(list)
            unchanged == opts.delete_unchanged /\ has_next /\ list[i + 1].tree = s.tree
            m == matches(opts, a.left, s, a.last, has_next, list[1].time)
        IN  IF must_keep(s, t) THEN [a EXCEPT !.kept = @ \cup {s}, !.last = <<s>>]
            ELSE IF must_delete(s, t) \/ unchanged THEN [a EXCEPT !.last = <<s>>]
            ELSE [left |-> m.left, last |-> <<s>>,
                  kept |-> IF m.keep THEN a.kept \cup {s} ELSE a.kept]
  IN  FoldLeft(step, [left |-> opts.keep, last |-> <<>>, kept |-> {}],
               [i \in DOMAIN list |-> i]).kept

(***************************************************************************)
(* Grouped::from_items and ForgetGroups                                    *)
(***************************************************************************)
Group(S, host) == {s \in S : s.host = host}

\* The group sorted by time, newest first.  Times have nanoseconds: no two
\* snapshots of a group have the same.
Sorted(S) ==
  LET newest_first == [i \in 1..Len(Calendar) |-> Len(Calendar) + 1 - i]
      times == SelectSeq(newest_first, LAMBDA i : \E s \in S : s.time = i)
  IN  [i \in DOMAIN times |-> CHOOSE s \in S : s.time = times[i]]

\* What is kept of S at instant t: each group is looked at on its own.
Kept(opts, S, t) == UNION {apply(opts, Sorted(Group(S, h)), t) : h \in Hosts}

\* ForgetGroups::from_snapshots: of snapshots given by the user, those go
\* that need not be kept.
ForgetGiven(S, t) == {s \in S : ~must_keep(s, t)}

(***************************************************************************)
(* Behaviour                                                               *)
(***************************************************************************)
ForgetInit ==
  /\ now = 1 /\ snaps = {} /\ made = {} /\ given = {}
  /\ policy \in Policies
  /\ append_only \in BOOLEAN

\* SnapshotFile::from_options
TakeSnapshot(host, tree, delete) ==
  /\ Cardinality(made) < MaxSnapshots
  /\ \A s \in Group(made, host) : s.time < now
  /\ LET s == [id |-> Cardinality(made) + 1, time |-> now, host |-> host, tree |-> tree,
               tags |-> {}, delete |-> delete]
     IN  snaps' = snaps \cup {s} /\ made' = made \cup {s}
  /\ UNCHANGED <<now, given, policy, append_only>>

Tick ==
  /\ now < Len(Calendar)
  /\ now' = now + 1
  /\ UNCHANGED <<snaps, made, given, policy, append_only>>

\* Repository::delete_snapshots removes the files in any order; the process
\* may die when it has removed some of them.
RemoveSnapshots(S) ==
  /\ ~append_only
  /\ \E done \in SUBSET S : snaps' = snaps \ done
  /\ UNCHANGED <<now, made, policy, append_only>>

ForgetByPolicy ==
  /\ is_valid(policy)
  /\ RemoveSnapshots(snaps \ Kept(policy, snaps, now))
  /\ UNCHANGED given

ForgetById(S) ==
  /\ RemoveSnapshots(ForgetGiven(S, now))
  /\ given' = given \cup (snaps \ snaps')

\* Only delete_unchanged looks at trees: one will do for the other policies.
SomeTrees == IF policy.delete_unchanged THEN Trees ELSE {CHOOSE t \in Trees : TRUE}

ForgetNext ==
  \/ \E h \in Hosts, tree \in SomeTrees, d \in Deletes : TakeSnapshot(h, tree, d)
  \/ Tick
  \/ ForgetByPolicy
  \/ \E s \in snaps : ForgetById({s})

ForgetSpec == ForgetInit /\ [][ForgetNext]_forgetVars

(***************************************************************************)
(* Properties                                                              *)
(***************************************************************************)

\* Applying a policy early and often, and being interrupted at it, loses
\* nothing: what the policy would keep now, had nothing been removed so
\* far, is still there; and where only unchanged snapshots are removed,
\* every tree that was ever saved is still in some snapshot.  (apply compares
\* neighbours in the list, and the list gets shorter with each application.
\* The statement is about groups without delete options: snapshots with one
\* stand in for their period without being counted, which shifts what the
\* counters reach, and a snapshot is removed as unchanged even if the older
\* one it repeats is removed in the same run because its time has come.)
HistoryKept ==
  \A h \in Hosts : Group(given, h) = {} /\ (\A s \in Group(made, h) : s.delete = NotSet) =>
    /\ ~policy.delete_unchanged => apply(policy, Sorted(Group(made, h)), now) \subseteq snaps
    /\ policy.delete_unchanged /\ policy.keep["last"] = <<-1>> =>
         \A s \in Group(made, h) : \E o \in Group(snaps, h) : o.tree = s.tree

\* The same rules in terms of periods, those of the calendar: a rule keeps the newest snapshot of
\* each of the newest n periods that have one, and the oldest snapshot if
\* there are less.
Period(rule, c) ==
  CASE rule = "last" -> <<c.at>>
    [] rule = "minutely" -> <<c.year, c.doy, c.hour, c.minute>>
    [] rule = "hourly" -> <<c.year, c.doy, c.hour>>
    [] rule = "daily" -> <<c.year, c.doy>>
    [] rule = "weekly" -> <<c.week_year, c.week>>
    [] rule = "monthly" -> <<c.year, c.month>>
    [] rule = "quarter_yearly" -> <<c.year, (c.month + 2) \div 3>>
    [] rule = "half_yearly" -> <<c.year, (c.month + 5) \div 6>>
    [] OTHER -> <<c.year>>

Heads(rule, S) ==
  {s \in S : \/ \A o \in S : o.time >= s.time
             \/ \A o \in S : Period(rule, Calendar[o.time]) = Period(rule, Calendar[s.time])
                             => o.time <= s.time}
NewestOf(S, n) == {s \in S : n = -1 \/ Cardinality({o \in S : o.time > s.time}) < n}

ByPeriods(opts, S) ==
  UNION {NewestOf(Heads(r, S), opts.keep[r][1]) : r \in {x \in Rules : opts.keep[x] # <<>>}}

\* Nothing but counters
Counting(opts, S) ==
  /\ opts.within = NoKeep.within /\ opts.ids = {} /\ opts.tags = {} /\ ~opts.delete_unchanged
  /\ \A s \in S : s.delete = NotSet

\* What apply finds by comparing neighbours is what the counters are
\* documented to keep, whatever earlier applications have left.  It is not
\* so for all policies and calendars: equal_week takes the number of a week
\* by ISO together with the year by the calendar, which is another one at
\* the turn of the year, and equal_minute does not look at day and hour.
RetentionExact ==
  \A h \in Hosts :
    Counting(policy, Group(snaps, h))
      => apply(policy, Sorted(Group(snaps, h)), now) = ByPeriods(policy, Group(snaps, h))
=============================================================================
