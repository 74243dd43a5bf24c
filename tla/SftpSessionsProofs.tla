-------------------------- MODULE SftpSessionsProofs --------------------------
(***************************************************************************)
(* Proofs about SftpSessions for any number of servers, panels, tabs, jobs, *)
(* connections and mounts: a filesystem is open exactly as long as somebody *)
(* uses it (commands.rs release, claims.ts), and it stays on the server it  *)
(* was opened on.                                                          *)
(*                                                                         *)
(* The count is kept by each step's balance: what comes and goes of panels, *)
(* tabs and jobs is one of each at most (OneMoves), and the registry and    *)
(* the calls on their way must make up for it (the Balances lemmas).        *)
(***************************************************************************)
EXTENDS SftpSessions, FiniteSetTheorems, TLAPS

-----------------------------------------------------------------------------
\* What one of a set adds to its count.
Bit(b) == IF b THEN 1 ELSE 0

\* How many use a filesystem, by the registry.
UsersOf(o, f) == IF f \in DOMAIN o THEN o[f].users ELSE 0

\* The registry's entries, what tabs claim, mounts, and the records of panels, tabs
\* and jobs.
Entries == [mount : Nat, conn : Nat, server : Servers, users : Nat \ {0}]
Registries == UNION {[S -> Entries] : S \in SUBSET Fs}
Counts == UNION {[S -> Nat \ {0}] : S \in SUBSET Fs}
TabsClaims == [disposed : BOOLEAN, counts : Counts]
Sessions == [conn : Nat, ended : BOOLEAN, flag : BOOLEAN]
Ways == [pc : PanelSteps, fs : Fs \cup {None}, live : Nat, mount : Nat, lease : Nat]
Backs == [pc : RecSteps, fs : Fs \cup {None}, live : Nat, mount : Nat, lease : Nat]
Works == [pc : {"idle", "starts", "runs"}, fs : Fs \cup {None}, mount : Nat, counted : BOOLEAN]

-----------------------------------------------------------------------------
(* What each variable is, and within which of the others. *)

\* Where a panel has a mount to restart, a reference on its way, a filesystem.
Restarting == {"lock", "restart"}
Bringing == {"retained", "view"}
Knowing == Bringing \cup {"retain", "list"}

\* A panel's way to a filesystem, with c connections and m mounts so far.
WayFits(w, c, m) ==
  /\ w \in Ways
  /\ w.live <= c /\ w.lease <= c /\ w.mount <= m
  /\ w.pc \in Restarting => w.lease >= 1 /\ w.mount >= 1
  /\ w.pc \in Knowing => w.fs \in Fs

\* A tab's reconnect.
BackFits(b, c, m) ==
  /\ b \in Backs
  /\ b.live <= c /\ b.lease <= c /\ b.mount <= m
  /\ b.pc # "idle" => b.mount >= 1 /\ b.fs \in Fs
  /\ b.pc = "restart" => b.lease >= 1
  /\ b.pc = "record" => b.live >= 1

\* A job, which counts as a user only while it runs.
WorkFits(w) ==
  /\ w \in Works
  /\ w.counted => w.pc = "runs"
  /\ w.pc # "idle" => w.fs \in Fs

\* A tab's claims: none once it is closed.
ClaimsFit(c) == c \in TabsClaims /\ (c.disposed => \A f \in Fs : ~Holds(c, f))

TabsTypes == tabOf \in [Panels -> Tabs]
ConnsTypes ==
  /\ conns \in Seq(Servers) /\ Len(conns) <= MaxLogins
  /\ up \subseteq 1 .. Len(conns) /\ terminals \subseteq 1 .. Len(conns)
MountsTypes == mounts \in Seq(Sessions)
  /\ \A m \in 1 .. Len(mounts) : mounts[m].conn \in 1 .. Len(conns)
OpenedTypes ==
  /\ opened \in Registries
  /\ \A f \in DOMAIN opened : /\ f \in 1 .. Len(conns)
                              /\ opened[f].conn \in 1 .. Len(conns)
                              /\ opened[f].mount \in 1 .. Len(mounts)
ClaimsTypes == DOMAIN claims = Tabs /\ claims \in [Tabs -> TabsClaims]
  /\ \A t \in Tabs : ClaimsFit(claims[t])
HeldTypes == held \in [Panels -> Fs \cup {None}]
OpTypes == op \in [Panels -> Ways] /\ \A p \in Panels : WayFits(op[p], Len(conns), Len(mounts))
RecTypes == rec \in [Tabs -> Backs] /\ \A t \in Tabs : BackFits(rec[t], Len(conns), Len(mounts))
JobsTypes == jobs \in [Jobs -> Works] /\ \A j \in Jobs : WorkFits(jobs[j])
ClosesTypes == closes \in [Fs -> Nat]

Types ==
  /\ TabsTypes /\ ConnsTypes /\ MountsTypes /\ OpenedTypes /\ ClaimsTypes
  /\ HeldTypes /\ OpTypes /\ RecTypes /\ JobsTypes /\ ClosesTypes

USE SessionsAssumption DEF None, LocalFs, Ids, Fs

-----------------------------------------------------------------------------
(* The operators on claims and on the registry, by what they count. *)

\* Claims.take: one claim more on that filesystem, none fewer.
LEMMA TakenIs ==
  ASSUME NEW c \in TabsClaims, NEW fs \in Fs
  PROVE  /\ Taken(c, fs) \in TabsClaims /\ Taken(c, fs).disposed = c.disposed
         /\ \A f \in Fs : Holds(Taken(c, fs), f) <=> f = fs \/ Holds(c, f)
         /\ \A f \in Fs : Claimed(Taken(c, fs), f) = Claimed(c, f) + Bit(f = fs)
<1> DEFINE n == [f \in DOMAIN c.counts \cup {fs} |->
                   IF f = fs THEN Claimed(c, f) + 1 ELSE Claimed(c, f)]
<1>1. PICK S \in SUBSET Fs : c.counts \in [S -> Nat \ {0}]
  BY DEF TabsClaims, Counts
<1>2. n \in [S \cup {fs} -> Nat \ {0}] BY <1>1 DEF Claimed, Holds
<1>3. S \cup {fs} \in SUBSET Fs BY <1>1
<1>4. n \in Counts BY <1>2, <1>3 DEF Counts
<1>5. Taken(c, fs) = [disposed |-> c.disposed, counts |-> n]
  BY DEF Taken, TabsClaims
<1>6. DOMAIN n = DOMAIN c.counts \cup {fs} OBVIOUS
<1>11. \A f : Claimed(c, f) \in Nat BY <1>1 DEF Claimed, Holds
<1>7. \A f \in DOMAIN n : n[f] = Claimed(c, f) + Bit(f = fs)
  <2> SUFFICES ASSUME NEW f \in DOMAIN n PROVE n[f] = Claimed(c, f) + Bit(f = fs)
    OBVIOUS
  <2>1. CASE f = fs BY <2>1 DEF Bit
  <2>2. CASE f # fs BY <2>2, <1>11 DEF Bit
  <2> QED BY <2>1, <2>2
<1> HIDE DEF n
<1>8. Taken(c, fs).counts = n /\ Taken(c, fs).disposed = c.disposed BY <1>5
<1>9. \A f \in Fs : Holds(Taken(c, fs), f) <=> f = fs \/ Holds(c, f)
  BY <1>8, <1>6 DEF Holds
<1>10. \A f \in Fs : Claimed(Taken(c, fs), f) = Claimed(c, f) + Bit(f = fs)
  <2> TAKE f \in Fs
  <2>1. CASE f \in DOMAIN n BY <2>1, <1>7, <1>8 DEF Claimed, Holds
  <2>2. CASE f \notin DOMAIN n BY <2>2, <1>6, <1>8 DEF Claimed, Holds, Bit
  <2> QED BY <2>1, <2>2
<1> QED BY <1>4, <1>5, <1>8, <1>9, <1>10 DEF TabsClaims

\* Claims.give: one claim fewer if there was one, and none is left of the last.
LEMMA GivenBackIs ==
  ASSUME NEW c \in TabsClaims, NEW fs
  PROVE  /\ GivenBack(c, fs) \in TabsClaims /\ GivenBack(c, fs).disposed = c.disposed
         /\ \A f \in Fs : Holds(GivenBack(c, fs), f) <=> Holds(c, f) /\ ~(f = fs /\ IsLast(c, fs))
         /\ \A f \in Fs : Claimed(GivenBack(c, fs), f) = Claimed(c, f) - Bit(f = fs /\ Holds(c, fs))
<1>1. PICK S \in SUBSET Fs : c.counts \in [S -> Nat \ {0}]
  BY DEF TabsClaims, Counts
<1>2. CASE ~Holds(c, fs)
  <2>1. ~IsLast(c, fs) /\ GivenBack(c, fs) = c BY <1>2 DEF GivenBack, IsLast
  <2>2. \A f \in Fs : Claimed(c, f) \in Nat BY <1>1 DEF Claimed, Holds
  <2> QED BY <1>2, <2>1, <2>2 DEF Bit
<1>3. CASE IsLast(c, fs)
  <2> DEFINE n == Restrict(c.counts, S \ {fs})
  <2>1. n \in [S \ {fs} -> Nat \ {0}] /\ \A f \in S \ {fs} : n[f] = c.counts[f]
    BY <1>1 DEF Restrict
  <2>2. n \in Counts BY <2>1 DEF Counts
  <2>3. fs \in S /\ c.counts[fs] = 1 BY <1>1, <1>3 DEF IsLast, Holds
  <2>4. GivenBack(c, fs) = [disposed |-> c.disposed, counts |-> n]
    BY <1>1, <1>3 DEF GivenBack, TabsClaims, IsLast
  <2> HIDE DEF n
  <2>5. GivenBack(c, fs).counts = n /\ GivenBack(c, fs).disposed = c.disposed BY <2>4
  <2>6. \A f \in Fs : Holds(GivenBack(c, fs), f) <=> Holds(c, f) /\ f # fs
    BY <2>1, <2>5, <1>1 DEF Holds
  <2>7. \A f \in Fs : Claimed(GivenBack(c, fs), f) = Claimed(c, f) - Bit(f = fs)
    BY <2>1, <2>3, <2>5, <1>1 DEF Holds, Claimed, Bit
  <2> QED BY <1>3, <2>2, <2>4, <2>5, <2>6, <2>7 DEF TabsClaims, IsLast
<1>4. CASE Holds(c, fs) /\ ~IsLast(c, fs)
  <2> DEFINE n == [c.counts EXCEPT ![fs] = @ - 1]
  <2>1. fs \in S /\ c.counts[fs] \in Nat /\ c.counts[fs] > 1
    <3>1. fs \in S /\ c.counts[fs] # 1 BY <1>1, <1>4 DEF IsLast, Holds
    <3>2. c.counts[fs] \in Nat \ {0} BY <3>1, <1>1
    <3> QED BY <3>1, <3>2
  <2>2. n \in [S -> Nat \ {0}] /\ \A f \in S : n[f] = c.counts[f] - Bit(f = fs)
    BY <1>1, <2>1 DEF Bit
  <2>3. n \in Counts BY <2>2 DEF Counts
  <2>4. GivenBack(c, fs) = [disposed |-> c.disposed, counts |-> n]
    BY <1>1, <1>4 DEF GivenBack, TabsClaims
  <2> HIDE DEF n
  <2>5. GivenBack(c, fs).counts = n /\ GivenBack(c, fs).disposed = c.disposed BY <2>4
  <2>6. \A f \in Fs : Holds(GivenBack(c, fs), f) <=> Holds(c, f)
    BY <2>2, <2>5, <1>1 DEF Holds
  <2>7. \A f \in Fs : Claimed(GivenBack(c, fs), f) = Claimed(c, f) - Bit(f = fs)
    BY <2>1, <2>2, <2>5, <1>1 DEF Holds, Claimed, Bit
  <2> QED BY <1>4, <2>3, <2>4, <2>5, <2>6, <2>7 DEF TabsClaims
<1> QED BY <1>2, <1>3, <1>4 DEF IsLast

\* A filesystem is held as long as there is a claim on it.
LEMMA ClaimedIs ==
  ASSUME NEW c \in TabsClaims, NEW f \in Fs
  PROVE  /\ Claimed(c, f) \in Nat
         /\ Holds(c, f) <=> Claimed(c, f) >= 1
         /\ IsLast(c, f) <=> Claimed(c, f) = 1
<1>1. PICK S \in SUBSET Fs : c.counts \in [S -> Nat \ {0}]
  BY DEF TabsClaims, Counts
<1> QED BY <1>1 DEF Claimed, Holds, IsLast

\* A closed tab holds nothing.
LEMMA DisposedIs ==
  ASSUME NEW c
  PROVE  /\ ClaimsFit(Disposed(c)) /\ Disposed(c).disposed
         /\ \A f : ~Holds(Disposed(c), f)
<1>1. <<>> \in Counts
  <2>1. <<>> \in [{} -> Nat \ {0}] OBVIOUS
  <2> QED BY <2>1 DEF Counts
<1> QED BY <1>1 DEF Disposed, ClaimsFit, TabsClaims, Holds

\* The entries of o are those of r, at most.
Within(o, r) == \A f \in DOMAIN o : /\ f \in DOMAIN r /\ o[f].mount = r[f].mount
                                    /\ o[f].conn = r[f].conn /\ o[f].server = r[f].server

\* A filesystem is open as long as the registry counts a user.
LEMMA UsersAre ==
  ASSUME NEW o \in Registries, NEW f \in Fs
  PROVE  UsersOf(o, f) \in Nat /\ (f \in DOMAIN o <=> UsersOf(o, f) >= 1)
<1>1. PICK S \in SUBSET Fs : o \in [S -> Entries]
  BY DEF Registries
<1> QED BY <1>1 DEF UsersOf, Entries

\* retain counts one user more, and changes nothing else of the entry.
LEMMA RetainedIs ==
  ASSUME opened \in Registries, NEW fs \in Fs, IsOpen(fs)
  PROVE  /\ Retained(fs) \in Registries /\ Within(Retained(fs), opened)
         /\ \A f \in Fs : UsersOf(Retained(fs), f) = UsersOf(opened, f) + Bit(f = fs)
<1>1. PICK S \in SUBSET Fs : opened \in [S -> Entries]
  BY DEF Registries
<1>2. fs \in S BY <1>1 DEF IsOpen
<1>3. [opened[fs] EXCEPT !.users = @ + 1] \in Entries BY <1>1, <1>2 DEF Entries
<1>4. Retained(fs) \in [S -> Entries] BY <1>1, <1>3 DEF Retained
<1>5. Retained(fs) \in Registries BY <1>4 DEF Registries
<1>6. Within(Retained(fs), opened) BY <1>1, <1>4 DEF Within, Retained, Entries
<1>7. \A f \in Fs : UsersOf(Retained(fs), f) = UsersOf(opened, f) + Bit(f = fs)
  BY <1>1, <1>2, <1>4 DEF UsersOf, Retained, Bit, Entries
<1> QED BY <1>5, <1>6, <1>7

\* release counts one user fewer; what stays open stays as it was.
LEMMA ReleasedIs ==
  ASSUME opened \in Registries, NEW fs \in Fs
  PROVE  /\ Released(fs) \in Registries /\ Within(Released(fs), opened)
         /\ \A f \in Fs : UsersOf(Released(fs), f) = UsersOf(opened, f) - Bit(f = fs /\ IsOpen(fs))
<1>1. PICK S \in SUBSET Fs : opened \in [S -> Entries]
  BY DEF Registries
<1>2. CASE ~IsOpen(fs)
  BY <1>2, UsersAre DEF Released, Within, Bit
<1>3. CASE IsOpen(fs) /\ opened[fs].users = 1
  <2> DEFINE n == Restrict(opened, S \ {fs})
  <2>1. n \in [S \ {fs} -> Entries] /\ \A f \in S \ {fs} : n[f] = opened[f]
    BY <1>1 DEF Restrict
  <2>2. n \in Registries BY <2>1 DEF Registries
  <2>3. Released(fs) = n BY <1>1, <1>3 DEF Released
  <2>4. fs \in S BY <1>1, <1>3 DEF IsOpen
  <2>5. \A f \in S : opened[f].users \in Nat BY <1>1 DEF Entries
  <2> HIDE DEF n
  <2>6. Within(n, opened) BY <2>1, <1>1 DEF Within
  <2>7. \A f \in Fs : UsersOf(n, f) = UsersOf(opened, f) - Bit(f = fs)
    BY <2>1, <2>4, <2>5, <1>1, <1>3 DEF UsersOf, Bit
  <2> QED BY <1>3, <2>2, <2>3, <2>6, <2>7
<1>4. CASE IsOpen(fs) /\ opened[fs].users # 1
  <2>1. fs \in S BY <1>1, <1>4 DEF IsOpen
  <2>2. [opened[fs] EXCEPT !.users = @ - 1] \in Entries BY <1>1, <2>1, <1>4 DEF Entries
  <2>3. Released(fs) = [opened EXCEPT ![fs].users = @ - 1] BY <1>4 DEF Released
  <2>4. Released(fs) \in [S -> Entries] BY <1>1, <2>2, <2>3
  <2>5. Released(fs) \in Registries BY <2>4 DEF Registries
  <2>6. Within(Released(fs), opened) BY <1>1, <2>3 DEF Within, Entries
  <2>7. \A f \in Fs : UsersOf(Released(fs), f) = UsersOf(opened, f) - Bit(f = fs)
    BY <1>1, <2>1, <2>3, <2>4 DEF UsersOf, Bit, Entries
  <2> QED BY <1>4, <2>5, <2>6, <2>7
<1> QED BY <1>2, <1>3, <1>4

-----------------------------------------------------------------------------
(* Counting: a set of which only one element comes or goes. *)

\* Of two sets that differ in x at most, x makes the difference.
LEMMA OneMoves ==
  ASSUME NEW S, IsFiniteSet(S), NEW A \in SUBSET S, NEW B \in SUBSET S, NEW x,
         \A y \in S \ {x} : y \in A <=> y \in B
  PROVE  /\ Cardinality(A) \in Nat /\ Cardinality(B) \in Nat
         /\ Cardinality(B) = Cardinality(A) - Bit(x \in A) + Bit(x \in B)
         /\ Cardinality(A) >= Bit(x \in A)
<1>1. IsFiniteSet(A) /\ IsFiniteSet(B) BY FS_Subset
<1>2. A \ {x} = B \ {x} OBVIOUS
<1>3. Cardinality(A) \in Nat /\ Cardinality(B) \in Nat /\ Cardinality(A \ {x}) \in Nat
  BY <1>1, FS_CardinalityType, FS_RemoveElement
<1>4. Cardinality(A \ {x}) = Cardinality(A) - Bit(x \in A)
  <2>1. Cardinality(A \ {x}) = IF x \in A THEN Cardinality(A) - 1 ELSE Cardinality(A)
    BY <1>1, FS_RemoveElement
  <2>2. CASE x \in A BY <2>1, <2>2 DEF Bit
  <2>3. CASE x \notin A BY <2>1, <2>3, <1>3 DEF Bit
  <2> QED BY <2>2, <2>3
<1>5. Cardinality(B \ {x}) = Cardinality(B) - Bit(x \in B)
  <2>1. Cardinality(B \ {x}) = IF x \in B THEN Cardinality(B) - 1 ELSE Cardinality(B)
    BY <1>1, FS_RemoveElement
  <2>2. CASE x \in B BY <2>1, <2>2 DEF Bit
  <2>3. CASE x \notin B BY <2>1, <2>3, <1>3 DEF Bit
  <2> QED BY <2>2, <2>3
<1> QED BY <1>2, <1>3, <1>4, <1>5 DEF Bit

\* A reference on its way, a folder about to be shown, a job that is counted.
Brings(w, f) == w.pc \in Bringing /\ w.fs = f
Lists(w, f) == w.pc = "list" /\ w.fs = f
Uses(w, f) == w.counted /\ w.fs = f

\* The sets that UsersAreCounted counts.
Holding(f) == {t \in Tabs : Holds(claims[t], f)}
Incoming(f) == {p \in Panels : op[p].pc \in {"retained", "view"} /\ op[p].fs = f}
Working(f) == {j \in Jobs : jobs[j].counted /\ jobs[j].fs = f}
Showing(t, f) == {p \in Panels : tabOf[p] = t /\ held[p] = f}
Listing(t, f) == {p \in Panels : tabOf[p] = t /\ op[p].pc = "list" /\ op[p].fs = f}

\* UsersAreCounted, by the sets it counts.
LEMMA CountsAre ==
  UsersAreCounted <=>
    /\ \A t \in Tabs : ~claims[t].disposed =>
         \A f \in Fs : Cardinality(Showing(t, f)) + Cardinality(Listing(t, f))
                       = Claimed(claims[t], f)
    /\ \A f \in Fs : Cardinality(Holding(f)) + Cardinality(Incoming(f)) + Cardinality(Working(f))
                     + closes[f] = UsersOf(opened, f)
BY DEF UsersAreCounted, ClaimsAreCounted, References, UsersOf, IsOpen,
       Holding, Incoming, Working, Showing, Listing

\* Panels, tabs and jobs are finite: what is counted is a number.
LEMMA Naturals ==
  ASSUME NEW f, NEW t
  PROVE  /\ Cardinality(Holding(f)) \in Nat /\ Cardinality(Incoming(f)) \in Nat
         /\ Cardinality(Working(f)) \in Nat
         /\ Cardinality(Showing(t, f)) \in Nat /\ Cardinality(Listing(t, f)) \in Nat
<1>1. /\ Holding(f) \in SUBSET Tabs /\ Incoming(f) \in SUBSET Panels /\ Working(f) \in SUBSET Jobs
      /\ Showing(t, f) \in SUBSET Panels /\ Listing(t, f) \in SUBSET Panels
  BY DEF Holding, Incoming, Working, Showing, Listing
<1>2. IsFiniteSet(Tabs) /\ IsFiniteSet(Panels) /\ IsFiniteSet(Jobs) BY DEF SessionsAssumption
<1> QED BY <1>1, <1>2, FS_Subset, FS_CardinalityType

\* When one tab's claims change, so does whether it is counted.
LEMMA HoldingMoves ==
  ASSUME NEW t \in Tabs, \A u \in Tabs \ {t} : claims'[u] = claims[u], NEW f
  PROVE  Cardinality(Holding(f)') = Cardinality(Holding(f)) - Bit(Holds(claims[t], f))
                                    + Bit(Holds(claims'[t], f))
<1> DEFINE A == Holding(f)
           B == Holding(f)'
<1>1. A \in SUBSET Tabs /\ B \in SUBSET Tabs /\ (\A u \in Tabs \ {t} : u \in A <=> u \in B)
      /\ (t \in A <=> Holds(claims[t], f)) /\ (t \in B <=> Holds(claims'[t], f))
  BY DEF Holding, Holds
<1>2. IsFiniteSet(Tabs) BY DEF SessionsAssumption
<1> HIDE DEF A, B
<1>3. Cardinality(B) = Cardinality(A) - Bit(t \in A) + Bit(t \in B) BY <1>1, <1>2, OneMoves
<1> QED BY <1>1, <1>3 DEF A, B, Bit

\* When one panel takes a step, so does whether its reference is counted.
LEMMA IncomingMoves ==
  ASSUME NEW p \in Panels, \A q \in Panels \ {p} : op'[q] = op[q], NEW f
  PROVE  Cardinality(Incoming(f)') = Cardinality(Incoming(f)) - Bit(Brings(op[p], f))
                                     + Bit(Brings(op'[p], f))
<1> DEFINE A == Incoming(f)
           B == Incoming(f)'
<1>1. A \in SUBSET Panels /\ B \in SUBSET Panels /\ (\A q \in Panels \ {p} : q \in A <=> q \in B)
      /\ (p \in A <=> Brings(op[p], f)) /\ (p \in B <=> Brings(op'[p], f))
  BY DEF Incoming, Brings, Bringing
<1>2. IsFiniteSet(Panels) BY DEF SessionsAssumption
<1> HIDE DEF A, B
<1>3. Cardinality(B) = Cardinality(A) - Bit(p \in A) + Bit(p \in B) BY <1>1, <1>2, OneMoves
<1> QED BY <1>1, <1>3 DEF A, B, Bit

\* When one panel takes a step, so does whether it is about to show the folder.
LEMMA ListingMoves ==
  ASSUME NEW p \in Panels, \A q \in Panels \ {p} : op'[q] = op[q], tabOf' = tabOf, NEW f
  PROVE  Cardinality(Listing(tabOf[p], f)')
         = Cardinality(Listing(tabOf[p], f)) - Bit(Lists(op[p], f)) + Bit(Lists(op'[p], f))
<1> DEFINE A == Listing(tabOf[p], f)
           B == Listing(tabOf[p], f)'
<1>1. A \in SUBSET Panels /\ B \in SUBSET Panels /\ (\A q \in Panels \ {p} : q \in A <=> q \in B)
      /\ (p \in A <=> Lists(op[p], f)) /\ (p \in B <=> Lists(op'[p], f))
  BY DEF Listing, Lists
<1>2. IsFiniteSet(Panels) BY DEF SessionsAssumption
<1> HIDE DEF A, B
<1>3. Cardinality(B) = Cardinality(A) - Bit(p \in A) + Bit(p \in B) BY <1>1, <1>2, OneMoves
<1> QED BY <1>1, <1>3 DEF A, B, Bit

\* When one panel shows another filesystem, it is one that comes or goes.
LEMMA ShowingMoves ==
  ASSUME NEW p \in Panels, \A q \in Panels \ {p} : held'[q] = held[q], tabOf' = tabOf, NEW f
  PROVE  Cardinality(Showing(tabOf[p], f)')
         = Cardinality(Showing(tabOf[p], f)) - Bit(held[p] = f) + Bit(held'[p] = f)
<1> DEFINE A == Showing(tabOf[p], f)
           B == Showing(tabOf[p], f)'
<1>1. A \in SUBSET Panels /\ B \in SUBSET Panels /\ (\A q \in Panels \ {p} : q \in A <=> q \in B)
      /\ (p \in A <=> held[p] = f) /\ (p \in B <=> held'[p] = f)
  BY DEF Showing
<1>2. IsFiniteSet(Panels) BY DEF SessionsAssumption
<1> HIDE DEF A, B
<1>3. Cardinality(B) = Cardinality(A) - Bit(p \in A) + Bit(p \in B) BY <1>1, <1>2, OneMoves
<1> QED BY <1>1, <1>3 DEF A, B, Bit

\* When one job takes a step, so does whether it is counted.
LEMMA WorkingMoves ==
  ASSUME NEW j \in Jobs, \A k \in Jobs \ {j} : jobs'[k] = jobs[k], NEW f
  PROVE  Cardinality(Working(f)') = Cardinality(Working(f)) - Bit(Uses(jobs[j], f))
                                    + Bit(Uses(jobs'[j], f))
<1> DEFINE A == Working(f)
           B == Working(f)'
<1>1. A \in SUBSET Jobs /\ B \in SUBSET Jobs /\ (\A k \in Jobs \ {j} : k \in A <=> k \in B)
      /\ (j \in A <=> Uses(jobs[j], f)) /\ (j \in B <=> Uses(jobs'[j], f))
  BY DEF Working, Uses
<1>2. IsFiniteSet(Jobs) BY DEF SessionsAssumption
<1> HIDE DEF A, B
<1>3. Cardinality(B) = Cardinality(A) - Bit(j \in A) + Bit(j \in B) BY <1>1, <1>2, OneMoves
<1> QED BY <1>1, <1>3 DEF A, B, Bit

\* A panel takes a step.
LEMMA PanelBalances ==
  ASSUME Types, Types', UsersAreCounted, NEW p \in Panels, NEW t, t = tabOf[p],
         tabOf' = tabOf, jobs' = jobs,
         \A q \in Panels \ {p} : op'[q] = op[q] /\ held'[q] = held[q],
         \A u \in Tabs \ {t} : claims'[u] = claims[u],
         claims'[t].disposed = claims[t].disposed,
         ~claims[t].disposed =>
           \A f \in Fs : Claimed(claims'[t], f) + Bit(held[p] = f) + Bit(Lists(op[p], f))
                         = Claimed(claims[t], f) + Bit(held'[p] = f) + Bit(Lists(op'[p], f)),
         \A f \in Fs : UsersOf(opened', f) + Bit(Holds(claims[t], f)) + Bit(Brings(op[p], f))
           + closes[f]
                       = UsersOf(opened, f) + Bit(Holds(claims'[t], f)) + Bit(Brings(op'[p], f))
                         + closes'[f]
  PROVE  UsersAreCounted'
<1>1. t \in Tabs BY DEF Types, TabsTypes
<1>2. ASSUME NEW u \in Tabs, ~claims'[u].disposed, NEW f \in Fs
      PROVE  Cardinality(Showing(u, f)') + Cardinality(Listing(u, f)') = Claimed(claims'[u], f)
  <2>1. CASE u = t
    <3>1. /\ Cardinality(Showing(t, f)')
               = Cardinality(Showing(t, f)) - Bit(held[p] = f) + Bit(held'[p] = f)
          /\ Cardinality(Listing(t, f)') = Cardinality(Listing(t, f)) - Bit(Lists(op[p], f))
               + Bit(Lists(op'[p], f))
      BY ListingMoves, ShowingMoves
    <3>2. Cardinality(Showing(t, f)) + Cardinality(Listing(t, f)) = Claimed(claims[t], f)
      BY <1>1, <1>2, <2>1, CountsAre
    <3>3. Cardinality(Showing(t, f)) \in Nat /\ Cardinality(Listing(t, f)) \in Nat BY Naturals
    <3>4. Claimed(claims'[t], f) \in Nat BY <1>1, ClaimedIs DEF Types, ClaimsTypes
    <3>5. Claimed(claims'[t], f) + Bit(held[p] = f) + Bit(Lists(op[p], f))
          = Claimed(claims[t], f) + Bit(held'[p] = f) + Bit(Lists(op'[p], f))
      BY <1>2, <2>1
    <3> QED BY <2>1, <3>1, <3>2, <3>3, <3>4, <3>5 DEF Bit
  <2>2. CASE u # t
    <3>1. Showing(u, f)' = Showing(u, f) /\ Listing(u, f)' = Listing(u, f)
      BY <2>2 DEF Showing, Listing
    <3> QED BY <3>1, <2>2, <1>2, CountsAre
  <2> QED BY <2>1, <2>2
<1>3. ASSUME NEW f \in Fs
      PROVE  Cardinality(Holding(f)') + Cardinality(Incoming(f)') + Cardinality(Working(f)')
             + closes'[f] = UsersOf(opened', f)
  <2>1. /\ Cardinality(Holding(f)')
             = Cardinality(Holding(f)) - Bit(Holds(claims[t], f)) + Bit(Holds(claims'[t], f))
        /\ Cardinality(Incoming(f)') = Cardinality(Incoming(f)) - Bit(Brings(op[p], f))
             + Bit(Brings(op'[p], f))
    BY <1>1, HoldingMoves, IncomingMoves
  <2>2. Working(f)' = Working(f) BY DEF Working
  <2>3. Cardinality(Holding(f)) + Cardinality(Incoming(f)) + Cardinality(Working(f)) + closes[f]
        = UsersOf(opened, f)
    BY CountsAre
  <2>4. /\ Cardinality(Holding(f)) \in Nat /\ Cardinality(Incoming(f)) \in Nat
        /\ Cardinality(Working(f)) \in Nat /\ closes[f] \in Nat /\ closes'[f] \in Nat
        /\ UsersOf(opened', f) \in Nat
    BY Naturals, UsersAre DEF Types, ClosesTypes, OpenedTypes
  <2>5. UsersOf(opened', f) + Bit(Holds(claims[t], f)) + Bit(Brings(op[p], f)) + closes[f]
        = UsersOf(opened, f) + Bit(Holds(claims'[t], f)) + Bit(Brings(op'[p], f)) + closes'[f]
    OBVIOUS
  <2> QED BY <2>1, <2>2, <2>3, <2>4, <2>5 DEF Bit
<1> QED BY <1>2, <1>3 DEF UsersAreCounted, ClaimsAreCounted, References, UsersOf, IsOpen,
                          Holding, Incoming, Working, Showing, Listing

\* A job takes a step.
LEMMA JobBalances ==
  ASSUME Types, Types', UsersAreCounted, NEW j \in Jobs,
         tabOf' = tabOf, op' = op, held' = held, claims' = claims, closes' = closes,
         \A k \in Jobs \ {j} : jobs'[k] = jobs[k],
         \A f \in Fs : UsersOf(opened', f) + Bit(Uses(jobs[j], f))
           = UsersOf(opened, f) + Bit(Uses(jobs'[j], f))
  PROVE  UsersAreCounted'
<1>1. ClaimsAreCounted' BY DEF UsersAreCounted, ClaimsAreCounted
<1>2. ASSUME NEW f \in Fs
      PROVE  Cardinality(Holding(f)') + Cardinality(Incoming(f)') + Cardinality(Working(f)')
             + closes'[f] = UsersOf(opened', f)
  <2>1. Cardinality(Working(f)') = Cardinality(Working(f)) - Bit(Uses(jobs[j], f))
          + Bit(Uses(jobs'[j], f))
    BY WorkingMoves
  <2>2. Holding(f)' = Holding(f) /\ Incoming(f)' = Incoming(f) BY DEF Holding, Incoming
  <2>3. Cardinality(Holding(f)) + Cardinality(Incoming(f)) + Cardinality(Working(f)) + closes[f]
        = UsersOf(opened, f)
    BY CountsAre
  <2>4. /\ Cardinality(Holding(f)) \in Nat /\ Cardinality(Incoming(f)) \in Nat
        /\ Cardinality(Working(f)) \in Nat /\ closes[f] \in Nat /\ UsersOf(opened', f) \in Nat
    BY Naturals, UsersAre DEF Types, ClosesTypes, OpenedTypes
  <2>5. UsersOf(opened', f) + Bit(Uses(jobs[j], f)) = UsersOf(opened, f) + Bit(Uses(jobs'[j], f))
    OBVIOUS
  <2> QED BY <2>1, <2>2, <2>3, <2>4, <2>5 DEF Bit
<1> QED BY <1>1, <1>2 DEF UsersAreCounted, References, UsersOf, IsOpen, Holding, Incoming, Working

\* Only the registry and the calls on their way change.
LEMMA CallBalances ==
  ASSUME Types, Types', UsersAreCounted,
         tabOf' = tabOf, op' = op, held' = held, claims' = claims, jobs' = jobs,
         \A f \in Fs : UsersOf(opened', f) + closes[f] = UsersOf(opened, f) + closes'[f]
  PROVE  UsersAreCounted'
<1>1. ClaimsAreCounted' BY DEF UsersAreCounted, ClaimsAreCounted
<1>2. ASSUME NEW f \in Fs
      PROVE  Cardinality(Holding(f)') + Cardinality(Incoming(f)') + Cardinality(Working(f)')
             + closes'[f] = UsersOf(opened', f)
  <2>2. Holding(f)' = Holding(f) /\ Incoming(f)' = Incoming(f) /\ Working(f)' = Working(f)
    BY DEF Holding, Incoming, Working
  <2>3. Cardinality(Holding(f)) + Cardinality(Incoming(f)) + Cardinality(Working(f)) + closes[f]
        = UsersOf(opened, f)
    BY CountsAre
  <2>4. /\ Cardinality(Holding(f)) \in Nat /\ Cardinality(Incoming(f)) \in Nat
        /\ Cardinality(Working(f)) \in Nat /\ closes[f] \in Nat /\ UsersOf(opened', f) \in Nat
        /\ closes'[f] \in Nat
    BY Naturals, UsersAre DEF Types, ClosesTypes, OpenedTypes
  <2>5. UsersOf(opened', f) + closes[f] = UsersOf(opened, f) + closes'[f]
    OBVIOUS
  <2> QED BY <2>2, <2>3, <2>4, <2>5
<1> QED BY <1>1, <1>2 DEF UsersAreCounted, References, UsersOf, IsOpen, Holding, Incoming, Working

\* A close that is on its way finds its filesystem open.
LEMMA CallIsCounted ==
  ASSUME Types, UsersAreCounted, NEW f \in Fs, closes[f] > 0
  PROVE  IsOpen(f)
<1>1. Cardinality(Holding(f)) + Cardinality(Incoming(f)) + Cardinality(Working(f)) + closes[f]
      = UsersOf(opened, f)
  BY CountsAre
<1>2. /\ Cardinality(Holding(f)) \in Nat /\ Cardinality(Incoming(f)) \in Nat
      /\ Cardinality(Working(f)) \in Nat /\ closes[f] \in Nat
  BY Naturals DEF Types, ClosesTypes
<1>3. UsersOf(opened, f) >= 1 BY <1>1, <1>2
<1> QED BY <1>3, UsersAre DEF IsOpen, Types, OpenedTypes

\* A job that counts as a user has its filesystem open.
LEMMA JobIsCounted ==
  ASSUME Types, UsersAreCounted, NEW j \in Jobs, NEW f \in Fs, Uses(jobs[j], f)
  PROVE  IsOpen(f)
<1>1. Cardinality(Holding(f)) + Cardinality(Incoming(f)) + Cardinality(Working(f)) + closes[f]
      = UsersOf(opened, f)
  BY CountsAre
<1>2. /\ Cardinality(Holding(f)) \in Nat /\ Cardinality(Incoming(f)) \in Nat
      /\ Cardinality(Working(f)) \in Nat /\ closes[f] \in Nat
  BY Naturals DEF Types, ClosesTypes
<1>3. j \in Working(f) /\ Working(f) \in SUBSET Jobs BY DEF Working, Uses
<1>4. IsFiniteSet(Jobs) BY DEF SessionsAssumption
<1>5. Cardinality(Working(f)) >= Bit(j \in Working(f)) BY <1>3, <1>4, OneMoves
<1>6. Cardinality(Working(f)) >= 1 BY <1>3, <1>5 DEF Bit
<1>7. UsersOf(opened, f) >= 1 BY <1>1, <1>2, <1>6
<1> QED BY <1>7, UsersAre DEF IsOpen, Types, OpenedTypes

\* What a panel shows or is about to is claimed by its tab, while that is open.
LEMMA PanelIsCounted ==
  ASSUME Types, UsersAreCounted, NEW p \in Panels, ~claims[tabOf[p]].disposed, NEW f \in Fs
  PROVE  /\ Claimed(claims[tabOf[p]], f) >= Bit(held[p] = f) + Bit(Lists(op[p], f))
         /\ held[p] = f \/ Lists(op[p], f) => Holds(claims[tabOf[p]], f)
<1> DEFINE t == tabOf[p]
<1>1. t \in Tabs BY DEF Types, TabsTypes
<1>2. Cardinality(Showing(t, f)) + Cardinality(Listing(t, f)) = Claimed(claims[t], f)
  BY <1>1, CountsAre
<1>3. /\ (p \in Showing(t, f) <=> held[p] = f) /\ (p \in Listing(t, f) <=> Lists(op[p], f))
      /\ Showing(t, f) \in SUBSET Panels /\ Listing(t, f) \in SUBSET Panels
  BY DEF Showing, Listing, Lists
<1>4. IsFiniteSet(Panels) BY DEF SessionsAssumption
<1> HIDE DEF t
<1>5. /\ Cardinality(Showing(t, f)) >= Bit(p \in Showing(t, f))
      /\ Cardinality(Listing(t, f)) >= Bit(p \in Listing(t, f))
  BY <1>3, <1>4, OneMoves
<1>6. Cardinality(Showing(t, f)) \in Nat /\ Cardinality(Listing(t, f)) \in Nat BY Naturals
<1>7. /\ Cardinality(Showing(t, f)) >= Bit(held[p] = f)
      /\ Cardinality(Listing(t, f)) >= Bit(Lists(op[p], f))
  BY <1>3, <1>5 DEF Bit
<1>8. Claimed(claims[t], f) >= Bit(held[p] = f) + Bit(Lists(op[p], f))
  BY <1>2, <1>6, <1>7 DEF Bit
<1>9. held[p] = f \/ Lists(op[p], f) => Claimed(claims[t], f) >= 1
  BY <1>2, <1>6, <1>8 DEF Bit
<1>10. Holds(claims[t], f) <=> Claimed(claims[t], f) >= 1
  BY <1>1, ClaimedIs DEF Types, ClaimsTypes
<1> QED BY <1>8, <1>9, <1>10 DEF t

\* A tab is closed.
LEMMA TabBalances ==
  ASSUME Types, Types', UsersAreCounted, NEW t \in Tabs,
         tabOf' = tabOf, op' = op, jobs' = jobs, opened' = opened,
         \A p \in Panels : tabOf[p] # t => held'[p] = held[p],
         \A u \in Tabs \ {t} : claims'[u] = claims[u],
         claims'[t].disposed, \A f \in Fs : ~Holds(claims'[t], f),
         \A f \in Fs : closes'[f] = closes[f] + Bit(Holds(claims[t], f))
  PROVE  UsersAreCounted'
<1>2. ASSUME NEW u \in Tabs, ~claims'[u].disposed, NEW f \in Fs
      PROVE  Cardinality(Showing(u, f)') + Cardinality(Listing(u, f)') = Claimed(claims'[u], f)
  <2>1. u # t BY <1>2
  <2>2. Showing(u, f)' = Showing(u, f) /\ Listing(u, f)' = Listing(u, f)
    BY <2>1 DEF Showing, Listing
  <2> QED BY <2>1, <2>2, <1>2, CountsAre
<1>3. ASSUME NEW f \in Fs
      PROVE  Cardinality(Holding(f)') + Cardinality(Incoming(f)') + Cardinality(Working(f)')
             + closes'[f] = UsersOf(opened', f)
  <2>1. Cardinality(Holding(f)') = Cardinality(Holding(f)) - Bit(Holds(claims[t], f))
          + Bit(Holds(claims'[t], f))
    BY HoldingMoves
  <2>2. Working(f)' = Working(f) /\ Incoming(f)' = Incoming(f) BY DEF Working, Incoming
  <2>3. Cardinality(Holding(f)) + Cardinality(Incoming(f)) + Cardinality(Working(f)) + closes[f]
        = UsersOf(opened, f)
    BY CountsAre
  <2>4. /\ Cardinality(Holding(f)) \in Nat /\ Cardinality(Incoming(f)) \in Nat
        /\ Cardinality(Working(f)) \in Nat /\ closes[f] \in Nat /\ closes'[f] \in Nat
    BY Naturals DEF Types, ClosesTypes
  <2>5. closes'[f] = closes[f] + Bit(Holds(claims[t], f)) /\ ~Holds(claims'[t], f)
    OBVIOUS
  <2> QED BY <2>1, <2>2, <2>3, <2>4, <2>5 DEF Bit
<1> QED BY <1>2, <1>3 DEF UsersAreCounted, ClaimsAreCounted, References, UsersOf, IsOpen,
                          Holding, Incoming, Working, Showing, Listing

-----------------------------------------------------------------------------
(* Which server a filesystem is on. *)

\* The connections on which a filesystem may be looked for.
Live == terminals \cup {op[p].live : p \in Panels}

\* A filesystem is named by the connection it was opened on, to its server.
OpenedOn == \A f \in DOMAIN opened : opened[f].server = conns[f]
\* No two filesystems are one mount.
OneMountEach == \A f, g \in DOMAIN opened : opened[f].mount = opened[g].mount => f = g
\* The session of a filesystem is on its server.
OnTheirServers == \A f \in DOMAIN opened : conns[mounts[opened[f].mount].conn] = conns[f]
\* What is found on a connection somebody looks on is on the same server: Find
\* lets a panel restart it there.
FoundOnTheirs == \A c \in Live : \A f \in DOMAIN opened : opened[f].conn = c => conns[c] = conns[f]
\* A panel restarts a mount on a connection to its server.
PanelsStay == \A p \in Panels : op[p].pc \in Restarting =>
  \A f \in DOMAIN opened : opened[f].mount = op[p].mount => conns[op[p].lease] = conns[f]
\* A mount that is reconnected is the filesystem's it was asked for, if any's, and
\* the login is for its server.
ReconnectsStay == \A t \in Tabs : rec[t].pc # "idle" =>
  \A f \in DOMAIN opened : opened[f].mount = rec[t].mount =>
    f = rec[t].fs /\ (rec[t].pc = "restart" => conns[rec[t].lease] = conns[f])
\* A login made for a reconnect is not one that filesystems are looked for on.
ReconnectsApart == \A t \in Tabs :
  /\ rec[t].pc = "restart" => rec[t].lease \notin Live
  /\ rec[t].pc = "record" => rec[t].live \notin Live

Stays == /\ OpenedOn /\ OneMountEach /\ OnTheirServers /\ FoundOnTheirs
         /\ PanelsStay /\ ReconnectsStay /\ ReconnectsApart

\* The inductive invariant.  The count needs only the types; that a filesystem stays
\* on its server needs all of Stays.
IndInv == Types /\ UsersAreCounted /\ Stays

\* What a step keeps of it.
ConnsKept == Len(conns) <= Len(conns') /\ \A c \in 1 .. Len(conns) : conns'[c] = conns[c]
MountsGrow == Len(mounts) <= Len(mounts')
MountsKept == MountsGrow /\ \A m \in 1 .. Len(mounts) : mounts'[m].conn = mounts[m].conn
OpenedKept == \A f \in DOMAIN opened' :
  f \in DOMAIN opened /\ opened'[f].mount = opened[f].mount /\ opened'[f].server = opened[f].server
FoundKept == \A f \in DOMAIN opened' :
  \/ opened'[f].conn = f
  \/ opened'[f].conn \notin Live'
  \/ f \in DOMAIN opened /\ opened'[f].conn = opened[f].conn
LiveKept == \A c \in Live' : c \in Live \/ c \notin 1 .. Len(conns)
OpsKept == \A p \in Panels : op'[p].pc \in Restarting =>
  op[p].pc \in Restarting /\ op'[p].mount = op[p].mount /\ op'[p].lease = op[p].lease
RecsKept == \A t \in Tabs : rec'[t].pc # "idle" =>
  /\ rec[t].pc # "idle" /\ rec'[t].mount = rec[t].mount /\ rec'[t].fs = rec[t].fs
  /\ rec'[t].pc = "restart" => rec[t].pc = "restart" /\ rec'[t].lease = rec[t].lease
  /\ rec'[t].pc = "record" => rec[t].pc = "record" /\ rec'[t].live = rec[t].live

\* Entries that only go leave the others' mounts and servers alone.
LEMMA PlacesStay ==
  ASSUME Types, OpenedOn, OneMountEach, ConnsKept, OpenedKept
  PROVE  OpenedOn' /\ OneMountEach'
<1>1. \A f \in DOMAIN opened : f \in 1 .. Len(conns)
  BY DEF Types, OpenedTypes
<1>2. OpenedOn' BY <1>1 DEF OpenedOn, ConnsKept, OpenedKept
<1>3. OneMountEach' BY DEF OneMountEach, OpenedKept
<1> QED BY <1>2, <1>3

\* A mount whose session stays on its connection stays on its server.
LEMMA ServersStay ==
  ASSUME Types, OnTheirServers, ConnsKept, MountsKept, OpenedKept
  PROVE  OnTheirServers'
<1>1. \A f \in DOMAIN opened : /\ f \in 1 .. Len(conns) /\ opened[f].mount \in 1 .. Len(mounts)
                               /\ mounts[opened[f].mount].conn \in 1 .. Len(conns)
  BY DEF Types, OpenedTypes, MountsTypes
<1> QED BY <1>1 DEF OnTheirServers, ConnsKept, MountsKept, OpenedKept

\* What is looked for on a connection is on its server, while no entry moves to a
\* connection that somebody looks on.
LEMMA FoundStay ==
  ASSUME Types, FoundOnTheirs, ConnsKept, FoundKept, LiveKept
  PROVE  FoundOnTheirs'
<1>1. \A f \in DOMAIN opened : f \in 1 .. Len(conns) /\ opened[f].conn \in 1 .. Len(conns)
  BY DEF Types, OpenedTypes
<1>2. Len(conns) \in Nat BY DEF Types, ConnsTypes
<1> QED BY <1>1, <1>2 DEF FoundOnTheirs, ConnsKept, FoundKept, LiveKept

\* A panel about to restart a session goes on to restart the one it meant.
LEMMA OpsStay ==
  ASSUME Types, PanelsStay, ConnsKept, OpenedKept, OpsKept
  PROVE  PanelsStay'
<1>1. \A f \in DOMAIN opened : f \in 1 .. Len(conns)
  BY DEF Types, OpenedTypes
<1>2. \A p \in Panels : op[p].pc \in Restarting => op[p].lease \in 1 .. Len(conns)
  BY DEF Types, OpTypes, WayFits, Ways, ConnsTypes
<1> SUFFICES ASSUME NEW p \in Panels, op'[p].pc \in Restarting, NEW f \in DOMAIN opened',
                    opened'[f].mount = op'[p].mount
             PROVE  conns'[op'[p].lease] = conns'[f]
  BY DEF PanelsStay
<1>3. /\ op[p].pc \in Restarting /\ op'[p].mount = op[p].mount /\ op'[p].lease = op[p].lease
      /\ f \in DOMAIN opened /\ opened'[f].mount = opened[f].mount
  BY DEF OpsKept, OpenedKept
<1>4. conns[op[p].lease] = conns[f] BY <1>3 DEF PanelsStay
<1> QED BY <1>1, <1>2, <1>3, <1>4 DEF ConnsKept

\* A reconnect goes on with the mount and the login it has.
LEMMA RecsStay ==
  ASSUME Types, ReconnectsStay, ConnsKept, OpenedKept, RecsKept
  PROVE  ReconnectsStay'
<1>1. \A f \in DOMAIN opened : f \in 1 .. Len(conns)
  BY DEF Types, OpenedTypes
<1>2. \A t \in Tabs : rec[t].pc = "restart" => rec[t].lease \in 1 .. Len(conns)
  BY DEF Types, RecTypes, BackFits, Backs, ConnsTypes
<1> QED BY <1>1, <1>2 DEF ReconnectsStay, ConnsKept, OpenedKept, RecsKept

\* A login made for a reconnect is nobody else's.
LEMMA ApartStay ==
  ASSUME Types, ReconnectsApart, LiveKept, RecsKept
  PROVE  ReconnectsApart'
<1>1. \A t \in Tabs : /\ rec[t].pc = "restart" => rec[t].lease \in 1 .. Len(conns)
                      /\ rec[t].pc = "record" => rec[t].live \in 1 .. Len(conns)
  BY DEF Types, RecTypes, BackFits, Backs, ConnsTypes
<1> QED BY <1>1 DEF ReconnectsApart, LiveKept, RecsKept

\* What a step must keep so that every filesystem stays on its server.
LEMMA AllStay ==
  ASSUME Types, Stays, ConnsKept, MountsKept, OpenedKept, FoundKept, LiveKept, OpsKept, RecsKept
  PROVE  Stays'
BY PlacesStay, ServersStay, FoundStay, OpsStay, RecsStay, ApartStay DEF Stays

-----------------------------------------------------------------------------
(* What stays of the types. *)

\* Connections and mounts are counted.
LEMMA LensAreNat ==
  ASSUME Types
  PROVE  Len(conns) \in Nat /\ Len(mounts) \in Nat
BY DEF Types, ConnsTypes, MountsTypes

\* A panel's step fits what there is, and the other panels' ways still do.
LEMMA OpMoves ==
  ASSUME Types, NEW p \in Panels, NEW w, op' = [op EXCEPT ![p] = w],
         Len(conns') \in Nat, Len(mounts') \in Nat, ConnsKept, MountsGrow,
         WayFits(w, Len(conns'), Len(mounts'))
  PROVE  OpTypes' /\ op'[p] = w /\ \A q \in Panels \ {p} : op'[q] = op[q]
<1>1. op \in [Panels -> Ways] /\ w \in Ways BY DEF Types, OpTypes, WayFits
<1>2. op' \in [Panels -> Ways] /\ op'[p] = w /\ \A q \in Panels \ {p} : op'[q] = op[q]
  BY <1>1
<1>3. ASSUME NEW q \in Panels PROVE WayFits(op'[q], Len(conns'), Len(mounts'))
  <2>1. CASE q = p BY <2>1, <1>2
  <2>2. CASE q # p
    <3>1. WayFits(op[q], Len(conns), Len(mounts)) BY DEF Types, OpTypes
    <3> QED BY <3>1, <2>2, <1>2, LensAreNat DEF WayFits, Ways, ConnsKept, MountsGrow
  <2> QED BY <2>1, <2>2
<1> QED BY <1>2, <1>3 DEF OpTypes

\* The panels' ways fit what there is as it grows.
LEMMA OpKeeps ==
  ASSUME Types, op' = op, Len(conns') \in Nat, Len(mounts') \in Nat, ConnsKept, MountsGrow
  PROVE  OpTypes'
<1>1. ASSUME NEW q \in Panels PROVE WayFits(op'[q], Len(conns'), Len(mounts'))
  <2>1. WayFits(op[q], Len(conns), Len(mounts)) BY DEF Types, OpTypes
  <2> QED BY <2>1, LensAreNat DEF WayFits, Ways, ConnsKept, MountsGrow
<1> QED BY <1>1 DEF Types, OpTypes

\* A reconnect's step fits what there is, and the other tabs' still do.
LEMMA RecMoves ==
  ASSUME Types, NEW t \in Tabs, NEW b, rec' = [rec EXCEPT ![t] = b],
         Len(conns') \in Nat, Len(mounts') \in Nat, ConnsKept, MountsGrow,
         BackFits(b, Len(conns'), Len(mounts'))
  PROVE  RecTypes' /\ rec'[t] = b /\ \A u \in Tabs \ {t} : rec'[u] = rec[u]
<1>1. rec \in [Tabs -> Backs] /\ b \in Backs BY DEF Types, RecTypes, BackFits
<1>2. rec' \in [Tabs -> Backs] /\ rec'[t] = b /\ \A u \in Tabs \ {t} : rec'[u] = rec[u]
  BY <1>1
<1>3. ASSUME NEW u \in Tabs PROVE BackFits(rec'[u], Len(conns'), Len(mounts'))
  <2>1. CASE u = t BY <2>1, <1>2
  <2>2. CASE u # t
    <3>1. BackFits(rec[u], Len(conns), Len(mounts)) BY DEF Types, RecTypes
    <3> QED BY <3>1, <2>2, <1>2, LensAreNat DEF BackFits, Backs, ConnsKept, MountsGrow
  <2> QED BY <2>1, <2>2
<1> QED BY <1>2, <1>3 DEF RecTypes

\* The reconnects fit what there is as it grows.
LEMMA RecKeeps ==
  ASSUME Types, rec' = rec, Len(conns') \in Nat, Len(mounts') \in Nat, ConnsKept, MountsGrow
  PROVE  RecTypes'
<1>1. ASSUME NEW u \in Tabs PROVE BackFits(rec'[u], Len(conns'), Len(mounts'))
  <2>1. BackFits(rec[u], Len(conns), Len(mounts)) BY DEF Types, RecTypes
  <2> QED BY <2>1, LensAreNat DEF BackFits, Backs, ConnsKept, MountsGrow
<1> QED BY <1>1 DEF Types, RecTypes

\* The registry fits what there is, as it shrinks or counts.
LEMMA OpenedKeeps ==
  ASSUME Types, opened' \in Registries, Within(opened', opened), ConnsKept, MountsGrow,
         Len(conns') \in Nat, Len(mounts') \in Nat
  PROVE  OpenedTypes' /\ OpenedKept /\ FoundKept
BY LensAreNat DEF Types, OpenedTypes, OpenedKept, FoundKept, Within, ConnsKept, MountsGrow

\* What a step leaves alone, it keeps.
LEMMA KeptIs ==
  ASSUME Types
  PROVE  /\ conns' = conns => ConnsKept
         /\ mounts' = mounts => MountsKept /\ MountsGrow
         /\ opened' = opened => Within(opened', opened) /\ opened' \in Registries
         /\ op' = op => OpsKept
         /\ op' = op /\ terminals' \subseteq terminals => LiveKept
         /\ rec' = rec => RecsKept
<1>1. conns' = conns => ConnsKept BY LensAreNat DEF ConnsKept
<1>2. mounts' = mounts => MountsKept /\ MountsGrow BY LensAreNat DEF MountsKept, MountsGrow
<1>3. opened' = opened => Within(opened', opened) /\ opened' \in Registries
  BY DEF Within, Types, OpenedTypes
<1>4. op' = op => OpsKept BY DEF OpsKept
<1>5. op' = op /\ terminals' \subseteq terminals => LiveKept BY DEF LiveKept, Live
<1>6. rec' = rec => RecsKept BY DEF RecsKept
<1> QED BY <1>1, <1>2, <1>3, <1>4, <1>5, <1>6

\* A panel's step that changes no connection and no mount.
QuietWay(p, w) ==
  /\ op' = [op EXCEPT ![p] = w] /\ WayFits(w, Len(conns), Len(mounts))
  /\ w.pc \in Restarting =>
       \/ op[p].pc \in Restarting /\ w.mount = op[p].mount /\ w.lease = op[p].lease
       \/ \A f \in DOMAIN opened : opened[f].mount = w.mount => conns[w.lease] = conns[f]
  /\ w.live \in Live \cup {None}
QuietElsewhere ==
  /\ tabOf' = tabOf /\ conns' = conns /\ mounts' = mounts /\ terminals' = terminals
  /\ rec' = rec /\ jobs' = jobs /\ up' \subseteq up

\* A panel's step that makes no connection and no session keeps the types and
\* the servers.
LEMMA QuietPanel ==
  ASSUME IndInv, NEW p \in Panels, NEW w, QuietWay(p, w), QuietElsewhere,
         opened' \in Registries, Within(opened', opened), ClaimsTypes', HeldTypes', ClosesTypes'
  PROVE  Types' /\ Stays' /\ op'[p] = w /\ \A q \in Panels \ {p} : op'[q] = op[q]
<1> USE DEF QuietWay, QuietElsewhere
<1>1. Types /\ Stays BY DEF IndInv
<1>2. ConnsKept /\ MountsKept /\ MountsGrow /\ RecsKept BY <1>1, KeptIs
<1>3. Len(conns') \in Nat /\ Len(mounts') \in Nat BY <1>1, LensAreNat
<1>4. OpTypes' /\ op'[p] = w /\ \A q \in Panels \ {p} : op'[q] = op[q]
  BY <1>1, <1>2, <1>3, OpMoves
<1>5. RecTypes' BY <1>1, <1>2, <1>3, RecKeeps
<1>6. OpenedTypes' /\ OpenedKept /\ FoundKept BY <1>1, <1>2, <1>3, OpenedKeeps
<1>7. TabsTypes' /\ ConnsTypes' /\ MountsTypes' /\ JobsTypes'
  BY <1>1 DEF Types, TabsTypes, ConnsTypes, MountsTypes, JobsTypes
<1>8. Types' BY <1>4, <1>5, <1>6, <1>7 DEF Types
<1>9. PanelsStay'
  <2> SUFFICES ASSUME NEW q \in Panels, op'[q].pc \in Restarting, NEW f \in DOMAIN opened',
                      opened'[f].mount = op'[q].mount
               PROVE  conns[op'[q].lease] = conns[f]
    BY DEF PanelsStay
  <2>1. f \in DOMAIN opened /\ opened[f].mount = op'[q].mount BY <1>6 DEF OpenedKept
  <2>2. PanelsStay BY <1>1 DEF Stays
  <2>3. CASE q # p BY <1>4, <2>1, <2>2, <2>3 DEF PanelsStay
  <2>4. CASE q = p
    <3>1. op'[q] = w BY <1>4, <2>4
    <3> QED BY <2>1, <2>2, <2>4, <3>1 DEF PanelsStay
  <2> QED BY <2>3, <2>4
<1>10. LiveKept BY <1>4 DEF LiveKept, Live
<1>11. Stays'
  BY <1>1, <1>2, <1>6, <1>9, <1>10, PlacesStay, ServersStay, FoundStay, RecsStay, ApartStay
     DEF Stays
<1> QED BY <1>4, <1>8, <1>11

\* A step of a panel that neither uses what it did not nor lets go of what it did.
LEMMA PanelUncounted ==
  ASSUME Types, Types', UsersAreCounted, NEW p \in Panels,
         tabOf' = tabOf, jobs' = jobs, claims' = claims, held' = held, closes' = closes,
         \A q \in Panels \ {p} : op'[q] = op[q],
         op[p].pc \notin Bringing \cup {"list"}, op'[p].pc \notin Bringing \cup {"list"},
         \A f \in Fs : UsersOf(opened', f) = UsersOf(opened, f)
  PROVE  UsersAreCounted'
<1> DEFINE t == tabOf[p]
<1>1. t \in Tabs BY DEF Types, TabsTypes
<1>2. \A f : ~Brings(op[p], f) /\ ~Brings(op'[p], f) /\ ~Lists(op[p], f) /\ ~Lists(op'[p], f)
  BY DEF Brings, Lists
<1>3. \A f \in Fs : /\ Claimed(claims[t], f) \in Nat /\ UsersOf(opened, f) \in Nat
                    /\ closes[f] \in Nat
  BY <1>1, ClaimedIs, UsersAre DEF Types, ClaimsTypes, OpenedTypes, ClosesTypes
<1>4. \A f \in Fs : Claimed(claims'[t], f) + Bit(held[p] = f) + Bit(Lists(op[p], f))
                         = Claimed(claims[t], f) + Bit(held'[p] = f) + Bit(Lists(op'[p], f))
  BY <1>2 DEF Bit
<1>5. \A f \in Fs : UsersOf(opened', f) + Bit(Holds(claims[t], f)) + Bit(Brings(op[p], f))
        + closes[f]
                       = UsersOf(opened, f) + Bit(Holds(claims'[t], f)) + Bit(Brings(op'[p], f))
                         + closes'[f]
  BY <1>2 DEF Bit
<1> QED BY <1>4, <1>5, PanelBalances

-----------------------------------------------------------------------------
(* The steps of panels. *)

\* Hanging up only takes away.
LEMMA HangUpIs ==
  ASSUME NEW C, HangUp(C)
  PROVE  up' \subseteq C
BY DEF HangUp

\* Records of a way, by their fields.
LEMMA WaysAre ==
  ASSUME NEW w \in Ways
  PROVE  /\ \A pc \in PanelSteps : /\ [w EXCEPT !.pc = pc] \in Ways
                                   /\ [w EXCEPT !.pc = pc].pc = pc
                                   /\ [w EXCEPT !.pc = pc].fs = w.fs
                                   /\ [w EXCEPT !.pc = pc].live = w.live
                                   /\ [w EXCEPT !.pc = pc].mount = w.mount
                                   /\ [w EXCEPT !.pc = pc].lease = w.lease
BY DEF Ways, PanelSteps

\* A panel that does nothing has no lease.
LEMMA IdleIs ==
  Idle \in Ways /\ Idle.pc = "idle" /\ Idle.live = 0 /\ Idle.lease = 0 /\ Idle.mount = 0
BY DEF Ways, Idle, PanelSteps

\* The types, for one panel.
LEMMA PanelIs ==
  ASSUME Types, NEW p \in Panels
  PROVE  /\ tabOf[p] \in Tabs /\ op[p] \in Ways /\ WayFits(op[p], Len(conns), Len(mounts))
         /\ ClaimsFit(claims[tabOf[p]]) /\ claims[tabOf[p]] \in TabsClaims
         /\ held[p] \in Fs \cup {None} /\ op[p].live \in Live
         /\ WayFits(Idle, Len(conns), Len(mounts))
BY LensAreNat, IdleIs DEF Types, TabsTypes, OpTypes, ClaimsTypes, HeldTypes, Live, WayFits,
   ClaimsFit,
   Restarting, Knowing, Bringing

\* Only what is asked of the backend changes: nothing is counted.
LEMMA QuietUncounted ==
  ASSUME IndInv, NEW p \in Panels, NEW w, QuietWay(p, w), QuietElsewhere,
         UNCHANGED <<opened, claims, held, closes>>,
         op[p].pc \notin Bringing \cup {"list"}, w.pc \notin Bringing \cup {"list"}
  PROVE  IndInv'
<1>1. Types /\ UsersAreCounted BY DEF IndInv
<1>2. ClaimsTypes' /\ HeldTypes' /\ ClosesTypes'
  BY <1>1 DEF Types, ClaimsTypes, HeldTypes, ClosesTypes
<1>3. opened' \in Registries /\ Within(opened', opened) BY <1>1, KeptIs
<1>4. Types' /\ Stays' /\ op'[p] = w /\ \A q \in Panels \ {p} : op'[q] = op[q]
  BY <1>2, <1>3, QuietPanel
<1>5. \A f \in Fs : UsersOf(opened', f) = UsersOf(opened, f) OBVIOUS
<1>6. UsersAreCounted' BY <1>1, <1>4, <1>5, PanelUncounted DEF QuietElsewhere
<1> QED BY <1>4, <1>6 DEF IndInv

\* sftp_connect on an SSH tab's connection: it is one that can be looked on.
LEMMA OpenLiveKeeps ==
  ASSUME IndInv, NEW p \in Panels, NEW c \in terminals, OpenLive(p, c)
  PROVE  IndInv'
<1> DEFINE w == [Idle EXCEPT !.pc = "find", !.live = c]
<1>1. c \in 1 .. Len(conns) /\ Len(mounts) \in Nat /\ Len(conns) \in Nat
  BY LensAreNat DEF IndInv, Types, ConnsTypes
<1>7. c \in Nat BY <1>1
<1>6. w \in Ways /\ w.pc = "find" /\ w.live = c /\ w.lease = 0 /\ w.mount = 0
  BY <1>7 DEF Ways, Idle, PanelSteps
<1>2. WayFits(w, Len(conns), Len(mounts)) /\ w.pc = "find" /\ w.live = c
  BY <1>1, <1>6 DEF WayFits, Restarting, Knowing, Bringing
<1>3. op' = [op EXCEPT ![p] = w] /\ op[p].pc = "idle" BY DEF OpenLive
<1> HIDE DEF w
<1>4. QuietWay(p, w) BY <1>2, <1>3 DEF QuietWay, Live, Restarting
<1>5. QuietElsewhere /\ UNCHANGED <<opened, claims, held, closes>>
  BY DEF OpenLive, QuietElsewhere, Unmoved
<1> QED BY <1>2, <1>3, <1>4, <1>5, QuietUncounted DEF Bringing

\* sftp_connect with a login of its own.
LEMMA OpenSavedKeeps ==
  ASSUME IndInv, NEW p \in Panels, OpenSaved(p)
  PROVE  IndInv'
<1> DEFINE w == [Idle EXCEPT !.pc = "login"]
<1>1. Len(mounts) \in Nat /\ Len(conns) \in Nat
  BY LensAreNat DEF IndInv
<1>2. WayFits(w, Len(conns), Len(mounts)) /\ w.pc = "login" /\ w.live = 0
  BY <1>1 DEF WayFits, Ways, Idle, PanelSteps, Restarting, Knowing, Bringing
<1>3. op' = [op EXCEPT ![p] = w] /\ op[p].pc = "idle" BY DEF OpenSaved
<1> HIDE DEF w
<1>4. QuietWay(p, w) BY <1>2, <1>3 DEF QuietWay, Live, Restarting
<1>5. QuietElsewhere /\ UNCHANGED <<opened, claims, held, closes>>
  BY DEF OpenSaved, QuietElsewhere, Unmoved
<1> QED BY <1>2, <1>3, <1>4, <1>5, QuietUncounted DEF Bringing

\* The lock is got: the mount is connected, or its session is started again.
LEMMA LockKeeps ==
  ASSUME IndInv, NEW p \in Panels, Lock(p)
  PROVE  IndInv'
<1>1. Types BY DEF IndInv
<1>2. PICK w : /\ op' = [op EXCEPT ![p] = w] /\ op[p].pc = "lock"
               /\ w = [op[p] EXCEPT !.pc = "share", !.lease = None]
                    \/ w = [op[p] EXCEPT !.pc = "restart"]
  BY DEF Lock, Step
<1>3. op[p] \in Ways /\ WayFits(op[p], Len(conns), Len(mounts)) /\ op[p].live \in Live
  BY <1>1, PanelIs
<1>4. /\ WayFits(w, Len(conns), Len(mounts)) /\ w.pc \in {"share", "restart"} /\ w.live = op[p].live
      /\ w.pc = "restart" => w.mount = op[p].mount /\ w.lease = op[p].lease
  <2>1. CASE w = [op[p] EXCEPT !.pc = "share", !.lease = None]
    <3>1. /\ w \in Ways /\ w.pc = "share" /\ w.live = op[p].live
          /\ w.mount = op[p].mount /\ w.lease = 0
      BY <2>1, <1>3 DEF Ways, PanelSteps
    <3> QED BY <3>1, <1>1, <1>3, LensAreNat DEF WayFits, Restarting, Knowing, Bringing
  <2>2. CASE w = [op[p] EXCEPT !.pc = "restart"]
    <3>1. /\ w \in Ways /\ w.pc = "restart" /\ w.fs = op[p].fs /\ w.live = op[p].live
          /\ w.mount = op[p].mount /\ w.lease = op[p].lease
      BY <2>2, <1>3, WaysAre DEF PanelSteps
    <3> QED BY <3>1, <1>2, <1>3 DEF WayFits, Restarting, Knowing, Bringing
  <2> QED BY <1>2, <2>1, <2>2
<1>5. QuietWay(p, w) BY <1>2, <1>3, <1>4 DEF QuietWay, Restarting
<1>6. up' \subseteq up BY HangUpIs DEF Lock
<1>7. QuietElsewhere /\ UNCHANGED <<opened, claims, held, closes>>
  BY <1>6 DEF Lock, QuietElsewhere, Elsewhere, Unmoved
<1> QED BY <1>2, <1>4, <1>5, <1>7, QuietUncounted DEF Bringing

\* A panel that gives up holds nothing.
LEMMA OpenFailsKeeps ==
  ASSUME IndInv, NEW p \in Panels, OpenFails(p)
  PROVE  IndInv'
<1>1. Types BY DEF IndInv
<1>2. op' = [op EXCEPT ![p] = Idle] /\ op[p].pc \in {"login", "open", "restart"}
  BY DEF OpenFails, Done
<1>3. QuietWay(p, Idle) BY <1>1, <1>2, PanelIs, IdleIs DEF QuietWay, Restarting
<1>4. up' \subseteq up BY HangUpIs DEF OpenFails
<1>5. QuietElsewhere /\ UNCHANGED <<opened, claims, held, closes>>
  BY <1>4 DEF OpenFails, QuietElsewhere, Elsewhere, Unmoved
<1>6. op[p].pc \notin Bringing \cup {"list"} /\ Idle.pc \notin Bringing \cup {"list"}
  BY <1>2, IdleIs DEF Bringing
<1> QED BY <1>3, <1>5, <1>6, QuietUncounted

\* A step that changes who claims, or whose reference is on its way.
LEMMA QuietCounted ==
  ASSUME IndInv, NEW p \in Panels, NEW w, QuietWay(p, w), QuietElsewhere,
         opened' \in Registries, Within(opened', opened), ClaimsTypes', HeldTypes', ClosesTypes',
         NEW t, t = tabOf[p],
         \A q \in Panels \ {p} : held'[q] = held[q],
         \A u \in Tabs \ {t} : claims'[u] = claims[u],
         claims'[t].disposed = claims[t].disposed,
         ~claims[t].disposed =>
           \A f \in Fs : Claimed(claims'[t], f) + Bit(held[p] = f) + Bit(Lists(op[p], f))
                         = Claimed(claims[t], f) + Bit(held'[p] = f) + Bit(Lists(w, f)),
         \A f \in Fs : UsersOf(opened', f) + Bit(Holds(claims[t], f)) + Bit(Brings(op[p], f))
           + closes[f]
                       = UsersOf(opened, f) + Bit(Holds(claims'[t], f)) + Bit(Brings(w, f))
                         + closes'[f]
  PROVE  IndInv'
<1>1. Types' /\ Stays' /\ op'[p] = w /\ \A q \in Panels \ {p} : op'[q] = op[q]
  BY QuietPanel
<1>2. UsersAreCounted' BY <1>1, PanelBalances DEF QuietElsewhere, IndInv
<1> QED BY <1>1, <1>2 DEF IndInv

\* Another filesystem's folder, whose claim may be there already.
LEMMA GoToKeeps ==
  ASSUME IndInv, NEW p \in Panels, NEW fs \in Fs, GoTo(p, fs)
  PROVE  IndInv'
<1> DEFINE t == tabOf[p]
<1>1. Types /\ UsersAreCounted BY DEF IndInv
<1>2. /\ t \in Tabs /\ ClaimsFit(claims[t]) /\ claims[t] \in TabsClaims /\ op[p].pc = "idle"
      /\ ~claims[t].disposed
  BY <1>1, PanelIs DEF GoTo, TabClaims
<1>3. Len(mounts) \in Nat /\ Len(conns) \in Nat BY <1>1, LensAreNat
<1>4. QuietElsewhere /\ UNCHANGED <<opened, held, closes>>
  BY DEF GoTo, QuietElsewhere, Unmoved
<1>5. opened' \in Registries /\ Within(opened', opened) BY <1>1, <1>4, KeptIs
<1>6. HeldTypes' /\ ClosesTypes' BY <1>1, <1>4 DEF Types, HeldTypes, ClosesTypes
<1>7. CASE Holds(claims[t], fs)
  <2> DEFINE w == [Idle EXCEPT !.pc = "list", !.fs = fs]
  <2>1. w \in Ways /\ w.pc = "list" /\ w.fs = fs /\ w.live = 0 /\ w.lease = 0 /\ w.mount = 0
    BY DEF Ways, Idle, PanelSteps
  <2>2. op' = [op EXCEPT ![p] = w] /\ claims' = [claims EXCEPT ![t] = Taken(claims[t], fs)]
    BY <1>7 DEF GoTo, TabClaims
  <2> HIDE DEF w, t
  <2>3. QuietWay(p, w)
    BY <1>3, <2>1, <2>2 DEF QuietWay, WayFits, Restarting, Knowing, Bringing
  <2>4. /\ claims' \in [Tabs -> TabsClaims] /\ claims'[t] = Taken(claims[t], fs)
        /\ \A u \in Tabs \ {t} : claims'[u] = claims[u]
    BY <1>1, <1>2, <2>2, TakenIs DEF Types, ClaimsTypes
  <2>5. ClaimsTypes'
    BY <1>1, <1>2, <2>4, TakenIs DEF Types, ClaimsTypes, ClaimsFit
  <2>6. ASSUME NEW f \in Fs
        PROVE  /\ Claimed(claims'[t], f) + Bit(held[p] = f) + Bit(Lists(op[p], f))
                  = Claimed(claims[t], f) + Bit(held'[p] = f) + Bit(Lists(w, f))
               /\ UsersOf(opened', f) + Bit(Holds(claims[t], f)) + Bit(Brings(op[p], f)) + closes[f]
                  = UsersOf(opened, f) + Bit(Holds(claims'[t], f)) + Bit(Brings(w, f)) + closes'[f]
    <3>1. Claimed(claims'[t], f) = Claimed(claims[t], f) + Bit(f = fs) BY <1>2, <2>4, TakenIs
    <3>2. Claimed(claims[t], f) \in Nat BY <1>2, ClaimedIs
    <3>3. ~Lists(op[p], f) /\ (Lists(w, f) <=> f = fs) BY <1>2, <2>1 DEF Lists
    <3>4. Holds(claims'[t], f) <=> Holds(claims[t], f) BY <1>2, <1>7, <2>4, TakenIs
    <3>5. ~Brings(op[p], f) /\ ~Brings(w, f) BY <1>2, <2>1 DEF Brings, Bringing
    <3>6. held'[p] = held[p] /\ opened' = opened /\ closes' = closes BY <1>4
    <3>7. Claimed(claims'[t], f) + Bit(held[p] = f) + Bit(Lists(op[p], f))
                  = Claimed(claims[t], f) + Bit(held'[p] = f) + Bit(Lists(w, f))
      BY <3>1, <3>2, <3>3, <3>6 DEF Bit
    <3>8. Bit(Holds(claims'[t], f)) = Bit(Holds(claims[t], f)) BY <3>4 DEF Bit
    <3>9. Bit(Brings(op[p], f)) = Bit(Brings(w, f)) BY <3>5 DEF Bit
    <3> QED BY <3>6, <3>7, <3>8, <3>9
  <2>7. claims'[t].disposed = claims[t].disposed BY <1>2, <2>4, TakenIs
  <2>8. \A q \in Panels \ {p} : held'[q] = held[q] BY <1>4
  <2> QED BY <1>4, <1>5, <1>6, <2>3, <2>4, <2>5, <2>6, <2>7, <2>8, QuietCounted DEF t
<1>8. CASE ~Holds(claims[t], fs)
  <2> DEFINE w == [Idle EXCEPT !.pc = "retain", !.fs = fs]
  <2>1. w \in Ways /\ w.pc = "retain" /\ w.fs = fs /\ w.live = 0 /\ w.lease = 0 /\ w.mount = 0
    BY DEF Ways, Idle, PanelSteps
  <2>2. op' = [op EXCEPT ![p] = w] /\ claims' = claims
    BY <1>8 DEF GoTo, TabClaims
  <2> HIDE DEF w
  <2>3. QuietWay(p, w)
    BY <1>3, <2>1, <2>2 DEF QuietWay, WayFits, Restarting, Knowing, Bringing
  <2> QED BY <1>2, <1>4, <2>1, <2>2, <2>3, QuietUncounted DEF Bringing
<1> QED BY <1>7, <1>8

\* sftp_retain: one user more, whose reference is on its way.
LEMMA RetainKeeps ==
  ASSUME IndInv, NEW p \in Panels, Retain(p)
  PROVE  IndInv'
<1> DEFINE t == tabOf[p]
           fs == op[p].fs
<1>1. Types /\ UsersAreCounted BY DEF IndInv
<1>2. /\ op[p].pc = "retain" /\ op[p] \in Ways /\ WayFits(op[p], Len(conns), Len(mounts))
           /\ fs \in Fs
      /\ op[p].live \in Live /\ t \in Tabs /\ claims[t] \in TabsClaims
  BY <1>1, PanelIs DEF Retain, WayFits, Knowing
<1>3. QuietElsewhere /\ UNCHANGED <<claims, held, closes>>
  BY DEF Retain, QuietElsewhere, Unmoved, Elsewhere
<1>4. CASE IsOpen(fs)
  <2> DEFINE w == [op[p] EXCEPT !.pc = "retained"]
  <2>1. op' = [op EXCEPT ![p] = w] /\ opened' = Retained(fs) BY <1>4 DEF Retain, Step
  <2>2. /\ w \in Ways /\ w.pc = "retained" /\ w.fs = fs /\ w.live = op[p].live
             /\ w.lease = op[p].lease
        /\ w.mount = op[p].mount
    BY <1>2, WaysAre DEF PanelSteps
  <2> HIDE DEF w, t, fs
  <2>3. QuietWay(p, w)
    BY <1>2, <2>1, <2>2 DEF QuietWay, WayFits, Restarting
  <2>4. /\ opened' \in Registries /\ Within(opened', opened)
        /\ \A f \in Fs : UsersOf(opened', f) = UsersOf(opened, f) + Bit(f = fs)
    BY <1>1, <1>2, <1>4, <2>1, RetainedIs DEF Types, OpenedTypes
  <2>5. ClaimsTypes' /\ HeldTypes' /\ ClosesTypes'
    BY <1>1, <1>3 DEF Types, ClaimsTypes, HeldTypes, ClosesTypes
  <2>6. ASSUME NEW f \in Fs
        PROVE  /\ Claimed(claims'[t], f) + Bit(held[p] = f) + Bit(Lists(op[p], f))
                  = Claimed(claims[t], f) + Bit(held'[p] = f) + Bit(Lists(w, f))
               /\ UsersOf(opened', f) + Bit(Holds(claims[t], f)) + Bit(Brings(op[p], f)) + closes[f]
                  = UsersOf(opened, f) + Bit(Holds(claims'[t], f)) + Bit(Brings(w, f)) + closes'[f]
    <3>1. ~Lists(op[p], f) /\ ~Lists(w, f) BY <1>2, <2>2 DEF Lists
    <3>2. ~Brings(op[p], f) /\ (Brings(w, f) <=> f = fs) BY <1>2, <2>2 DEF Brings, Bringing
    <3>3. UsersOf(opened, f) \in Nat /\ closes[f] \in Nat
      BY <1>1, UsersAre DEF Types, OpenedTypes, ClosesTypes
    <3>4. claims' = claims /\ held' = held /\ closes' = closes BY <1>3
    <3>5. UsersOf(opened', f) = UsersOf(opened, f) + Bit(f = fs) BY <2>4
    <3>6. Bit(Brings(w, f)) = Bit(f = fs) /\ Bit(Brings(op[p], f)) = 0
          /\ Bit(Lists(op[p], f)) = Bit(Lists(w, f))
      BY <3>1, <3>2 DEF Bit
    <3>7. Bit(f = fs) \in Nat /\ Bit(Holds(claims[t], f)) \in Nat BY DEF Bit
    <3> QED BY <3>3, <3>4, <3>5, <3>6, <3>7
  <2>7. claims' = claims /\ held' = held BY <1>3
  <2> QED BY <1>3, <2>3, <2>4, <2>5, <2>6, <2>7, QuietCounted DEF t
<1>5. CASE ~IsOpen(fs)
  <2>1. op' = [op EXCEPT ![p] = Idle] /\ opened' = opened BY <1>5 DEF Retain, Done
  <2>2. QuietWay(p, Idle) BY <1>1, <2>1, PanelIs, IdleIs DEF QuietWay, Restarting
  <2>3. op[p].pc \notin Bringing \cup {"list"} /\ Idle.pc \notin Bringing \cup {"list"}
    BY <1>2, IdleIs DEF Bringing
  <2> QED BY <1>3, <2>1, <2>2, <2>3, QuietUncounted
<1> QED BY <1>4, <1>5

\* adopt: the reference becomes a claim, or a call on its way back.
LEMMA AdoptKeeps ==
  ASSUME IndInv, NEW p \in Panels, Adopt(p)
  PROVE  IndInv'
<1> DEFINE t == tabOf[p]
           fs == op[p].fs
           c == claims[t]
           w == IF c.disposed THEN Idle ELSE [Idle EXCEPT !.pc = "list", !.fs = fs]
<1>1. Types /\ UsersAreCounted BY DEF IndInv
<1>2. /\ op[p].pc \in Bringing /\ fs \in Fs /\ t \in Tabs /\ c \in TabsClaims /\ ClaimsFit(c)
  BY <1>1, PanelIs DEF Adopt, WayFits, Knowing, Bringing
<1>3. up' \subseteq up BY HangUpIs DEF Adopt
<1>4. QuietElsewhere /\ UNCHANGED <<opened, held>>
  BY <1>3 DEF Adopt, QuietElsewhere, Unmoved, Elsewhere
<1>5. /\ op' = [op EXCEPT ![p] = w] /\ claims' = [claims EXCEPT ![t] = Adopted(c, fs)]
      /\ closes' = IF IsSpare(c, fs) THEN [closes EXCEPT ![fs] = @ + 1] ELSE closes
  BY DEF Adopt, TabClaims, Sent
<1>6. Len(mounts) \in Nat /\ Len(conns) \in Nat BY <1>1, LensAreNat
<1>7. QuietWay(p, w) /\ (c.disposed => w.pc = "idle") /\ (~c.disposed => w.pc = "list" /\ w.fs = fs)
  <2>1. CASE c.disposed
    BY <1>1, <1>5, <2>1, PanelIs, IdleIs DEF QuietWay, Restarting
  <2>2. CASE ~c.disposed
    <3>1. w \in Ways /\ w.pc = "list" /\ w.fs = fs /\ w.live = 0 /\ w.lease = 0 /\ w.mount = 0
      BY <1>2, <2>2 DEF Ways, Idle, PanelSteps
    <3> HIDE DEF w
    <3> QED BY <1>2, <1>5, <1>6, <2>2, <3>1 DEF QuietWay, WayFits, Restarting, Knowing, Bringing
  <2> QED BY <2>1, <2>2
<1> HIDE DEF w, t, fs, c
<1>8. /\ claims'[t] = Adopted(c, fs) /\ (\A u \in Tabs \ {t} : claims'[u] = claims[u])
      /\ claims[t] = c /\ DOMAIN claims = Tabs /\ claims' = [claims EXCEPT ![t] = Adopted(c, fs)]
  BY <1>1, <1>2, <1>5 DEF Types, ClaimsTypes, c
<1>9. /\ Adopted(c, fs) \in TabsClaims /\ ClaimsFit(Adopted(c, fs))
           /\ Adopted(c, fs).disposed = c.disposed
      /\ \A f \in Fs : Holds(Adopted(c, fs), f) <=> Holds(c, f) \/ (~c.disposed /\ f = fs)
      /\ ~c.disposed => \A f \in Fs : Claimed(Adopted(c, fs), f) = Claimed(c, f) + Bit(f = fs)
  BY <1>2, TakenIs DEF Adopted, ClaimsFit
<1>10. ClaimsTypes' BY <1>1, <1>8, <1>9 DEF Types, ClaimsTypes
<1>11. HeldTypes' BY <1>1, <1>4 DEF Types, HeldTypes
<1>12. ClosesTypes' /\ \A f \in Fs : closes'[f] = closes[f] + Bit(f = fs /\ IsSpare(c, fs))
  <2>1. closes \in [Fs -> Nat] /\ fs \in Fs BY <1>1, <1>2 DEF Types, ClosesTypes
  <2>2. CASE IsSpare(c, fs)
    <3>1. closes' = [closes EXCEPT ![fs] = @ + 1] BY <1>5, <2>2
    <3> QED BY <2>1, <2>2, <3>1 DEF ClosesTypes, Bit
  <2>3. CASE ~IsSpare(c, fs) BY <1>5, <2>1, <2>3 DEF ClosesTypes, Bit
  <2> QED BY <2>2, <2>3
<1>13. opened' \in Registries /\ Within(opened', opened) BY <1>1, <1>4, KeptIs
<1>14. ASSUME NEW f \in Fs
       PROVE  /\ ~c.disposed =>
                  Claimed(claims'[t], f) + Bit(held[p] = f) + Bit(Lists(op[p], f))
                  = Claimed(claims[t], f) + Bit(held'[p] = f) + Bit(Lists(w, f))
              /\ UsersOf(opened', f) + Bit(Holds(claims[t], f)) + Bit(Brings(op[p], f)) + closes[f]
                  = UsersOf(opened, f) + Bit(Holds(claims'[t], f)) + Bit(Brings(w, f)) + closes'[f]
  <2>1. held' = held /\ opened' = opened BY <1>4
  <2>2. Claimed(c, f) \in Nat /\ closes[f] \in Nat /\ UsersOf(opened, f) \in Nat
    BY <1>1, <1>2, ClaimedIs, UsersAre DEF Types, ClosesTypes, OpenedTypes
  <2>3. ~c.disposed => Claimed(claims'[t], f) = Claimed(c, f) + Bit(f = fs) BY <1>8, <1>9
  <2>4. Bit(Lists(op[p], f)) = 0 /\ (~c.disposed => Bit(Lists(w, f)) = Bit(f = fs))
    BY <1>2, <1>7 DEF Lists, Bringing, Bit
  <2>5. ~c.disposed => Claimed(claims'[t], f) + Bit(held[p] = f) + Bit(Lists(op[p], f))
                  = Claimed(claims[t], f) + Bit(held'[p] = f) + Bit(Lists(w, f))
    BY <1>8, <2>1, <2>2, <2>3, <2>4 DEF Bit
  <2>6. Bit(Brings(op[p], f)) = Bit(f = fs) /\ Bit(Brings(w, f)) = 0
    BY <1>2, <1>7 DEF Brings, Bringing, Bit, fs
  <2>7. c.disposed => ~Holds(c, f) BY <1>2 DEF ClaimsFit
  <2>8. Bit(Holds(claims[t], f)) + Bit(f = fs)
          = Bit(Holds(claims'[t], f)) + Bit(f = fs /\ IsSpare(c, fs))
    <3>1. claims[t] = c /\ (Holds(claims'[t], f) <=> Holds(c, f) \/ (~c.disposed /\ f = fs))
      BY <1>8, <1>9
    <3>2. IsSpare(c, fs) <=> c.disposed \/ Holds(c, fs) BY DEF IsSpare
    <3>3. CASE f # fs BY <3>1, <3>3 DEF Bit
    <3>4. CASE f = fs /\ c.disposed BY <2>7, <3>1, <3>2, <3>4 DEF Bit
    <3>5. CASE f = fs /\ ~c.disposed /\ Holds(c, f) BY <3>1, <3>2, <3>5 DEF Bit
    <3>6. CASE f = fs /\ ~c.disposed /\ ~Holds(c, f) BY <3>1, <3>2, <3>6 DEF Bit
    <3> QED BY <3>3, <3>4, <3>5, <3>6
  <2>9. closes'[f] = closes[f] + Bit(f = fs /\ IsSpare(c, fs)) BY <1>12
  <2>10. Bit(Holds(claims[t], f)) \in Nat /\ Bit(Holds(claims'[t], f)) \in Nat
           /\ Bit(f = fs) \in Nat
         /\ Bit(f = fs /\ IsSpare(c, fs)) \in Nat
    BY DEF Bit
  <2>11. UsersOf(opened', f) + Bit(Holds(claims[t], f)) + Bit(Brings(op[p], f)) + closes[f]
                  = UsersOf(opened, f) + Bit(Holds(claims'[t], f)) + Bit(Brings(w, f)) + closes'[f]
    BY <2>1, <2>2, <2>6, <2>8, <2>9, <2>10
  <2> QED BY <2>5, <2>11
<1>15. claims'[t].disposed = claims[t].disposed /\ claims[t] = c BY <1>8, <1>9
<1>16. \A q \in Panels \ {p} : held'[q] = held[q] BY <1>4
<1> QED BY <1>4, <1>7, <1>8, <1>10, <1>11, <1>12, <1>13, <1>14, <1>15, <1>16, QuietCounted DEF t

\* Giving a claim back.
LEMMA GiveBackIs ==
  ASSUME Types, NEW p \in Panels, NEW h \in Fs, GiveBack(p, h), NEW t, t = tabOf[p]
  PROVE  /\ ClaimsTypes' /\ ClosesTypes' /\ (\A u \in Tabs \ {t} : claims'[u] = claims[u])
         /\ claims'[t].disposed = claims[t].disposed
         /\ \A f \in Fs : /\ Claimed(claims'[t], f)
                               = Claimed(claims[t], f) - Bit(f = h /\ Holds(claims[t], h))
                          /\ Bit(Holds(claims[t], f)) + closes[f]
                               = Bit(Holds(claims'[t], f)) + closes'[f]
<1> DEFINE c == claims[t]
           b == GivenBack(c, h)
<1>1. t \in Tabs /\ c \in TabsClaims /\ ClaimsFit(c) BY PanelIs
<1>2. claims \in [Tabs -> TabsClaims] /\ closes \in [Fs -> Nat] /\ DOMAIN claims = Tabs
  BY DEF Types, ClaimsTypes, ClosesTypes
<1>3. claims' = [claims EXCEPT ![t] = b]
        /\ closes' = IF IsLast(c, h) THEN [closes EXCEPT ![h] = @ + 1] ELSE closes
  BY DEF GiveBack, TabClaims, Sent
<1> HIDE DEF b, c
<1>4. claims'[t] = b /\ (\A u \in Tabs \ {t} : claims'[u] = claims[u]) /\ claims[t] = c
  BY <1>1, <1>2, <1>3 DEF c
<1>5. /\ b \in TabsClaims /\ b.disposed = c.disposed
      /\ \A f \in Fs : Holds(b, f) <=> Holds(c, f) /\ ~(f = h /\ IsLast(c, h))
      /\ \A f \in Fs : Claimed(b, f) = Claimed(c, f) - Bit(f = h /\ Holds(c, h))
  BY <1>1, GivenBackIs DEF b
<1>6. ClaimsFit(b) BY <1>1, <1>5 DEF ClaimsFit
<1>7. ClaimsTypes' BY <1>2, <1>3, <1>4, <1>5, <1>6 DEF ClaimsTypes, Types
<1>8. ClosesTypes' /\ \A f \in Fs : closes'[f] = closes[f] + Bit(f = h /\ IsLast(c, h))
  <2>1. CASE IsLast(c, h)
    <3>1. closes' = [closes EXCEPT ![h] = @ + 1] BY <1>3, <2>1
    <3> QED BY <1>2, <2>1, <3>1 DEF ClosesTypes, Bit
  <2>2. CASE ~IsLast(c, h) BY <1>2, <1>3, <2>2 DEF ClosesTypes, Bit
  <2> QED BY <2>1, <2>2
<1>9. ASSUME NEW f \in Fs PROVE Bit(Holds(c, f)) + closes[f] = Bit(Holds(b, f)) + closes'[f]
  <2>1. closes'[f] = closes[f] + Bit(f = h /\ IsLast(c, h)) /\ closes[f] \in Nat BY <1>2, <1>8
  <2>2. Bit(Holds(c, f)) = Bit(Holds(b, f)) + Bit(f = h /\ IsLast(c, h))
    <3>1. Holds(b, f) <=> Holds(c, f) /\ ~(f = h /\ IsLast(c, h)) BY <1>5
    <3>2. IsLast(c, h) => Holds(c, h) BY DEF IsLast
    <3>3. CASE f = h /\ IsLast(c, h) BY <3>1, <3>2, <3>3 DEF Bit
    <3>4. CASE ~(f = h /\ IsLast(c, h)) BY <3>1, <3>4 DEF Bit
    <3> QED BY <3>3, <3>4
  <2>3. Bit(Holds(b, f)) \in Nat /\ Bit(f = h /\ IsLast(c, h)) \in Nat BY DEF Bit
  <2> QED BY <2>1, <2>2, <2>3
<1> QED BY <1>4, <1>5, <1>7, <1>8, <1>9

\* The folder is shown, or is not: the panel has one claim instead of two.
LEMMA ShowKeeps ==
  ASSUME IndInv, NEW p \in Panels, Show(p)
  PROVE  IndInv'
<1> DEFINE t == tabOf[p]
           fs == op[p].fs
           h == held[p]
<1>1. Types /\ UsersAreCounted BY DEF IndInv
<1>2. /\ op[p].pc = "list" /\ fs \in Fs /\ h \in Fs \cup {0} /\ t \in Tabs
           /\ claims[t] \in TabsClaims
  BY <1>1, PanelIs DEF Show, WayFits, Knowing
<1>3. QuietElsewhere /\ UNCHANGED <<opened>>
  BY DEF Show, QuietElsewhere, Unmoved, Elsewhere
<1>4. QuietWay(p, Idle)
  BY <1>1, PanelIs, IdleIs DEF QuietWay, Restarting, Show, Done
<1>5. held' = [held EXCEPT ![p] = fs] /\ held \in [Panels -> Fs \cup {0}]
  BY <1>1 DEF Show, Types, HeldTypes
<1>6. HeldTypes' /\ held'[p] = fs /\ \A q \in Panels \ {p} : held'[q] = held[q]
  BY <1>2, <1>5 DEF HeldTypes
<1>7. /\ ClaimsTypes' /\ ClosesTypes' /\ (\A u \in Tabs \ {t} : claims'[u] = claims[u])
      /\ claims'[t].disposed = claims[t].disposed
      /\ \A f \in Fs : /\ Claimed(claims'[t], f)
                            = Claimed(claims[t], f) - Bit(f = h /\ Holds(claims[t], h))
                       /\ Bit(Holds(claims[t], f)) + closes[f]
                            = Bit(Holds(claims'[t], f)) + closes'[f]
  <2>1. CASE h # 0
    <3>1. h \in Fs /\ GiveBack(p, h) BY <1>2, <2>1 DEF Show
    <3> HIDE DEF t, h
    <3>2. t = tabOf[p] BY DEF t
    <3> QED BY <1>1, <3>1, <3>2, GiveBackIs
  <2>2. CASE h = 0
    <3>1. claims' = claims /\ closes' = closes BY <2>2 DEF Show
    <3>2. \A f \in Fs : Claimed(claims[t], f) \in Nat BY <1>2, ClaimedIs
    <3>3. ClaimsTypes' /\ ClosesTypes' BY <1>1, <3>1 DEF Types, ClaimsTypes, ClosesTypes
    <3>4. \A f \in Fs : Bit(f = h /\ Holds(claims[t], h)) = 0 BY <2>2 DEF Bit
    <3> HIDE DEF h, t
    <3> QED BY <3>1, <3>2, <3>3, <3>4
  <2> QED BY <2>1, <2>2
<1>8. opened' \in Registries /\ Within(opened', opened) BY <1>1, <1>3, KeptIs
<1>9. ASSUME NEW f \in Fs
      PROVE  /\ ~claims[t].disposed =>
                  Claimed(claims'[t], f) + Bit(held[p] = f) + Bit(Lists(op[p], f))
                  = Claimed(claims[t], f) + Bit(held'[p] = f) + Bit(Lists(Idle, f))
             /\ UsersOf(opened', f) + Bit(Holds(claims[t], f)) + Bit(Brings(op[p], f)) + closes[f]
                  = UsersOf(opened, f) + Bit(Holds(claims'[t], f)) + Bit(Brings(Idle, f))
                    + closes'[f]
  <2>1. Lists(op[p], f) <=> f = fs BY <1>2 DEF Lists
  <2>2. ~Lists(Idle, f) /\ ~Brings(Idle, f) /\ ~Brings(op[p], f) /\ opened' = opened
    BY <1>2, <1>3, IdleIs DEF Lists, Brings, Bringing
  <2>3. Claimed(claims[t], f) \in Nat /\ UsersOf(opened, f) \in Nat
    BY <1>1, <1>2, ClaimedIs, UsersAre DEF Types, OpenedTypes
  <2>4. ~claims[t].disposed => (h = f => Holds(claims[t], h))
    BY <1>1, PanelIsCounted
  <2>5. ~claims[t].disposed =>
                  Claimed(claims'[t], f) + Bit(held[p] = f) + Bit(Lists(op[p], f))
                  = Claimed(claims[t], f) + Bit(held'[p] = f) + Bit(Lists(Idle, f))
    <3>1. Claimed(claims'[t], f) = Claimed(claims[t], f) - Bit(f = h /\ Holds(claims[t], h)) BY <1>7
    <3>2. ~claims[t].disposed => Bit(f = h /\ Holds(claims[t], h)) = Bit(h = f) BY <2>4 DEF Bit
    <3>3. Bit(Lists(op[p], f)) = Bit(held'[p] = f) /\ Bit(Lists(Idle, f)) = 0
      BY <1>6, <2>1, <2>2 DEF Bit
    <3>4. Bit(h = f) \in Nat /\ Bit(held'[p] = f) \in Nat BY DEF Bit
    <3> HIDE DEF t
    <3> QED BY <2>3, <3>1, <3>2, <3>3, <3>4
  <2>6. UsersOf(opened', f) + Bit(Holds(claims[t], f)) + Bit(Brings(op[p], f)) + closes[f]
                  = UsersOf(opened, f) + Bit(Holds(claims'[t], f)) + Bit(Brings(Idle, f))
                    + closes'[f]
    <3>1. Bit(Holds(claims[t], f)) + closes[f] = Bit(Holds(claims'[t], f)) + closes'[f] BY <1>7
    <3>2. closes[f] \in Nat /\ closes'[f] \in Nat BY <1>1, <1>7 DEF Types, ClosesTypes
    <3>3. Bit(Brings(op[p], f)) = 0 /\ Bit(Brings(Idle, f)) = 0 BY <2>2 DEF Bit
    <3>4. Bit(Holds(claims[t], f)) \in Nat /\ Bit(Holds(claims'[t], f)) \in Nat BY DEF Bit
    <3> HIDE DEF t
    <3> QED BY <2>2, <2>3, <3>1, <3>2, <3>3, <3>4
  <2> QED BY <2>5, <2>6
<1> QED BY <1>3, <1>4, <1>6, <1>7, <1>8, <1>9, QuietCounted

\* It is not shown: the claim is given back.
LEMMA ShowNotKeeps ==
  ASSUME IndInv, NEW p \in Panels, ShowNot(p)
  PROVE  IndInv'
<1> DEFINE t == tabOf[p]
           fs == op[p].fs
<1>1. Types /\ UsersAreCounted BY DEF IndInv
<1>2. /\ op[p].pc = "list" /\ fs \in Fs /\ t \in Tabs /\ claims[t] \in TabsClaims
  BY <1>1, PanelIs DEF ShowNot, WayFits, Knowing
<1>3. QuietElsewhere /\ UNCHANGED <<opened, held>>
  BY DEF ShowNot, QuietElsewhere, Unmoved, Elsewhere
<1>4. QuietWay(p, Idle)
  BY <1>1, PanelIs, IdleIs DEF QuietWay, Restarting, ShowNot, Done
<1>5. HeldTypes' BY <1>1, <1>3 DEF Types, HeldTypes
<1>6. GiveBack(p, fs) BY DEF ShowNot
<1> HIDE DEF t, fs
<1>7. /\ ClaimsTypes' /\ ClosesTypes' /\ (\A u \in Tabs \ {t} : claims'[u] = claims[u])
      /\ claims'[t].disposed = claims[t].disposed
      /\ \A f \in Fs : /\ Claimed(claims'[t], f)
                            = Claimed(claims[t], f) - Bit(f = fs /\ Holds(claims[t], fs))
                       /\ Bit(Holds(claims[t], f)) + closes[f]
                            = Bit(Holds(claims'[t], f)) + closes'[f]
  <2>1. t = tabOf[p] BY DEF t
  <2> QED BY <1>1, <1>2, <1>6, <2>1, GiveBackIs
<1>8. opened' \in Registries /\ Within(opened', opened) BY <1>1, <1>3, KeptIs
<1>9. ASSUME NEW f \in Fs
      PROVE  /\ ~claims[t].disposed =>
                  Claimed(claims'[t], f) + Bit(held[p] = f) + Bit(Lists(op[p], f))
                  = Claimed(claims[t], f) + Bit(held'[p] = f) + Bit(Lists(Idle, f))
             /\ UsersOf(opened', f) + Bit(Holds(claims[t], f)) + Bit(Brings(op[p], f)) + closes[f]
                  = UsersOf(opened, f) + Bit(Holds(claims'[t], f)) + Bit(Brings(Idle, f))
                    + closes'[f]
  <2>1. Lists(op[p], f) <=> f = fs BY <1>2 DEF Lists, fs
  <2>2. ~Lists(Idle, f) /\ ~Brings(Idle, f) /\ ~Brings(op[p], f) /\ opened' = opened /\ held' = held
    BY <1>2, <1>3, IdleIs DEF Lists, Brings, Bringing
  <2>3. Claimed(claims[t], f) \in Nat /\ UsersOf(opened, f) \in Nat
    BY <1>1, <1>2, ClaimedIs, UsersAre DEF Types, OpenedTypes
  <2>4. ~claims[t].disposed => (Lists(op[p], f) => Holds(claims[t], f))
    BY <1>1, PanelIsCounted DEF t
  <2>5. ~claims[t].disposed =>
                  Claimed(claims'[t], f) + Bit(held[p] = f) + Bit(Lists(op[p], f))
                  = Claimed(claims[t], f) + Bit(held'[p] = f) + Bit(Lists(Idle, f))
    <3>1. Claimed(claims'[t], f) = Claimed(claims[t], f) - Bit(f = fs /\ Holds(claims[t], fs))
      BY <1>7
    <3>2. ~claims[t].disposed => Bit(f = fs /\ Holds(claims[t], fs)) = Bit(Lists(op[p], f))
      BY <2>1, <2>4 DEF Bit
    <3>3. Bit(Lists(Idle, f)) = 0 /\ held' = held
      BY <2>2 DEF Bit
    <3>4. Bit(held[p] = f) \in Nat /\ Bit(Lists(op[p], f)) \in Nat BY DEF Bit
    <3> QED BY <2>3, <3>1, <3>2, <3>3, <3>4
  <2>6. UsersOf(opened', f) + Bit(Holds(claims[t], f)) + Bit(Brings(op[p], f)) + closes[f]
                  = UsersOf(opened, f) + Bit(Holds(claims'[t], f)) + Bit(Brings(Idle, f))
                    + closes'[f]
    <3>1. Bit(Holds(claims[t], f)) + closes[f] = Bit(Holds(claims'[t], f)) + closes'[f] BY <1>7
    <3>2. closes[f] \in Nat /\ closes'[f] \in Nat BY <1>1, <1>7 DEF Types, ClosesTypes
    <3>3. Bit(Brings(op[p], f)) = 0 /\ Bit(Brings(Idle, f)) = 0 BY <2>2 DEF Bit
    <3>4. Bit(Holds(claims[t], f)) \in Nat /\ Bit(Holds(claims'[t], f)) \in Nat BY DEF Bit
    <3> QED BY <2>2, <2>3, <3>1, <3>2, <3>3, <3>4
  <2> QED BY <2>5, <2>6
<1>10. t = tabOf[p] /\ \A q \in Panels \ {p} : held'[q] = held[q] BY <1>3 DEF t
<1> QED BY <1>3, <1>4, <1>5, <1>7, <1>8, <1>9, <1>10, QuietCounted

\* The panel shows a local folder instead.
LEMMA ShowLocalKeeps ==
  ASSUME IndInv, NEW p \in Panels, ShowLocal(p)
  PROVE  IndInv'
<1> DEFINE t == tabOf[p]
           h == held[p]
           w == op[p]
<1>1. Types /\ UsersAreCounted BY DEF IndInv
<1>2. /\ w.pc = "idle" /\ h \in Fs /\ t \in Tabs /\ claims[t] \in TabsClaims /\ ~claims[t].disposed
      /\ w \in Ways /\ WayFits(w, Len(conns), Len(mounts)) /\ w.live \in Live
  BY <1>1, PanelIs DEF ShowLocal, TabClaims
<1>3. QuietElsewhere /\ UNCHANGED <<opened, op>>
  BY DEF ShowLocal, QuietElsewhere, Unmoved
<1>4. op' = [op EXCEPT ![p] = w] BY <1>1, <1>3 DEF Types, OpTypes
<1>5. QuietWay(p, w) BY <1>2, <1>4 DEF QuietWay, Restarting
<1>6. held' = [held EXCEPT ![p] = 0] /\ held \in [Panels -> Fs \cup {0}]
  BY <1>1 DEF ShowLocal, Types, HeldTypes
<1>7. HeldTypes' /\ held'[p] = 0 /\ \A q \in Panels \ {p} : held'[q] = held[q]
  BY <1>6 DEF HeldTypes
<1>8. GiveBack(p, h) BY DEF ShowLocal
<1> HIDE DEF t, h
<1>9. /\ ClaimsTypes' /\ ClosesTypes' /\ (\A u \in Tabs \ {t} : claims'[u] = claims[u])
      /\ claims'[t].disposed = claims[t].disposed
      /\ \A f \in Fs : /\ Claimed(claims'[t], f)
                            = Claimed(claims[t], f) - Bit(f = h /\ Holds(claims[t], h))
                       /\ Bit(Holds(claims[t], f)) + closes[f]
                            = Bit(Holds(claims'[t], f)) + closes'[f]
  <2>1. t = tabOf[p] BY DEF t
  <2> QED BY <1>1, <1>2, <1>8, <2>1, GiveBackIs
<1>10. opened' \in Registries /\ Within(opened', opened) BY <1>1, <1>3, KeptIs
<1>11. ASSUME NEW f \in Fs
       PROVE  /\ Claimed(claims'[t], f) + Bit(held[p] = f) + Bit(Lists(op[p], f))
                  = Claimed(claims[t], f) + Bit(held'[p] = f) + Bit(Lists(w, f))
              /\ UsersOf(opened', f) + Bit(Holds(claims[t], f)) + Bit(Brings(op[p], f)) + closes[f]
                  = UsersOf(opened, f) + Bit(Holds(claims'[t], f)) + Bit(Brings(w, f)) + closes'[f]
  <2>1. ~Lists(w, f) /\ ~Brings(w, f) /\ opened' = opened
    BY <1>2, <1>3 DEF Lists, Brings, Bringing
  <2>2. Claimed(claims[t], f) \in Nat /\ UsersOf(opened, f) \in Nat
    BY <1>1, <1>2, ClaimedIs, UsersAre DEF Types, OpenedTypes
  <2>3. held[p] = f => Holds(claims[t], f)
    BY <1>1, <1>2, PanelIsCounted DEF t
  <2>4. Claimed(claims'[t], f) + Bit(held[p] = f) + Bit(Lists(op[p], f))
                  = Claimed(claims[t], f) + Bit(held'[p] = f) + Bit(Lists(w, f))
    <3>1. Claimed(claims'[t], f) = Claimed(claims[t], f) - Bit(f = h /\ Holds(claims[t], h)) BY <1>9
    <3>2. Bit(f = h /\ Holds(claims[t], h)) = Bit(held[p] = f)
      BY <2>3 DEF Bit, h
    <3>3. Bit(Lists(w, f)) = 0 /\ Bit(held'[p] = f) = 0
      BY <1>7, <2>1 DEF Bit
    <3>4. Bit(held[p] = f) \in Nat BY DEF Bit
    <3> QED BY <2>2, <3>1, <3>2, <3>3, <3>4
  <2>5. UsersOf(opened', f) + Bit(Holds(claims[t], f)) + Bit(Brings(op[p], f)) + closes[f]
                  = UsersOf(opened, f) + Bit(Holds(claims'[t], f)) + Bit(Brings(w, f)) + closes'[f]
    <3>1. Bit(Holds(claims[t], f)) + closes[f] = Bit(Holds(claims'[t], f)) + closes'[f] BY <1>9
    <3>2. closes[f] \in Nat /\ closes'[f] \in Nat BY <1>1, <1>9 DEF Types, ClosesTypes
    <3>3. Bit(Brings(op[p], f)) = 0 /\ Bit(Brings(w, f)) = 0 BY <2>1 DEF Bit
    <3>4. Bit(Holds(claims[t], f)) \in Nat /\ Bit(Holds(claims'[t], f)) \in Nat BY DEF Bit
    <3> QED BY <2>1, <2>2, <3>1, <3>2, <3>3, <3>4
  <2> QED BY <2>4, <2>5
<1>12. t = tabOf[p] BY DEF t
<1> HIDE DEF w
<1> QED BY <1>3, <1>5, <1>7, <1>9, <1>10, <1>11, <1>12, QuietCounted

\* lease_for, on an SSH tab's connection.
LEMMA WithLeaseIs ==
  ASSUME Types, NEW c
  PROVE  /\ WayFits(WithLease(c), Len(conns), Len(mounts)) /\ WithLease(c).pc \in {"idle", "open"}
         /\ WithLease(c).live = 0
<1>1. CASE Attachable(c)
  <2> DEFINE w == [Idle EXCEPT !.pc = "open", !.lease = c]
  <2>1. c \in Nat /\ c <= Len(conns) BY <1>1, LensAreNat DEF Attachable, Types, ConnsTypes
  <2>2. w \in Ways /\ w.pc = "open" /\ w.live = 0 /\ w.lease = c /\ w.mount = 0
    BY <2>1 DEF Ways, Idle, PanelSteps
  <2>3. WithLease(c) = w BY <1>1 DEF WithLease
  <2> HIDE DEF w
  <2> QED BY <2>1, <2>2, <2>3, LensAreNat DEF WayFits, Restarting, Knowing, Bringing
<1>2. CASE ~Attachable(c)
  <2>1. WithLease(c) = Idle BY <1>2 DEF WithLease
  <2> QED BY <2>1, IdleIs, LensAreNat DEF WayFits, Restarting, Knowing, Bringing
<1> QED BY <1>1, <1>2

\* share: one user more, or a session of its own.
LEMMA ShareKeeps ==
  ASSUME IndInv, NEW p \in Panels, Share(p)
  PROVE  IndInv'
<1> DEFINE t == tabOf[p]
           fs == op[p].fs
<1>1. Types /\ UsersAreCounted BY DEF IndInv
<1>2. /\ op[p].pc = "share" /\ op[p] \in Ways /\ WayFits(op[p], Len(conns), Len(mounts))
      /\ op[p].live \in Live /\ t \in Tabs /\ claims[t] \in TabsClaims
  BY <1>1, PanelIs DEF Share
<1>3. up' \subseteq up BY HangUpIs DEF Share
<1>4. QuietElsewhere /\ UNCHANGED <<claims, held, closes>>
  BY <1>3 DEF Share, QuietElsewhere, Unmoved, Elsewhere
<1>5. CASE IsOpen(fs) /\ MountOf(fs) = op[p].mount
  <2> DEFINE w == [op[p] EXCEPT !.pc = "view"]
  <2>1. op' = [op EXCEPT ![p] = w] /\ opened' = Retained(fs) BY <1>5 DEF Share, Step
  <2>2. /\ w \in Ways /\ w.pc = "view" /\ w.fs = fs /\ w.live = op[p].live /\ w.lease = op[p].lease
        /\ w.mount = op[p].mount
    BY <1>2, WaysAre DEF PanelSteps
  <2>3. fs \in Fs BY <1>1, <1>5, LensAreNat DEF IsOpen, Types, OpenedTypes, ConnsTypes, Registries
  <2> HIDE DEF w, t, fs
  <2>4. QuietWay(p, w)
    BY <1>2, <2>1, <2>2, <2>3 DEF QuietWay, WayFits, Restarting
  <2>5. /\ opened' \in Registries /\ Within(opened', opened)
        /\ \A f \in Fs : UsersOf(opened', f) = UsersOf(opened, f) + Bit(f = fs)
    BY <1>1, <2>3, <1>5, <2>1, RetainedIs DEF Types, OpenedTypes
  <2>6. ClaimsTypes' /\ HeldTypes' /\ ClosesTypes'
    BY <1>1, <1>4 DEF Types, ClaimsTypes, HeldTypes, ClosesTypes
  <2>7. ASSUME NEW f \in Fs
        PROVE  /\ Claimed(claims'[t], f) + Bit(held[p] = f) + Bit(Lists(op[p], f))
                  = Claimed(claims[t], f) + Bit(held'[p] = f) + Bit(Lists(w, f))
               /\ UsersOf(opened', f) + Bit(Holds(claims[t], f)) + Bit(Brings(op[p], f)) + closes[f]
                  = UsersOf(opened, f) + Bit(Holds(claims'[t], f)) + Bit(Brings(w, f)) + closes'[f]
    <3>1. ~Lists(op[p], f) /\ ~Lists(w, f) BY <1>2, <2>2 DEF Lists
    <3>2. ~Brings(op[p], f) /\ (Brings(w, f) <=> f = fs) BY <1>2, <2>2 DEF Brings, Bringing
    <3>3. UsersOf(opened, f) \in Nat /\ closes[f] \in Nat
      BY <1>1, UsersAre DEF Types, OpenedTypes, ClosesTypes
    <3>4. claims' = claims /\ held' = held /\ closes' = closes BY <1>4
    <3>5. UsersOf(opened', f) = UsersOf(opened, f) + Bit(f = fs) BY <2>5
    <3>6. Bit(Brings(w, f)) = Bit(f = fs) /\ Bit(Brings(op[p], f)) = 0
          /\ Bit(Lists(op[p], f)) = Bit(Lists(w, f))
      BY <3>1, <3>2 DEF Bit
    <3>7. Bit(f = fs) \in Nat /\ Bit(Holds(claims[t], f)) \in Nat BY DEF Bit
    <3> QED BY <3>3, <3>4, <3>5, <3>6, <3>7
  <2>8. claims' = claims /\ held' = held BY <1>4
  <2> QED BY <1>4, <2>4, <2>5, <2>6, <2>7, <2>8, QuietCounted DEF t
<1>6. CASE ~(IsOpen(fs) /\ MountOf(fs) = op[p].mount)
  <2> DEFINE w == WithLease(op[p].live)
  <2>1. op' = [op EXCEPT ![p] = w] /\ opened' = opened BY <1>6 DEF Share
  <2>2. WayFits(w, Len(conns), Len(mounts)) /\ w.pc \in {"idle", "open"} /\ w.live = 0
    BY <1>1, WithLeaseIs
  <2> HIDE DEF w
  <2>3. QuietWay(p, w) BY <2>1, <2>2 DEF QuietWay, Restarting
  <2>4. op[p].pc \notin Bringing \cup {"list"} /\ w.pc \notin Bringing \cup {"list"}
    BY <1>2, <2>2 DEF Bringing
  <2> QED BY <1>4, <2>1, <2>3, <2>4, QuietUncounted
<1> QED BY <1>5, <1>6

\* Find: what is open on the connection is on its server.
LEMMA FindKeeps ==
  ASSUME IndInv, NEW p \in Panels, Find(p)
  PROVE  IndInv'
<1> DEFINE c == op[p].live
           w == op'[p]
<1>1. Types /\ Stays BY DEF IndInv
<1>2. op[p].pc = "find" /\ op[p] \in Ways /\ WayFits(op[p], Len(conns), Len(mounts)) /\ c \in Live
  BY <1>1, PanelIs DEF Find
<1>3. QuietElsewhere /\ UNCHANGED <<opened, claims, held, closes>>
  BY DEF Find, QuietElsewhere, Elsewhere, Unmoved
<1>4. PICK v : /\ op' = [op EXCEPT ![p] = v]
               /\ \/ v = WithLease(c) \/ v = Idle
                  \/ \E f \in OnConnection(c) :
                       LET found == [op[p] EXCEPT !.fs = f, !.mount = MountOf(f)] IN
                       \/ v = [found EXCEPT !.pc = "share"]
                       \/ Attachable(c) /\ v = [found EXCEPT !.pc = "lock", !.lease = c]
  BY DEF Find
<1>5. WayFits(v, Len(conns), Len(mounts)) /\ v.pc \in {"idle", "open", "share", "lock"}
      /\ v.live \in {0, c}
      /\ (v.pc = "lock" => \A f \in DOMAIN opened : opened[f].mount = v.mount
           => conns[v.lease] = conns[f])
  <2>1. CASE v = WithLease(c)
    <3>1. WayFits(v, Len(conns), Len(mounts)) /\ v.pc \in {"idle", "open"} /\ v.live = 0
      BY <1>1, <2>1, WithLeaseIs
    <3> QED BY <3>1
  <2>2. CASE v = Idle
    BY <1>1, <2>2, PanelIs, IdleIs
  <2>3. ASSUME NEW f \in OnConnection(c), NEW found,
               found = [op[p] EXCEPT !.fs = f, !.mount = MountOf(f)],
               \/ v = [found EXCEPT !.pc = "share"]
               \/ Attachable(c) /\ v = [found EXCEPT !.pc = "lock", !.lease = c]
        PROVE  /\ WayFits(v, Len(conns), Len(mounts)) /\ v.pc \in {"share", "lock"} /\ v.live = c
               /\ v.pc = "lock" => \A g \in DOMAIN opened : opened[g].mount = v.mount
                    => conns[v.lease] = conns[g]
    <3>1. /\ f \in DOMAIN opened /\ opened[f].conn = c /\ f \in Fs
          /\ MountOf(f) = opened[f].mount /\ opened[f].mount \in 1 .. Len(mounts)
          /\ c \in 1 .. Len(conns)
      BY <1>1, LensAreNat DEF OnConnection, MountOf, Types, OpenedTypes, ConnsTypes
    <3>2. MountOf(f) \in Nat /\ MountOf(f) >= 1 /\ MountOf(f) <= Len(mounts) /\ c \in Nat
            /\ c >= 1 /\ c <= Len(conns)
      BY <1>1, <3>1, LensAreNat
    <3>3. /\ found \in Ways /\ found.live = c /\ found.mount = MountOf(f)
               /\ found.lease = op[p].lease
      BY <1>2, <2>3, <3>1, <3>2 DEF Ways
    <3>4. CASE v = [found EXCEPT !.pc = "share"]
      <4>1. v \in Ways /\ v.pc = "share" /\ v.live = c /\ v.mount = MountOf(f)
              /\ v.lease = op[p].lease
        BY <3>3, <3>4, WaysAre DEF PanelSteps
      <4> QED BY <1>2, <3>2, <4>1 DEF WayFits, Restarting, Knowing, Bringing
    <3>5. CASE Attachable(c) /\ v = [found EXCEPT !.pc = "lock", !.lease = c]
      <4>1. v \in Ways /\ v.pc = "lock" /\ v.live = c /\ v.mount = MountOf(f) /\ v.lease = c
        BY <3>2, <3>3, <3>5 DEF Ways, PanelSteps
      <4>2. WayFits(v, Len(conns), Len(mounts))
        BY <3>2, <4>1 DEF WayFits, Restarting, Knowing, Bringing
      <4>3. conns[c] = conns[f] BY <1>1, <1>2, <3>1 DEF Stays, FoundOnTheirs
      <4>4. \A g \in DOMAIN opened : opened[g].mount = opened[f].mount => g = f
        BY <1>1, <3>1 DEF Stays, OneMountEach
      <4> QED BY <3>1, <4>1, <4>2, <4>3, <4>4
    <3> QED BY <2>3, <3>4, <3>5
  <2> QED BY <1>4, <2>1, <2>2, <2>3
<1>6. QuietWay(p, v) BY <1>2, <1>4, <1>5 DEF QuietWay, Restarting
<1>7. op[p].pc \notin Bringing \cup {"list"} /\ v.pc \notin Bringing \cup {"list"}
  BY <1>2, <1>5 DEF Bringing
<1> QED BY <1>3, <1>6, <1>7, QuietUncounted

\* A login adds a connection.
LEMMA LogInIs ==
  ASSUME Types, NEW s \in Servers, LogIn(s), up' = up \cup {NewConn},
         terminals' \subseteq terminals \cup {NewConn}
  PROVE  /\ ConnsTypes' /\ ConnsKept /\ Len(conns') = Len(conns) + 1 /\ conns'[NewConn] = s
         /\ NewConn \in Nat /\ NewConn = Len(conns')
<1>1. conns \in Seq(Servers) /\ Len(conns) \in Nat BY LensAreNat DEF Types, ConnsTypes
<1>2. conns' = Append(conns, s) /\ Len(conns) < MaxLogins BY DEF LogIn
<1>3. /\ conns' \in Seq(Servers) /\ Len(conns') = Len(conns) + 1 /\ conns'[Len(conns) + 1] = s
      /\ \A c \in 1 .. Len(conns) : conns'[c] = conns[c]
  BY <1>1, <1>2
<1>4. MaxLogins \in Nat BY DEF SessionsAssumption
<1>5. up' \subseteq 1 .. Len(conns') /\ terminals' \subseteq 1 .. Len(conns')
  <2>1. up \subseteq 1 .. Len(conns) /\ terminals \subseteq 1 .. Len(conns) BY DEF Types, ConnsTypes
  <2>2. 1 .. Len(conns) \subseteq 1 .. Len(conns') /\ NewConn \in 1 .. Len(conns')
    BY <1>1, <1>3 DEF NewConn
  <2> QED BY <2>1, <2>2
<1>6. ConnsTypes' BY <1>1, <1>2, <1>3, <1>4, <1>5 DEF ConnsTypes
<1> QED BY <1>1, <1>3, <1>6 DEF ConnsKept, NewConn

\* A panel's login is a new connection, which no filesystem is on.
LEMMA LogInToOpenKeeps ==
  ASSUME IndInv, NEW p \in Panels, NEW s \in Servers, LogInToOpen(p, s)
  PROVE  IndInv'
<1> DEFINE w == [op[p] EXCEPT !.pc = "open", !.lease = NewConn]
<1>1. Types /\ UsersAreCounted /\ Stays BY DEF IndInv
<1>2. op[p].pc = "login" /\ op[p] \in Ways /\ WayFits(op[p], Len(conns), Len(mounts))
        /\ op[p].live \in Live
  BY <1>1, PanelIs DEF LogInToOpen
<1>3. UNCHANGED <<tabOf, mounts, opened, claims, held, rec, jobs, closes, terminals>>
  BY DEF LogInToOpen, Elsewhere, Unmoved
<1>4. /\ ConnsTypes' /\ ConnsKept /\ Len(conns') = Len(conns) + 1 /\ NewConn \in Nat
           /\ NewConn = Len(conns')
  BY <1>1, <1>3, LogInIs DEF LogInToOpen
<1>5. MountsKept /\ MountsGrow /\ RecsKept /\ opened' \in Registries /\ Within(opened', opened)
  BY <1>1, <1>3, KeptIs
<1>6. Len(conns) \in Nat /\ Len(mounts) \in Nat /\ Len(conns') \in Nat /\ Len(mounts') \in Nat
  BY <1>1, <1>3, <1>4, LensAreNat
<1>7. op' = [op EXCEPT ![p] = w] BY DEF LogInToOpen
<1>8. w \in Ways /\ w.pc = "open" /\ w.live = op[p].live /\ w.lease = NewConn
        /\ w.mount = op[p].mount
  BY <1>2, <1>4 DEF Ways, PanelSteps
<1> HIDE DEF w
<1>9. WayFits(w, Len(conns'), Len(mounts'))
  BY <1>2, <1>3, <1>4, <1>6, <1>8 DEF WayFits, Ways, Restarting, Knowing, Bringing
<1>10. OpTypes' /\ op'[p] = w /\ \A q \in Panels \ {p} : op'[q] = op[q]
  BY <1>1, <1>4, <1>5, <1>6, <1>7, <1>9, OpMoves
<1>11. RecTypes' BY <1>1, <1>3, <1>4, <1>5, <1>6, RecKeeps
<1>12. OpenedTypes' /\ OpenedKept /\ FoundKept BY <1>1, <1>4, <1>5, <1>6, OpenedKeeps
<1>13. MountsTypes'
  <2>1. \A m \in 1 .. Len(mounts) : mounts[m].conn \in 1 .. Len(conns')
    BY <1>1, <1>4, <1>6 DEF Types, MountsTypes
  <2> QED BY <1>1, <1>3, <2>1 DEF Types, MountsTypes
<1>14. Types'
  BY <1>1, <1>3, <1>4, <1>10, <1>11, <1>12, <1>13
     DEF Types, TabsTypes, ClaimsTypes, HeldTypes, JobsTypes, ClosesTypes
<1>15. OpsKept BY <1>8, <1>10 DEF OpsKept, Restarting
<1>16. LiveKept BY <1>2, <1>3, <1>8, <1>10 DEF LiveKept, Live
<1>17. Stays' BY <1>1, <1>4, <1>5, <1>12, <1>15, <1>16, AllStay
<1>18. UsersAreCounted'
  <2>1. op[p].pc \notin Bringing \cup {"list"} /\ op'[p].pc \notin Bringing \cup {"list"}
    BY <1>2, <1>8, <1>10 DEF Bringing
  <2>2. \A f \in Fs : UsersOf(opened', f) = UsersOf(opened, f) BY <1>3
  <2> QED BY <1>1, <1>3, <1>10, <1>14, <2>1, <2>2, PanelUncounted
<1> QED BY <1>14, <1>17, <1>18 DEF IndInv

\* A mount's new session is on a connection to its server.
LEMMA ReplacedIs ==
  ASSUME Types, Stays, NEW m \in 1 .. Len(mounts), NEW c \in 1 .. Len(conns),
         mounts' = Replaced(m, c),
         conns' = conns, OpenedKept,
         \A f \in DOMAIN opened : opened[f].mount = m => conns[c] = conns[f]
  PROVE  MountsTypes' /\ Len(mounts') = Len(mounts) /\ OnTheirServers'
<1>1. mounts \in Seq(Sessions) /\ Len(mounts) \in Nat /\ Len(conns) \in Nat
  BY LensAreNat DEF Types, MountsTypes
<1> DEFINE n == [mounts[m] EXCEPT !.conn = c, !.ended = FALSE, !.flag = TRUE]
<1>2. n \in Sessions /\ n.conn = c
  <2>1. mounts[m] \in Sessions /\ c \in Nat BY <1>1
  <2> QED BY <2>1 DEF Sessions
<1>3. mounts' = [mounts EXCEPT ![m] = n] BY DEF Replaced
<1> HIDE DEF n
<1>4. mounts' \in Seq(Sessions) /\ Len(mounts') = Len(mounts)
      /\ \A k \in 1 .. Len(mounts) : mounts'[k] = IF k = m THEN n ELSE mounts[k]
  BY <1>1, <1>2, <1>3
<1>5. MountsTypes' BY <1>2, <1>4 DEF Types, MountsTypes
<1>6. OnTheirServers'
  <2> SUFFICES ASSUME NEW f \in DOMAIN opened'
                 PROVE conns[mounts'[opened'[f].mount].conn] = conns[f]
    BY DEF OnTheirServers
  <2>1. f \in DOMAIN opened /\ opened'[f].mount = opened[f].mount BY DEF OpenedKept
  <2>2. opened[f].mount \in 1 .. Len(mounts) BY <2>1 DEF Types, OpenedTypes
  <2>3. CASE opened[f].mount = m BY <1>2, <1>4, <2>1, <2>2, <2>3
  <2>4. CASE opened[f].mount # m BY <1>4, <2>1, <2>2, <2>4 DEF Stays, OnTheirServers
  <2> QED BY <2>3, <2>4
<1> QED BY <1>4, <1>5, <1>6

\* A panel starts a session again, on the connection it was found on.
LEMMA RestartKeeps ==
  ASSUME IndInv, NEW p \in Panels, Restart(p)
  PROVE  IndInv'
<1> DEFINE w == [op[p] EXCEPT !.pc = "share", !.lease = None]
           m == op[p].mount
           c == op[p].lease
<1>1. Types /\ UsersAreCounted /\ Stays BY DEF IndInv
<1>2. op[p].pc = "restart" /\ op[p] \in Ways /\ WayFits(op[p], Len(conns), Len(mounts))
        /\ op[p].live \in Live
  BY <1>1, PanelIs DEF Restart
<1>3. UNCHANGED <<tabOf, conns, opened, claims, held, rec, jobs, closes, terminals>>
  BY DEF Restart, Elsewhere, Unmoved
<1>4. Len(conns) \in Nat /\ Len(mounts) \in Nat BY <1>1, LensAreNat
<1>5. m \in 1 .. Len(mounts) /\ c \in 1 .. Len(conns)
  BY <1>2, <1>4 DEF WayFits, Ways, Restarting
<1>6. op' = [op EXCEPT ![p] = w] /\ mounts' = Replaced(m, c) BY DEF Restart
<1>7. up' \subseteq up BY HangUpIs DEF Restart
<1>8. w \in Ways /\ w.pc = "share" /\ w.live = op[p].live /\ w.lease = 0 /\ w.mount = m
  BY <1>2 DEF Ways, PanelSteps
<1>9. \A f \in DOMAIN opened : opened[f].mount = m => conns[c] = conns[f]
  BY <1>1, <1>2 DEF Stays, PanelsStay, Restarting
<1> HIDE DEF w, m, c
<1>10. ConnsKept /\ RecsKept /\ opened' \in Registries /\ Within(opened', opened)
  BY <1>1, <1>3, KeptIs
<1>11. OpenedKept BY <1>10 DEF OpenedKept, Within
<1>12. MountsTypes' /\ Len(mounts') = Len(mounts) /\ OnTheirServers'
  BY <1>1, <1>3, <1>5, <1>6, <1>9, <1>11, ReplacedIs
<1>13. MountsGrow /\ Len(conns') \in Nat /\ Len(mounts') \in Nat BY <1>3, <1>4, <1>12 DEF MountsGrow
<1>14. WayFits(w, Len(conns'), Len(mounts'))
  BY <1>2, <1>3, <1>4, <1>8, <1>12 DEF WayFits, Ways, Restarting, Knowing, Bringing, m
<1>15. OpTypes' /\ op'[p] = w /\ \A q \in Panels \ {p} : op'[q] = op[q]
  BY <1>1, <1>6, <1>10, <1>13, <1>14, OpMoves
<1>16. RecTypes' BY <1>1, <1>3, <1>10, <1>13, RecKeeps
<1>17. OpenedTypes' /\ FoundKept BY <1>1, <1>10, <1>13, OpenedKeeps
<1>18. ConnsTypes' BY <1>1, <1>3, <1>7 DEF Types, ConnsTypes
<1>19. Types'
  BY <1>1, <1>3, <1>12, <1>15, <1>16, <1>17, <1>18
     DEF Types, TabsTypes, ClaimsTypes, HeldTypes, JobsTypes, ClosesTypes
<1>20. OpsKept BY <1>8, <1>15 DEF OpsKept, Restarting
<1>21. LiveKept BY <1>2, <1>3, <1>8, <1>15 DEF LiveKept, Live
<1>22. Stays'
  BY <1>1, <1>10, <1>11, <1>12, <1>17, <1>20, <1>21, PlacesStay, FoundStay, OpsStay, RecsStay,
     ApartStay
     DEF Stays
<1>23. UsersAreCounted'
  <2>1. op[p].pc \notin Bringing \cup {"list"} /\ op'[p].pc \notin Bringing \cup {"list"}
    BY <1>2, <1>8, <1>15 DEF Bringing
  <2>2. \A f \in Fs : UsersOf(opened', f) = UsersOf(opened, f) BY <1>3
  <2> QED BY <1>1, <1>3, <1>15, <1>19, <2>1, <2>2, PanelUncounted
<1> QED BY <1>19, <1>22, <1>23 DEF IndInv

\* Opened for the first time, or again: in a mount of its own.
LEMMA OpenedNew ==
  ASSUME Types, Stays, NEW c \in Fs, c \in 1 .. Len(conns), ~IsOpen(c), conns' = conns,
         mounts' = Append(mounts, NewMount(c)),
         opened' = [f \in DOMAIN opened \cup {c} |->
                      IF f = c
                      THEN [mount |-> Len(mounts) + 1, conn |-> c, server |-> conns[c], users |-> 1]
                      ELSE opened[f]]
  PROVE  /\ MountsTypes' /\ OpenedTypes' /\ Len(mounts') = Len(mounts) + 1
         /\ OpenedOn' /\ OneMountEach' /\ OnTheirServers' /\ FoundKept
         /\ \A f \in DOMAIN opened' : opened'[f].mount <= Len(mounts) =>
              f \in DOMAIN opened /\ opened'[f].mount = opened[f].mount
         /\ \A f \in Fs : UsersOf(opened', f) = UsersOf(opened, f) + Bit(f = c)
<1> DEFINE e == [mount |-> Len(mounts) + 1, conn |-> c, server |-> conns[c], users |-> 1]
           d == NewMount(c)
           k == Len(mounts) + 1
<1>1. /\ mounts \in Seq(Sessions) /\ Len(mounts) \in Nat /\ Len(conns) \in Nat
           /\ conns[c] \in Servers
      /\ c \in Nat
  BY LensAreNat DEF Types, MountsTypes, ConnsTypes
<1>2. d \in Sessions /\ d.conn = c BY <1>1 DEF Sessions, NewMount
<1>3. e \in Entries /\ e.mount = k /\ e.conn = c /\ e.server = conns[c] /\ e.users = 1 /\ k \in Nat
  BY <1>1 DEF Entries
<1>4. PICK S \in SUBSET Fs : opened \in [S -> Entries] BY DEF Types, OpenedTypes, Registries
<1>5. c \notin S BY <1>4 DEF IsOpen
<1> HIDE DEF e, d, k
<1>6. mounts' \in Seq(Sessions) /\ Len(mounts') = k /\ mounts'[k] = d
      /\ \A m \in 1 .. Len(mounts) : mounts'[m] = mounts[m]
  BY <1>1, <1>2 DEF d, k
<1>7. opened' = [f \in S \cup {c} |-> IF f = c THEN e ELSE opened[f]]
  BY <1>4 DEF e
<1>8. /\ opened' \in [S \cup {c} -> Entries] /\ opened'[c] = e
      /\ DOMAIN opened' = S \cup {c} /\ DOMAIN opened = S
      /\ \A f \in S : opened'[f] = opened[f]
  BY <1>3, <1>4, <1>5, <1>7
<1>9. opened' \in Registries
  <2>1. S \cup {c} \in SUBSET Fs OBVIOUS
  <2> QED BY <1>8, <2>1 DEF Registries
<1>10. \A f \in S : /\ f \in 1 .. Len(conns) /\ opened[f].conn \in 1 .. Len(conns)
                    /\ opened[f].mount \in 1 .. Len(mounts) /\ opened[f].mount < k
                    /\ mounts'[opened[f].mount] = mounts[opened[f].mount]
  BY <1>1, <1>6, <1>8 DEF Types, OpenedTypes, k
<1>11. k >= 1 /\ k \in 1 .. Len(mounts')
         /\ \A m \in 1 .. Len(mounts') : m = k \/ m \in 1 .. Len(mounts)
  BY <1>1, <1>6 DEF k
<1>12. MountsTypes'
  <2>1. \A m \in 1 .. Len(mounts') : mounts'[m].conn \in 1 .. Len(conns)
    BY <1>2, <1>6, <1>11 DEF Types, MountsTypes
  <2> QED BY <1>6, <2>1 DEF MountsTypes
<1>13. OpenedTypes'
  <2>1. ASSUME NEW f \in S \cup {c}
        PROVE  f \in 1 .. Len(conns) /\ opened'[f].conn \in 1 .. Len(conns)
                 /\ opened'[f].mount \in 1 .. Len(mounts')
    <3>1. CASE f = c BY <1>3, <1>8, <1>11, <3>1
    <3>2. CASE f # c
      <4>1. f \in S /\ opened'[f] = opened[f] BY <1>8, <3>2
      <4>2. 1 .. Len(mounts) \subseteq 1 .. Len(mounts') BY <1>1, <1>6 DEF k
      <4> QED BY <1>10, <4>1, <4>2
    <3> QED BY <3>1, <3>2
  <2> QED BY <1>8, <1>9, <2>1 DEF OpenedTypes
<1>14. OpenedOn' BY <1>3, <1>8 DEF OpenedOn, Stays
<1>15. \A f \in S : opened[f].mount # k BY <1>1, <1>10 DEF k
<1>16. OneMountEach'
  <2> SUFFICES ASSUME NEW f \in S \cup {c}, NEW g \in S \cup {c},
               opened'[f].mount = opened'[g].mount
               PROVE  f = g
    BY <1>8 DEF OneMountEach
  <2>1. opened'[c].mount = k /\ \A h \in S : opened'[h].mount = opened[h].mount
          /\ opened[h].mount # k
    BY <1>3, <1>8, <1>15
  <2>2. CASE f = c \/ g = c BY <2>1, <2>2
  <2>3. CASE f \in S /\ g \in S BY <1>8, <2>1, <2>3 DEF OneMountEach, Stays
  <2> QED BY <2>2, <2>3
<1>17. OnTheirServers'
  <2> SUFFICES ASSUME NEW f \in S \cup {c} PROVE conns[mounts'[opened'[f].mount].conn] = conns[f]
    BY <1>8 DEF OnTheirServers
  <2>1. CASE f = c BY <1>2, <1>3, <1>6, <1>8, <2>1
  <2>2. CASE f # c BY <1>8, <1>10, <2>2 DEF Stays, OnTheirServers
  <2> QED BY <2>1, <2>2
<1>18. FoundKept BY <1>3, <1>8 DEF FoundKept
<1>19. \A f \in DOMAIN opened' : opened'[f].mount <= Len(mounts) =>
              f \in DOMAIN opened /\ opened'[f].mount = opened[f].mount
  <2>1. ~(k <= Len(mounts)) BY <1>1 DEF k
  <2> QED BY <1>3, <1>8, <2>1
<1>20. ASSUME NEW f \in Fs PROVE UsersOf(opened', f) = UsersOf(opened, f) + Bit(f = c)
  <2>1. CASE f = c BY <1>3, <1>5, <1>8, <2>1 DEF UsersOf, Bit
  <2>2. CASE f # c /\ f \in S BY <1>4, <1>8, <2>2 DEF UsersOf, Bit, Entries
  <2>3. CASE f # c /\ f \notin S BY <1>8, <2>3 DEF UsersOf, Bit
  <2> QED BY <2>1, <2>2, <2>3
<1>21. Len(mounts') = Len(mounts) + 1 BY <1>6 DEF k
<1> QED BY <1>12, <1>13, <1>14, <1>16, <1>17, <1>18, <1>19, <1>20, <1>21

\* Opened already: the session is on the same server.
LEMMA OpenedJoined ==
  ASSUME Types, Stays, NEW c \in Fs, c \in 1 .. Len(conns), IsOpen(c), conns' = conns,
         \/ /\ mounts' = Replaced(MountOf(c), c)
            /\ opened' = [opened EXCEPT ![c].users = @ + 1, ![c].conn = c]
         \/ mounts' = mounts /\ opened' = Retained(c)
  PROVE  /\ MountsTypes' /\ OpenedTypes' /\ Len(mounts') = Len(mounts)
         /\ OpenedOn' /\ OneMountEach' /\ OnTheirServers' /\ FoundKept /\ OpenedKept
         /\ \A f \in Fs : UsersOf(opened', f) = UsersOf(opened, f) + Bit(f = c)
<1>1. Len(mounts) \in Nat /\ Len(conns) \in Nat BY LensAreNat
<1>2. c \in DOMAIN opened /\ opened[c].mount \in 1 .. Len(mounts)
  BY DEF IsOpen, Types, OpenedTypes
<1>3. ConnsKept BY KeptIs
<1>4. CASE mounts' = mounts /\ opened' = Retained(c)
  <2>1. /\ opened' \in Registries /\ Within(opened', opened)
        /\ \A f \in Fs : UsersOf(opened', f) = UsersOf(opened, f) + Bit(f = c)
    BY <1>4, RetainedIs DEF Types, OpenedTypes
  <2>2. MountsKept /\ MountsGrow BY <1>4, KeptIs
  <2>3. OpenedTypes' /\ OpenedKept /\ FoundKept BY <1>1, <1>3, <1>4, <2>1, <2>2, OpenedKeeps
  <2>4. OpenedOn' /\ OneMountEach' /\ OnTheirServers'
    BY <1>3, <2>2, <2>3, PlacesStay, ServersStay DEF Stays
  <2>5. MountsTypes' BY <1>4 DEF Types, MountsTypes
  <2> QED BY <1>4, <2>1, <2>3, <2>4, <2>5
<1>5. CASE /\ mounts' = Replaced(MountOf(c), c)
           /\ opened' = [opened EXCEPT ![c].users = @ + 1, ![c].conn = c]
  <2> DEFINE e == [opened[c] EXCEPT !.users = @ + 1, !.conn = c]
  <2>1. PICK S \in SUBSET Fs : opened \in [S -> Entries] BY DEF Types, OpenedTypes, Registries
  <2>2. c \in S /\ opened[c] \in Entries /\ DOMAIN opened = S BY <1>2, <2>1
  <2>3. /\ e \in Entries /\ e.mount = opened[c].mount /\ e.server = opened[c].server
        /\ e.conn = c /\ e.users = opened[c].users + 1
    <3>1. c \in Nat BY <1>1
    <3> DEFINE r == opened[c]
               n == r.users + 1
    <3>2. r \in Entries /\ n \in Nat \ {0} BY <2>2 DEF Entries
    <3>3. e = [r EXCEPT !.users = n, !.conn = c] OBVIOUS
    <3> HIDE DEF r, e, n
    <3>4. e \in Entries /\ e.mount = r.mount /\ e.server = r.server /\ e.conn = c /\ e.users = n
      BY <3>1, <3>2, <3>3 DEF Entries
    <3> QED BY <3>4 DEF r, n
  <2>4. opened' = [opened EXCEPT ![c] = e] BY <1>5
  <2> HIDE DEF e
  <2>5. /\ opened' \in [S -> Entries] /\ DOMAIN opened' = S /\ opened'[c] = e
        /\ \A f \in S : f # c => opened'[f] = opened[f]
    BY <2>1, <2>2, <2>3, <2>4
  <2>6. opened' \in Registries BY <2>5 DEF Registries
  <2>7. OpenedKept BY <2>2, <2>3, <2>5 DEF OpenedKept
  <2>8. FoundKept BY <2>2, <2>3, <2>5 DEF FoundKept
  <2>9. \A f \in DOMAIN opened : opened[f].mount = opened[c].mount => conns[c] = conns[f]
    BY <1>2 DEF Stays, OneMountEach
  <2>10. MountsTypes' /\ Len(mounts') = Len(mounts) /\ OnTheirServers'
    BY <1>2, <1>5, <2>7, <2>9, ReplacedIs DEF MountOf
  <2>11. OpenedTypes'
    <3>1. \A f \in S : /\ f \in 1 .. Len(conns) /\ opened[f].conn \in 1 .. Len(conns)
                       /\ opened[f].mount \in 1 .. Len(mounts)
      BY <2>2 DEF Types, OpenedTypes
    <3>2. \A f \in S : /\ f \in 1 .. Len(conns) /\ opened'[f].conn \in 1 .. Len(conns)
                       /\ opened'[f].mount \in 1 .. Len(mounts)
      BY <2>2, <2>3, <2>5, <3>1
    <3> QED BY <2>5, <2>6, <2>10, <3>2 DEF OpenedTypes
  <2>12. OpenedOn' /\ OneMountEach' BY <1>3, <2>7, PlacesStay DEF Stays
  <2>13. ASSUME NEW f \in Fs PROVE UsersOf(opened', f) = UsersOf(opened, f) + Bit(f = c)
    <3>1. CASE f = c BY <2>2, <2>3, <2>5, <3>1 DEF UsersOf, Bit
    <3>2. CASE f # c /\ f \in S BY <2>1, <2>2, <2>5, <3>2 DEF UsersOf, Bit, Entries
    <3>3. CASE f # c /\ f \notin S BY <2>2, <2>5, <3>3 DEF UsersOf, Bit
    <3> QED BY <3>1, <3>2, <3>3
  <2> QED BY <2>7, <2>8, <2>10, <2>11, <2>12, <2>13
<1> QED BY <1>4, <1>5

\* The session of a panel: a new filesystem, or one user more of the open one.
LEMMA OpenKeeps ==
  ASSUME IndInv, NEW p \in Panels, Open(p)
  PROVE  IndInv'
<1> DEFINE c == op[p].lease
           t == tabOf[p]
           m == IF IsOpen(c) THEN MountOf(c) ELSE Len(mounts) + 1
           w == [op[p] EXCEPT !.pc = "view", !.fs = c, !.mount = m, !.lease = None]
<1>1. Types /\ UsersAreCounted /\ Stays BY DEF IndInv
<1>2. /\ op[p].pc = "open" /\ op[p] \in Ways /\ WayFits(op[p], Len(conns), Len(mounts))
           /\ op[p].live \in Live
      /\ t \in Tabs /\ claims[t] \in TabsClaims
  BY <1>1, PanelIs DEF Open
<1>3. UNCHANGED <<tabOf, conns, claims, held, rec, jobs, closes, terminals>>
  BY DEF Open, Elsewhere, Unmoved
<1>4. Len(conns) \in Nat /\ Len(mounts) \in Nat BY <1>1, LensAreNat
<1>5. c \in 1 .. Len(conns) /\ c \in Fs
  BY <1>1, <1>4 DEF Open, StartSession, Types, ConnsTypes, SessionsAssumption
<1>6. op' = [op EXCEPT ![p] = w] BY DEF Open
<1>7. up' \subseteq up BY HangUpIs DEF Open
<1>8. /\ MountsTypes' /\ OpenedTypes' /\ Len(mounts') \in Nat /\ Len(mounts) <= Len(mounts')
      /\ OpenedOn' /\ OneMountEach' /\ OnTheirServers' /\ FoundKept
      /\ m \in 1 .. Len(mounts')
      /\ \A f \in DOMAIN opened' : opened'[f].mount <= Len(mounts) =>
           f \in DOMAIN opened /\ opened'[f].mount = opened[f].mount
      /\ \A f \in Fs : UsersOf(opened', f) = UsersOf(opened, f) + Bit(f = c)
  <2>1. CASE IsOpen(c)
    <3>1. \/ /\ mounts' = Replaced(MountOf(c), c)
             /\ opened' = [opened EXCEPT ![c].users = @ + 1, ![c].conn = c]
          \/ mounts' = mounts /\ opened' = Retained(c)
      BY <2>1 DEF Open
    <3>2. MountOf(c) \in 1 .. Len(mounts) BY <1>1, <2>1 DEF IsOpen, MountOf, Types, OpenedTypes
    <3>3. m = MountOf(c) BY <2>1
    <3> HIDE DEF c, m
    <3>4. /\ MountsTypes' /\ OpenedTypes' /\ Len(mounts') = Len(mounts)
          /\ OpenedOn' /\ OneMountEach' /\ OnTheirServers' /\ FoundKept /\ OpenedKept
          /\ \A f \in Fs : UsersOf(opened', f) = UsersOf(opened, f) + Bit(f = c)
      BY <1>1, <1>3, <1>5, <2>1, <3>1, OpenedJoined
    <3> QED BY <1>4, <3>2, <3>3, <3>4 DEF OpenedKept
  <2>2. CASE ~IsOpen(c)
    <3>1. /\ mounts' = Append(mounts, NewMount(c))
          /\ opened' = [f \in DOMAIN opened \cup {c} |->
                IF f = c
                THEN [mount |-> Len(mounts) + 1, conn |-> c, server |-> conns[c], users |-> 1]
                ELSE opened[f]]
      BY <2>2 DEF Open
    <3>3. m = Len(mounts) + 1 BY <2>2
    <3> HIDE DEF c, m
    <3>4. /\ MountsTypes' /\ OpenedTypes' /\ Len(mounts') = Len(mounts) + 1
          /\ OpenedOn' /\ OneMountEach' /\ OnTheirServers' /\ FoundKept
          /\ \A f \in DOMAIN opened' : opened'[f].mount <= Len(mounts) =>
               f \in DOMAIN opened /\ opened'[f].mount = opened[f].mount
          /\ \A f \in Fs : UsersOf(opened', f) = UsersOf(opened, f) + Bit(f = c)
      BY <1>1, <1>3, <1>5, <2>2, <3>1, OpenedNew
    <3>5. m \in 1 .. Len(mounts') /\ Len(mounts') \in Nat /\ Len(mounts) <= Len(mounts')
      BY <1>4, <3>3, <3>4
    <3> QED BY <3>4, <3>5
  <2> QED BY <2>1, <2>2
<1> HIDE DEF m
<1>9. w \in Ways /\ w.pc = "view" /\ w.fs = c /\ w.live = op[p].live /\ w.lease = 0 /\ w.mount = m
  <2>1. m \in Nat BY <1>8
  <2> QED BY <1>2, <1>5, <2>1 DEF Ways, PanelSteps
<1> HIDE DEF w, c, t
<1>10. ConnsKept /\ RecsKept BY <1>1, <1>3, KeptIs
<1>11. MountsGrow /\ Len(conns') \in Nat BY <1>3, <1>4, <1>8 DEF MountsGrow
<1>12. WayFits(w, Len(conns'), Len(mounts'))
  <2>1. m <= Len(mounts') /\ w.live <= Len(conns) BY <1>2, <1>8, <1>9 DEF WayFits
  <2> QED BY <1>3, <1>4, <1>5, <1>9, <2>1 DEF WayFits, Restarting, Knowing, Bringing
<1>13. OpTypes' /\ op'[p] = w /\ \A q \in Panels \ {p} : op'[q] = op[q]
  BY <1>1, <1>6, <1>8, <1>10, <1>11, <1>12, OpMoves
<1>14. RecTypes' BY <1>1, <1>3, <1>8, <1>10, <1>11, RecKeeps
<1>15. ConnsTypes' BY <1>1, <1>3, <1>7 DEF Types, ConnsTypes
<1>16. Types'
  BY <1>1, <1>3, <1>8, <1>13, <1>14, <1>15
     DEF Types, TabsTypes, ClaimsTypes, HeldTypes, JobsTypes, ClosesTypes
<1>17. LiveKept BY <1>2, <1>3, <1>9, <1>13 DEF LiveKept, Live
<1>18. PanelsStay'
  <2> SUFFICES ASSUME NEW q \in Panels, op'[q].pc \in Restarting, NEW f \in DOMAIN opened',
                      opened'[f].mount = op'[q].mount
               PROVE  conns[op'[q].lease] = conns[f]
    BY <1>3 DEF PanelsStay
  <2>1. q # p BY <1>9, <1>13 DEF Restarting
  <2>2. op'[q] = op[q] /\ op[q].mount <= Len(mounts)
    BY <1>1, <1>13, <2>1 DEF Types, OpTypes, WayFits
  <2>3. f \in DOMAIN opened /\ opened[f].mount = op[q].mount BY <1>8, <2>2
  <2> QED BY <1>1, <2>2, <2>3 DEF Stays, PanelsStay
<1>19. ReconnectsStay'
  <2> SUFFICES ASSUME NEW u \in Tabs, rec[u].pc # "idle", NEW f \in DOMAIN opened',
                      opened'[f].mount = rec[u].mount
               PROVE  f = rec[u].fs /\ (rec[u].pc = "restart" => conns[rec[u].lease] = conns[f])
    BY <1>3 DEF ReconnectsStay
  <2>1. rec[u].mount <= Len(mounts) BY <1>1 DEF Types, RecTypes, BackFits
  <2>2. f \in DOMAIN opened /\ opened[f].mount = rec[u].mount BY <1>8, <2>1
  <2> QED BY <1>1, <2>2 DEF Stays, ReconnectsStay
<1>20. Stays'
  BY <1>1, <1>8, <1>10, <1>17, <1>18, <1>19, FoundStay, ApartStay DEF Stays
<1>21. ASSUME NEW f \in Fs
       PROVE  /\ Claimed(claims'[t], f) + Bit(held[p] = f) + Bit(Lists(op[p], f))
                  = Claimed(claims[t], f) + Bit(held'[p] = f) + Bit(Lists(op'[p], f))
              /\ UsersOf(opened', f) + Bit(Holds(claims[t], f)) + Bit(Brings(op[p], f)) + closes[f]
                  = UsersOf(opened, f) + Bit(Holds(claims'[t], f)) + Bit(Brings(op'[p], f))
                    + closes'[f]
  <2>1. ~Lists(op[p], f) /\ ~Lists(w, f) BY <1>2, <1>9 DEF Lists
  <2>2. ~Brings(op[p], f) /\ (Brings(w, f) <=> f = c) BY <1>2, <1>9 DEF Brings, Bringing
  <2>3. UsersOf(opened, f) \in Nat /\ closes[f] \in Nat
    BY <1>1, UsersAre DEF Types, OpenedTypes, ClosesTypes
  <2>4. claims' = claims /\ held' = held /\ closes' = closes /\ op'[p] = w BY <1>3, <1>13
  <2>5. UsersOf(opened', f) = UsersOf(opened, f) + Bit(f = c) BY <1>8
  <2>6. Bit(Brings(w, f)) = Bit(f = c) /\ Bit(Brings(op[p], f)) = 0
        /\ Bit(Lists(op[p], f)) = Bit(Lists(w, f))
    BY <2>1, <2>2 DEF Bit
  <2>7. Bit(f = c) \in Nat /\ Bit(Holds(claims[t], f)) \in Nat BY DEF Bit
  <2> QED BY <2>3, <2>4, <2>5, <2>6, <2>7
<1>22. UsersAreCounted'
  <2>1. t = tabOf[p] /\ claims' = claims /\ held' = held BY <1>3 DEF t
  <2> QED BY <1>1, <1>3, <1>13, <1>16, <1>21, <2>1, PanelBalances
<1> QED BY <1>16, <1>20, <1>22 DEF IndInv

-----------------------------------------------------------------------------
(* The steps of tabs, calls, jobs and of the world. *)

\* A step that makes no connection and moves no session to another one keeps the
\* types and the servers.
LEMMA QuietOther ==
  ASSUME IndInv, UNCHANGED <<tabOf, conns, op>>, terminals' \subseteq terminals, up' \subseteq up,
         MountsTypes', MountsKept, Len(mounts') = Len(mounts), RecTypes', RecsKept,
         opened' \in Registries, Within(opened', opened),
         ClaimsTypes', HeldTypes', JobsTypes', ClosesTypes'
  PROVE  Types' /\ Stays'
<1>1. Types /\ Stays BY DEF IndInv
<1>2. ConnsKept /\ OpsKept /\ LiveKept /\ MountsGrow BY <1>1, KeptIs DEF MountsKept
<1>3. Len(conns') \in Nat /\ Len(mounts') \in Nat BY <1>1, LensAreNat
<1>4. OpTypes' BY <1>1, <1>2, <1>3, OpKeeps
<1>5. OpenedTypes' /\ OpenedKept /\ FoundKept BY <1>1, <1>2, <1>3, OpenedKeeps
<1>6. ConnsTypes' /\ TabsTypes' BY <1>1 DEF Types, ConnsTypes, TabsTypes
<1>7. Types' BY <1>4, <1>5, <1>6 DEF Types
<1>8. Stays' BY <1>1, <1>2, <1>5, AllStay
<1> QED BY <1>7, <1>8

\* What did not change is as it was.
LEMMA SameTypes ==
  ASSUME IndInv
  PROVE  /\ mounts' = mounts /\ conns' = conns => MountsTypes' /\ MountsKept
              /\ Len(mounts') = Len(mounts)
         /\ rec' = rec /\ conns' = conns /\ Len(mounts') = Len(mounts) => RecTypes' /\ RecsKept
         /\ opened' = opened => opened' \in Registries /\ Within(opened', opened)
         /\ claims' = claims => ClaimsTypes'
         /\ held' = held => HeldTypes'
         /\ jobs' = jobs => JobsTypes'
         /\ closes' = closes => ClosesTypes'
<1>1. Types BY DEF IndInv
<1>2. mounts' = mounts /\ conns' = conns => MountsTypes' /\ MountsKept /\ Len(mounts') = Len(mounts)
  BY <1>1, KeptIs DEF Types, MountsTypes
<1>3. rec' = rec /\ conns' = conns /\ Len(mounts') = Len(mounts) => RecTypes' /\ RecsKept
  BY <1>1, KeptIs DEF Types, RecTypes
<1>4. opened' = opened => opened' \in Registries /\ Within(opened', opened) BY <1>1, KeptIs
<1> QED BY <1>1, <1>2, <1>3, <1>4 DEF Types, ClaimsTypes, HeldTypes, JobsTypes, ClosesTypes

\* The tab's claims become calls on their way.
LEMMA CloseTabKeeps ==
  ASSUME IndInv, NEW t \in Tabs, CloseTab(t)
  PROVE  IndInv'
<1>1. Types /\ UsersAreCounted BY DEF IndInv
<1>2. UNCHANGED <<tabOf, terminals, conns, up, mounts, opened, op, rec, jobs>>
  BY DEF CloseTab, Unmoved
<1>3. claims' = [claims EXCEPT ![t] = Disposed(claims[t])] BY DEF CloseTab
<1>4. claims \in [Tabs -> TabsClaims] /\ DOMAIN claims = Tabs BY <1>1 DEF Types, ClaimsTypes
<1>5. /\ claims'[t] = Disposed(claims[t]) /\ \A u \in Tabs \ {t} : claims'[u] = claims[u]
  BY <1>3, <1>4
<1>6. /\ ClaimsFit(claims'[t]) /\ claims'[t].disposed /\ \A f : ~Holds(claims'[t], f)
  BY <1>5, DisposedIs
<1>7. ClaimsTypes'
  BY <1>1, <1>3, <1>4, <1>5, <1>6 DEF Types, ClaimsTypes, ClaimsFit
<1>8. HeldTypes' /\ \A p \in Panels : tabOf[p] # t => held'[p] = held[p]
  BY <1>1 DEF CloseTab, Types, HeldTypes
<1>9. closes \in [Fs -> Nat] BY <1>1 DEF Types, ClosesTypes
<1>10. closes' = [f \in Fs |-> IF Holds(claims[t], f) THEN closes[f] + 1 ELSE closes[f]]
  BY DEF CloseTab
<1>11. ClosesTypes' BY <1>9, <1>10 DEF ClosesTypes
<1>12. \A f \in Fs : closes'[f] = closes[f] + Bit(Holds(claims[t], f)) BY <1>9, <1>10 DEF Bit
<1>13. Types' /\ Stays' BY <1>2, <1>7, <1>8, <1>11, QuietOther, SameTypes
<1>14. UsersAreCounted' BY <1>1, <1>2, <1>5, <1>6, <1>8, <1>12, <1>13, TabBalances
<1> QED BY <1>13, <1>14 DEF IndInv

\* sftp_close: a user fewer.
LEMMA CloseKeeps ==
  ASSUME IndInv, NEW fs \in Fs, Close(fs)
  PROVE  IndInv'
<1>1. Types /\ UsersAreCounted BY DEF IndInv
<1>2. UNCHANGED <<tabOf, terminals, conns, mounts, claims, held, op, rec, jobs>>
  BY DEF Close, Elsewhere, Unmoved
<1>3. up' \subseteq up BY HangUpIs DEF Close
<1>4. closes \in [Fs -> Nat] BY <1>1 DEF Types, ClosesTypes
<1>5. closes[fs] > 0 /\ closes' = [closes EXCEPT ![fs] = @ - 1] /\ opened' = Released(fs)
  BY DEF Close
<1>6. IsOpen(fs) BY <1>1, <1>5, CallIsCounted
<1>7. /\ opened' \in Registries /\ Within(opened', opened)
      /\ \A f \in Fs : UsersOf(opened', f) = UsersOf(opened, f) - Bit(f = fs)
  BY <1>1, <1>5, <1>6, ReleasedIs DEF Types, OpenedTypes
<1>8. ClosesTypes' /\ \A f \in Fs : closes'[f] = closes[f] - Bit(f = fs)
  BY <1>4, <1>5 DEF ClosesTypes, Bit
<1>9. Types' /\ Stays' BY <1>2, <1>3, <1>7, <1>8, QuietOther, SameTypes
<1>10. ASSUME NEW f \in Fs PROVE UsersOf(opened', f) + closes[f] = UsersOf(opened, f) + closes'[f]
  <2>1. UsersOf(opened, f) \in Nat /\ closes[f] \in Nat
    BY <1>1, UsersAre DEF Types, OpenedTypes, ClosesTypes
  <2>2. Bit(f = fs) \in Nat BY DEF Bit
  <2> QED BY <1>7, <1>8, <2>1, <2>2
<1>11. UsersAreCounted' BY <1>1, <1>2, <1>9, <1>10, CallBalances
<1> QED BY <1>9, <1>11 DEF IndInv

\* A step after which all that is counted is as it was.
LEMMA NothingCounted ==
  ASSUME IndInv, Types', UNCHANGED <<tabOf, op, held, claims, jobs, closes>>,
         \A f \in Fs : UsersOf(opened', f) = UsersOf(opened, f)
  PROVE  UsersAreCounted'
<1>1. Types /\ UsersAreCounted BY DEF IndInv
<1> QED BY <1>1, CallBalances

-----------------------------------------------------------------------------
(* Reconnects. *)

\* A tab that asks for no reconnect.
LEMMA NoBack ==
  ASSUME Types
  PROVE  BackFits(Idle, Len(conns), Len(mounts)) /\ Idle.pc = "idle"
BY LensAreNat DEF BackFits, Backs, Idle, RecSteps

\* A reconnect's step that changes no session.
LEMMA QuietReconnect ==
  ASSUME IndInv, NEW t \in Tabs, NEW b, rec' = [rec EXCEPT ![t] = b],
         BackFits(b, Len(conns), Len(mounts)), b.pc \notin {"restart", "record"},
         b.pc # "idle" => rec[t].pc # "idle" /\ b.mount = rec[t].mount /\ b.fs = rec[t].fs,
         UNCHANGED <<tabOf, terminals, conns, mounts, opened, claims, held, op, jobs, closes>>,
         up' \subseteq up
  PROVE  IndInv'
<1>1. Types BY DEF IndInv
<1>2. Len(conns') \in Nat /\ Len(mounts') \in Nat /\ ConnsKept /\ MountsGrow
  BY <1>1, LensAreNat, KeptIs
<1>3. RecTypes' /\ rec'[t] = b /\ \A u \in Tabs \ {t} : rec'[u] = rec[u]
  BY <1>1, <1>2, RecMoves
<1>4. RecsKept BY <1>3 DEF RecsKept
<1>5. Types' /\ Stays' BY <1>3, <1>4, QuietOther, SameTypes
<1>6. UsersAreCounted' BY <1>5, NothingCounted
<1> QED BY <1>5, <1>6 DEF IndInv

\* The types, for one tab's reconnect.
LEMMA BackIs ==
  ASSUME Types, NEW t \in Tabs
  PROVE  rec[t] \in Backs /\ BackFits(rec[t], Len(conns), Len(mounts))
BY DEF Types, RecTypes

\* The lock is got: the mount is connected already, or a login is asked for.
LEMMA ReconnectLockKeeps ==
  ASSUME IndInv, NEW t \in Tabs, ReconnectLock(t)
  PROVE  IndInv'
<1>1. Types BY DEF IndInv
<1>2. rec[t] \in Backs /\ BackFits(rec[t], Len(conns), Len(mounts)) /\ rec[t].pc = "lock"
  BY <1>1, BackIs DEF ReconnectLock
<1>3. up' \subseteq up BY HangUpIs DEF ReconnectLock
<1>4. UNCHANGED <<tabOf, terminals, conns, mounts, opened, claims, held, op, jobs, closes>>
  BY DEF ReconnectLock, Elsewhere, Unmoved
<1>5. CASE rec' = [rec EXCEPT ![t] = Idle] BY <1>1, <1>3, <1>4, <1>5, NoBack, QuietReconnect
<1>6. CASE rec' = [rec EXCEPT ![t].pc = "login"]
  <2> DEFINE b == [rec[t] EXCEPT !.pc = "login"]
  <2>1. /\ b \in Backs /\ b.pc = "login" /\ b.mount = rec[t].mount /\ b.fs = rec[t].fs
        /\ b.live = rec[t].live /\ b.lease = rec[t].lease
    BY <1>2 DEF Backs, RecSteps
  <2>2. rec' = [rec EXCEPT ![t] = b] BY <1>6
  <2> HIDE DEF b
  <2>3. BackFits(b, Len(conns), Len(mounts)) BY <1>2, <2>1 DEF BackFits
  <2> QED BY <1>2, <1>3, <1>4, <2>1, <2>2, <2>3, QuietReconnect
<1> QED BY <1>5, <1>6 DEF ReconnectLock, RDone, RStep

\* A reconnect that gives up holds nothing.
LEMMA ReconnectFailsKeeps ==
  ASSUME IndInv, NEW t \in Tabs, ReconnectFails(t)
  PROVE  IndInv'
<1>1. Types BY DEF IndInv
<1>2. up' \subseteq up BY HangUpIs DEF ReconnectFails
<1>3. UNCHANGED <<tabOf, terminals, conns, mounts, opened, claims, held, op, jobs, closes>>
  BY DEF ReconnectFails, Elsewhere, Unmoved
<1>4. rec' = [rec EXCEPT ![t] = Idle] BY DEF ReconnectFails, RDone
<1> QED BY <1>1, <1>2, <1>3, <1>4, NoBack, QuietReconnect

\* Asked for a filesystem that is open: no other is on its mount.
LEMMA ReconnectKeeps ==
  ASSUME IndInv, NEW t \in Tabs, NEW fs \in Fs, Reconnect(t, fs)
  PROVE  IndInv'
<1> DEFINE b == [Idle EXCEPT !.pc = "lock", !.fs = fs, !.mount = MountOf(fs)]
<1>1. Types /\ Stays BY DEF IndInv
<1>2. UNCHANGED <<tabOf, terminals, conns, up, mounts, opened, claims, held, op, jobs, closes>>
  BY DEF Reconnect, Unmoved
<1>3. fs \in DOMAIN opened /\ MountOf(fs) = opened[fs].mount
        /\ opened[fs].mount \in 1 .. Len(mounts)
  BY <1>1 DEF Reconnect, IsOpen, MountOf, Types, OpenedTypes
<1>4. MountOf(fs) \in Nat /\ MountOf(fs) >= 1 /\ MountOf(fs) <= Len(mounts)
  BY <1>1, <1>3, LensAreNat
<1>5. b \in Backs /\ b.pc = "lock" /\ b.fs = fs /\ b.mount = MountOf(fs) /\ b.live = 0
        /\ b.lease = 0
  BY <1>4 DEF Backs, Idle, RecSteps
<1>6. rec' = [rec EXCEPT ![t] = b] BY DEF Reconnect
<1> HIDE DEF b
<1>7. BackFits(b, Len(conns), Len(mounts)) BY <1>1, <1>4, <1>5, LensAreNat DEF BackFits
<1>8. Len(conns') \in Nat /\ Len(mounts') \in Nat /\ ConnsKept /\ MountsGrow /\ OpsKept /\ LiveKept
  BY <1>1, <1>2, LensAreNat, KeptIs
<1>9. RecTypes' /\ rec'[t] = b /\ \A u \in Tabs \ {t} : rec'[u] = rec[u]
  BY <1>1, <1>2, <1>6, <1>7, <1>8, RecMoves
<1>10. Types'
  BY <1>1, <1>2, <1>9 DEF Types, TabsTypes, ConnsTypes, MountsTypes, OpenedTypes, ClaimsTypes,
                          HeldTypes, OpTypes, JobsTypes, ClosesTypes
<1>11. ReconnectsStay'
  <2> SUFFICES ASSUME NEW u \in Tabs, rec'[u].pc # "idle", NEW f \in DOMAIN opened,
                      opened[f].mount = rec'[u].mount
               PROVE  f = rec'[u].fs /\ (rec'[u].pc = "restart" => conns[rec'[u].lease] = conns[f])
    BY <1>2 DEF ReconnectsStay
  <2>1. CASE u = t
    <3>1. opened[f].mount = opened[fs].mount BY <1>3, <1>5, <1>9, <2>1
    <3>2. f = fs BY <1>1, <1>3, <3>1 DEF Stays, OneMountEach
    <3> QED BY <1>5, <1>9, <2>1, <3>2
  <2>2. CASE u # t BY <1>1, <1>9, <2>2 DEF Stays, ReconnectsStay
  <2> QED BY <2>1, <2>2
<1>12. ReconnectsApart'
  BY <1>1, <1>2, <1>5, <1>9 DEF Stays, ReconnectsApart, Live
<1>13. Stays'
  BY <1>1, <1>2, <1>11, <1>12 DEF Stays, OpenedOn, OneMountEach, OnTheirServers, FoundOnTheirs,
     PanelsStay, Live
<1>14. UsersAreCounted' BY <1>2, <1>10, NothingCounted
<1> QED BY <1>10, <1>13, <1>14 DEF IndInv

\* A connection that somebody looks on was made before.
LEMMA LiveIsOld ==
  ASSUME Types, NEW c \in Live
  PROVE  c <= Len(conns)
BY LensAreNat DEF Live, Types, OpTypes, WayFits, ConnsTypes

\* A login for a reconnect: to the filesystem's server, while it is open.
LEMMA LogInAgainKeeps ==
  ASSUME IndInv, NEW t \in Tabs, NEW s \in Servers, LogInAgain(t, s)
  PROVE  IndInv'
<1> DEFINE b == [rec[t] EXCEPT !.pc = "restart", !.lease = NewConn]
<1>1. Types /\ Stays BY DEF IndInv
<1>2. rec[t].pc = "login" /\ rec[t] \in Backs /\ BackFits(rec[t], Len(conns), Len(mounts))
  BY <1>1, BackIs DEF LogInAgain
<1>3. UNCHANGED <<tabOf, mounts, opened, claims, held, op, jobs, closes, terminals>>
  BY DEF LogInAgain, Elsewhere, Unmoved
<1>4. /\ ConnsTypes' /\ ConnsKept /\ Len(conns') = Len(conns) + 1 /\ conns'[NewConn] = s
      /\ NewConn \in Nat /\ NewConn = Len(conns')
  BY <1>1, <1>3, LogInIs DEF LogInAgain
<1>5. /\ MountsKept /\ MountsGrow /\ OpsKept /\ LiveKept
      /\ opened' \in Registries /\ Within(opened', opened)
  BY <1>1, <1>3, KeptIs
<1>6. Len(conns) \in Nat /\ Len(mounts) \in Nat /\ Len(conns') \in Nat /\ Len(mounts') \in Nat
  BY <1>1, <1>3, <1>4, LensAreNat
<1>7. rec' = [rec EXCEPT ![t] = b] BY DEF LogInAgain
<1>8. b \in Backs /\ b.pc = "restart" /\ b.live = rec[t].live /\ b.lease = NewConn
      /\ b.mount = rec[t].mount /\ b.fs = rec[t].fs
  BY <1>2, <1>4 DEF Backs, RecSteps
<1> HIDE DEF b
<1>9. BackFits(b, Len(conns'), Len(mounts'))
  BY <1>2, <1>3, <1>4, <1>6, <1>8 DEF BackFits, Backs
<1>10. RecTypes' /\ rec'[t] = b /\ \A u \in Tabs \ {t} : rec'[u] = rec[u]
  BY <1>1, <1>4, <1>5, <1>6, <1>7, <1>9, RecMoves
<1>11. OpTypes' BY <1>1, <1>3, <1>4, <1>5, <1>6, OpKeeps
<1>12. OpenedTypes' /\ OpenedKept /\ FoundKept BY <1>1, <1>4, <1>5, <1>6, OpenedKeeps
<1>13. MountsTypes'
  <2>1. \A m \in 1 .. Len(mounts) : mounts[m].conn \in 1 .. Len(conns')
    BY <1>1, <1>4, <1>6 DEF Types, MountsTypes
  <2> QED BY <1>1, <1>3, <2>1 DEF Types, MountsTypes
<1>14. Types'
  BY <1>1, <1>3, <1>4, <1>10, <1>11, <1>12, <1>13
     DEF Types, TabsTypes, ClaimsTypes, HeldTypes, JobsTypes, ClosesTypes
<1>15. \A f \in DOMAIN opened : f \in 1 .. Len(conns) /\ conns'[f] = conns[f]
  BY <1>1, <1>4 DEF Types, OpenedTypes, ConnsKept
<1>16. ReconnectsStay'
  <2> SUFFICES ASSUME NEW u \in Tabs, rec'[u].pc # "idle", NEW f \in DOMAIN opened,
                      opened[f].mount = rec'[u].mount
               PROVE  f = rec'[u].fs /\ (rec'[u].pc = "restart"
                        => conns'[rec'[u].lease] = conns'[f])
    BY <1>3 DEF ReconnectsStay
  <2>1. CASE u = t
    <3>1. f = rec[t].fs BY <1>1, <1>2, <1>8, <1>10, <2>1 DEF Stays, ReconnectsStay
    <3>2. opened[f].server = s BY <3>1 DEF LogInAgain, GoesBack, IsOpen
    <3>3. conns[f] = s BY <1>1, <3>2 DEF Stays, OpenedOn
    <3> QED BY <1>4, <1>8, <1>10, <1>15, <2>1, <3>1, <3>3
  <2>2. CASE u # t
    <3>1. rec'[u] = rec[u] BY <1>10, <2>2
    <3>2. f = rec[u].fs /\ (rec[u].pc = "restart" => conns[rec[u].lease] = conns[f])
      BY <1>1, <3>1 DEF Stays, ReconnectsStay
    <3>3. rec[u].pc = "restart" => rec[u].lease \in 1 .. Len(conns)
      BY <1>1, <1>6 DEF Types, RecTypes, BackFits, Backs
    <3> QED BY <1>4, <1>15, <3>1, <3>2, <3>3 DEF ConnsKept
  <2> QED BY <2>1, <2>2
<1>17. Live' = Live BY <1>3 DEF Live
<1>18. NewConn \notin Live
  <2>1. ~(NewConn <= Len(conns)) BY <1>4, <1>6
  <2> QED BY <1>1, <2>1, LiveIsOld
<1>19. ReconnectsApart'
  BY <1>1, <1>8, <1>10, <1>17, <1>18 DEF Stays, ReconnectsApart
<1>20. Stays'
  BY <1>1, <1>4, <1>5, <1>12, <1>16, <1>19, PlacesStay, ServersStay, FoundStay, OpsStay DEF Stays
<1>21. UsersAreCounted' BY <1>3, <1>14, NothingCounted
<1> QED BY <1>14, <1>20, <1>21 DEF IndInv

\* The session moves to the login made for it: to the same server.
LEMMA RestartAgainKeeps ==
  ASSUME IndInv, NEW t \in Tabs, RestartAgain(t)
  PROVE  IndInv'
<1> DEFINE m == rec[t].mount
           c == rec[t].lease
           b == [rec[t] EXCEPT !.pc = "record", !.lease = None, !.live = c]
<1>1. Types /\ Stays BY DEF IndInv
<1>2. rec[t].pc = "restart" /\ rec[t] \in Backs /\ BackFits(rec[t], Len(conns), Len(mounts))
  BY <1>1, BackIs DEF RestartAgain
<1>3. UNCHANGED <<tabOf, conns, opened, claims, held, op, jobs, closes, terminals>>
  BY DEF RestartAgain, Elsewhere, Unmoved
<1>4. Len(conns) \in Nat /\ Len(mounts) \in Nat BY <1>1, LensAreNat
<1>5. m \in 1 .. Len(mounts) /\ c \in 1 .. Len(conns)
  BY <1>2, <1>4 DEF BackFits, Backs
<1>6. rec' = [rec EXCEPT ![t] = b] /\ mounts' = Replaced(m, c) BY DEF RestartAgain
<1>7. up' \subseteq up BY HangUpIs DEF RestartAgain
<1>8. b \in Backs /\ b.pc = "record" /\ b.live = c /\ b.lease = 0 /\ b.mount = m /\ b.fs = rec[t].fs
  BY <1>2 DEF Backs, RecSteps
<1>9. \A f \in DOMAIN opened : opened[f].mount = m => f = rec[t].fs /\ conns[c] = conns[f]
  BY <1>1, <1>2 DEF Stays, ReconnectsStay
<1>10. c \notin Live BY <1>1, <1>2 DEF Stays, ReconnectsApart
<1> HIDE DEF b, m, c
<1>11. ConnsKept /\ OpsKept /\ LiveKept /\ opened' \in Registries /\ Within(opened', opened)
  BY <1>1, <1>3, KeptIs
<1>12. OpenedKept BY <1>11 DEF OpenedKept, Within
<1>13. MountsTypes' /\ Len(mounts') = Len(mounts) /\ OnTheirServers'
  BY <1>1, <1>3, <1>5, <1>6, <1>9, <1>12, ReplacedIs
<1>14. MountsGrow /\ Len(conns') \in Nat /\ Len(mounts') \in Nat BY <1>3, <1>4, <1>13 DEF MountsGrow
<1>15. BackFits(b, Len(conns'), Len(mounts'))
  BY <1>2, <1>3, <1>4, <1>5, <1>8, <1>13 DEF BackFits, Backs, m, c
<1>16. RecTypes' /\ rec'[t] = b /\ \A u \in Tabs \ {t} : rec'[u] = rec[u]
  BY <1>1, <1>6, <1>11, <1>14, <1>15, RecMoves
<1>17. OpTypes' BY <1>1, <1>3, <1>11, <1>14, OpKeeps
<1>18. OpenedTypes' /\ FoundKept BY <1>1, <1>11, <1>14, OpenedKeeps
<1>19. ConnsTypes' BY <1>1, <1>3, <1>7 DEF Types, ConnsTypes
<1>20. Types'
  BY <1>1, <1>3, <1>13, <1>16, <1>17, <1>18, <1>19
     DEF Types, TabsTypes, ClaimsTypes, HeldTypes, JobsTypes, ClosesTypes
<1>21. ReconnectsStay'
  <2> SUFFICES ASSUME NEW u \in Tabs, rec'[u].pc # "idle", NEW f \in DOMAIN opened,
                      opened[f].mount = rec'[u].mount
               PROVE  f = rec'[u].fs /\ (rec'[u].pc = "restart" => conns[rec'[u].lease] = conns[f])
    BY <1>3 DEF ReconnectsStay
  <2>1. CASE u = t BY <1>8, <1>9, <1>16, <2>1
  <2>2. CASE u # t BY <1>1, <1>16, <2>2 DEF Stays, ReconnectsStay
  <2> QED BY <2>1, <2>2
<1>22. Live' = Live BY <1>3 DEF Live
<1>23. ReconnectsApart'
  BY <1>1, <1>8, <1>10, <1>16, <1>22 DEF Stays, ReconnectsApart
<1>24. Stays'
  BY <1>1, <1>11, <1>12, <1>13, <1>18, <1>21, <1>23, PlacesStay, FoundStay, OpsStay DEF Stays
<1>25. UsersAreCounted' BY <1>3, <1>20, NothingCounted
<1> QED BY <1>20, <1>24, <1>25 DEF IndInv

\* The registry's note of the connection, which nothing is looked for on.
LEMMA RecordKeeps ==
  ASSUME IndInv, NEW t \in Tabs, Record(t)
  PROVE  IndInv'
<1> DEFINE fs == rec[t].fs
           c == rec[t].live
<1>1. Types /\ Stays BY DEF IndInv
<1>2. rec[t].pc = "record" /\ rec[t] \in Backs /\ BackFits(rec[t], Len(conns), Len(mounts))
  BY <1>1, BackIs DEF Record
<1>3. UNCHANGED <<tabOf, conns, mounts, claims, held, op, jobs, closes, terminals>>
  BY DEF Record, Elsewhere, Unmoved
<1>4. Len(conns) \in Nat /\ Len(mounts) \in Nat BY <1>1, LensAreNat
<1>5. c \in 1 .. Len(conns) BY <1>2, <1>4 DEF BackFits, Backs
<1>6. rec' = [rec EXCEPT ![t] = Idle] BY DEF Record, RDone
<1>7. up' \subseteq up BY HangUpIs DEF Record
<1>8. c \notin Live BY <1>1, <1>2 DEF Stays, ReconnectsApart
<1>9. opened' = IF IsOpen(fs) THEN [opened EXCEPT ![fs].conn = c] ELSE opened BY DEF Record
<1> HIDE DEF fs, c
<1>10. ConnsKept /\ OpsKept /\ LiveKept /\ MountsKept /\ MountsGrow BY <1>1, <1>3, KeptIs
<1>11. Len(conns') \in Nat /\ Len(mounts') \in Nat BY <1>3, <1>4
<1>12. RecTypes' /\ rec'[t] = Idle /\ \A u \in Tabs \ {t} : rec'[u] = rec[u]
  BY <1>1, <1>3, <1>6, <1>10, <1>11, NoBack, RecMoves
<1>13. RecsKept BY <1>1, <1>12, NoBack DEF RecsKept
<1>14. Live' = Live BY <1>3 DEF Live
<1>15. /\ OpenedTypes' /\ OpenedKept /\ FoundKept
       /\ \A f \in Fs : UsersOf(opened', f) = UsersOf(opened, f)
  <2>1. CASE ~IsOpen(fs)
    <3>1. opened' \in Registries /\ Within(opened', opened) /\ opened' = opened
      BY <1>1, <1>9, <2>1, KeptIs
    <3> QED BY <1>1, <1>10, <1>11, <3>1, OpenedKeeps
  <2>2. CASE IsOpen(fs)
    <3> DEFINE e == [opened[fs] EXCEPT !.conn = c]
    <3>1. PICK S \in SUBSET Fs : opened \in [S -> Entries]
      BY <1>1 DEF Types, OpenedTypes, Registries
    <3>2. fs \in S /\ opened[fs] \in Entries /\ DOMAIN opened = S BY <2>2, <3>1 DEF IsOpen
    <3>3. c \in Nat BY <1>4, <1>5
    <3>4. /\ e \in Entries /\ e.mount = opened[fs].mount /\ e.server = opened[fs].server
          /\ e.users = opened[fs].users /\ e.conn = c
      BY <3>2, <3>3 DEF Entries
    <3>5. opened' = [opened EXCEPT ![fs] = e] BY <1>9, <2>2
    <3> HIDE DEF e
    <3>6. /\ opened' \in [S -> Entries] /\ DOMAIN opened' = S /\ opened'[fs] = e
          /\ \A f \in S : f # fs => opened'[f] = opened[f]
      BY <3>1, <3>2, <3>4, <3>5
    <3>7. opened' \in Registries BY <3>6 DEF Registries
    <3>8. OpenedKept BY <3>2, <3>4, <3>6 DEF OpenedKept
    <3>9. FoundKept BY <1>8, <1>14, <3>2, <3>4, <3>6 DEF FoundKept
    <3>10. \A f \in S : /\ f \in 1 .. Len(conns) /\ opened[f].conn \in 1 .. Len(conns)
                        /\ opened[f].mount \in 1 .. Len(mounts)
      BY <1>1, <3>2 DEF Types, OpenedTypes
    <3>11. \A f \in S : /\ f \in 1 .. Len(conns') /\ opened'[f].conn \in 1 .. Len(conns')
                        /\ opened'[f].mount \in 1 .. Len(mounts')
      BY <1>3, <1>5, <3>2, <3>4, <3>6, <3>10
    <3>12. OpenedTypes' BY <3>6, <3>7, <3>11 DEF OpenedTypes
    <3>13. \A f \in Fs : UsersOf(opened', f) = UsersOf(opened, f)
      BY <3>2, <3>4, <3>6 DEF UsersOf
    <3> QED BY <3>8, <3>9, <3>12, <3>13
  <2> QED BY <2>1, <2>2
<1>16. OpTypes' BY <1>1, <1>3, <1>10, <1>11, OpKeeps
<1>17. Types'
  BY <1>1, <1>3, <1>7, <1>12, <1>15, <1>16
     DEF Types, TabsTypes, ConnsTypes, MountsTypes, ClaimsTypes, HeldTypes, JobsTypes, ClosesTypes
<1>18. Stays' BY <1>1, <1>10, <1>13, <1>15, AllStay
<1>19. UsersAreCounted' BY <1>3, <1>15, <1>17, NothingCounted
<1> QED BY <1>17, <1>18, <1>19 DEF IndInv

-----------------------------------------------------------------------------
(* Jobs. *)

\* One job's record changes.
LEMMA JobMoves ==
  ASSUME Types, NEW j \in Jobs, NEW w, jobs' = [jobs EXCEPT ![j] = w], WorkFits(w)
  PROVE  JobsTypes' /\ jobs'[j] = w /\ \A k \in Jobs \ {j} : jobs'[k] = jobs[k]
<1>1. jobs \in [Jobs -> Works] /\ w \in Works BY DEF Types, JobsTypes, WorkFits
<1>2. jobs' \in [Jobs -> Works] /\ jobs'[j] = w /\ \A k \in Jobs \ {j} : jobs'[k] = jobs[k]
  BY <1>1
<1>3. \A k \in Jobs : WorkFits(jobs'[k]) BY <1>2 DEF Types, JobsTypes
<1> QED BY <1>2, <1>3 DEF JobsTypes

\* The types, for one job.
LEMMA JobIs ==
  ASSUME Types, NEW j \in Jobs
  PROVE  jobs[j] \in Works /\ WorkFits(jobs[j])
BY DEF Types, JobsTypes

\* A job's step, if the registry counts it.
LEMMA JobStepKeeps ==
  ASSUME IndInv, NEW j \in Jobs, NEW w, jobs' = [jobs EXCEPT ![j] = w], WorkFits(w),
         UNCHANGED <<tabOf, terminals, conns, mounts, claims, held, op, rec, closes>>,
         up' \subseteq up, opened' \in Registries, Within(opened', opened),
         \A f \in Fs : UsersOf(opened', f) + Bit(Uses(jobs[j], f))
           = UsersOf(opened, f) + Bit(Uses(w, f))
  PROVE  IndInv'
<1>1. Types /\ UsersAreCounted BY DEF IndInv
<1>2. JobsTypes' /\ jobs'[j] = w /\ \A k \in Jobs \ {j} : jobs'[k] = jobs[k] BY <1>1, JobMoves
<1>3. Types' /\ Stays' BY <1>2, QuietOther, SameTypes
<1>4. UsersAreCounted' BY <1>1, <1>2, <1>3, JobBalances
<1> QED BY <1>3, <1>4 DEF IndInv

\* transfer_start, its first half: the mount, not counted yet.
LEMMA JobGetsKeeps ==
  ASSUME IndInv, NEW j \in Jobs, NEW fs \in DOMAIN opened, JobGets(j, fs)
  PROVE  IndInv'
<1> DEFINE w == [NoJob EXCEPT !.pc = "starts", !.fs = fs, !.mount = MountOf(fs)]
<1>1. Types BY DEF IndInv
<1>2. fs \in Fs /\ MountOf(fs) \in Nat
  <2>1. PICK S \in SUBSET Fs : opened \in [S -> Entries] BY <1>1 DEF Types, OpenedTypes, Registries
  <2> QED BY <2>1 DEF Entries, MountOf
<1>3. w \in Works /\ w.pc = "starts" /\ w.fs = fs /\ ~w.counted BY <1>2 DEF Works, NoJob
<1>4. jobs' = [jobs EXCEPT ![j] = w] /\ jobs[j].pc = "idle" BY DEF JobGets
<1> HIDE DEF w
<1>5. WorkFits(w) BY <1>2, <1>3 DEF WorkFits
<1>6. ~jobs[j].counted BY <1>1, <1>4, JobIs DEF WorkFits
<1>7. /\ UNCHANGED <<tabOf, terminals, conns, mounts, claims, held, op, rec, closes, opened>>
      /\ up' \subseteq up
  BY DEF JobGets, Unmoved
<1>8. opened' \in Registries /\ Within(opened', opened) BY <1>1, <1>7, KeptIs
<1>9. \A f \in Fs : UsersOf(opened', f) + Bit(Uses(jobs[j], f))
        = UsersOf(opened, f) + Bit(Uses(w, f))
  BY <1>3, <1>6, <1>7 DEF Uses, Bit
<1> QED BY <1>4, <1>5, <1>7, <1>8, <1>9, JobStepKeeps

\* use_of: counted exactly if the filesystem is open still.
LEMMA JobStartsKeeps ==
  ASSUME IndInv, NEW j \in Jobs, JobStarts(j)
  PROVE  IndInv'
<1> DEFINE fs == jobs[j].fs
           w == [jobs[j] EXCEPT !.pc = "runs", !.counted = IsOpen(fs)]
<1>1. Types BY DEF IndInv
<1>2. jobs[j] \in Works /\ WorkFits(jobs[j]) /\ jobs[j].pc = "starts" BY <1>1, JobIs DEF JobStarts
<1>3. fs \in Fs /\ ~jobs[j].counted BY <1>2 DEF WorkFits
<1>4. IsOpen(fs) \in BOOLEAN BY DEF IsOpen
<1>5. w \in Works /\ w.pc = "runs" /\ w.fs = fs /\ w.counted = IsOpen(fs) BY <1>2, <1>4 DEF Works
<1>6. jobs' = [jobs EXCEPT ![j] = w] BY DEF JobStarts
<1>7. opened' = IF IsOpen(fs) THEN Retained(fs) ELSE opened BY DEF JobStarts
<1>8. /\ UNCHANGED <<tabOf, terminals, conns, mounts, claims, held, op, rec, closes>>
      /\ up' \subseteq up
  BY DEF JobStarts, Elsewhere, Unmoved
<1> HIDE DEF w, fs
<1>9. WorkFits(w) BY <1>3, <1>5 DEF WorkFits
<1>10. \A f : ~Uses(jobs[j], f) BY <1>3 DEF Uses
<1>11. CASE IsOpen(fs)
  <2>1. /\ opened' \in Registries /\ Within(opened', opened)
        /\ \A f \in Fs : UsersOf(opened', f) = UsersOf(opened, f) + Bit(f = fs)
    BY <1>1, <1>3, <1>7, <1>11, RetainedIs DEF Types, OpenedTypes
  <2>2. \A f \in Fs : Uses(w, f) <=> f = fs BY <1>5, <1>11 DEF Uses
  <2>3. \A f \in Fs : UsersOf(opened, f) \in Nat BY <1>1, UsersAre DEF Types, OpenedTypes
  <2>4. \A f \in Fs : UsersOf(opened', f) + Bit(Uses(jobs[j], f))
          = UsersOf(opened, f) + Bit(Uses(w, f))
    BY <1>10, <2>1, <2>2, <2>3 DEF Bit
  <2> QED BY <1>6, <1>8, <1>9, <2>1, <2>4, JobStepKeeps
<1>12. CASE ~IsOpen(fs)
  <2>1. opened' = opened BY <1>7, <1>12
  <2>2. opened' \in Registries /\ Within(opened', opened) BY <1>1, <2>1, KeptIs
  <2>3. \A f \in Fs : ~Uses(w, f) BY <1>5, <1>12 DEF Uses
  <2>4. \A f \in Fs : UsersOf(opened', f) + Bit(Uses(jobs[j], f))
          = UsersOf(opened, f) + Bit(Uses(w, f))
    BY <1>10, <2>1, <2>3 DEF Bit
  <2> QED BY <1>6, <1>8, <1>9, <2>2, <2>4, JobStepKeeps
<1> QED BY <1>11, <1>12

\* A job's end: its use is dropped, which was counted if it is.
LEMMA JobEndsKeeps ==
  ASSUME IndInv, NEW j \in Jobs, JobEnds(j)
  PROVE  IndInv'
<1> DEFINE fs == jobs[j].fs
<1>1. Types /\ UsersAreCounted BY DEF IndInv
<1>2. jobs[j] \in Works /\ WorkFits(jobs[j]) /\ jobs[j].pc = "runs" BY <1>1, JobIs DEF JobEnds
<1>3. fs \in Fs BY <1>2 DEF WorkFits
<1>4. jobs' = [jobs EXCEPT ![j] = NoJob] BY DEF JobEnds
<1>5. WorkFits(NoJob) /\ ~NoJob.counted BY DEF WorkFits, Works, NoJob
<1>6. opened' = IF jobs[j].counted THEN Released(fs) ELSE opened BY DEF JobEnds
<1>7. up' \subseteq up BY HangUpIs DEF JobEnds
<1>8. UNCHANGED <<tabOf, terminals, conns, mounts, claims, held, op, rec, closes>>
  BY DEF JobEnds, Elsewhere, Unmoved
<1>9. \A f : Uses(jobs[j], f) <=> jobs[j].counted /\ f = fs BY DEF Uses
<1>10. \A f : ~Uses(NoJob, f) BY <1>5 DEF Uses
<1> HIDE DEF fs
<1>11. CASE jobs[j].counted
  <2>1. IsOpen(fs) BY <1>1, <1>3, <1>9, <1>11, JobIsCounted
  <2>2. /\ opened' \in Registries /\ Within(opened', opened)
        /\ \A f \in Fs : UsersOf(opened', f) = UsersOf(opened, f) - Bit(f = fs)
    BY <1>1, <1>3, <1>6, <1>11, <2>1, ReleasedIs DEF Types, OpenedTypes
  <2>3. \A f \in Fs : UsersOf(opened, f) \in Nat BY <1>1, UsersAre DEF Types, OpenedTypes
  <2>4. \A f \in Fs : UsersOf(opened', f) + Bit(Uses(jobs[j], f))
          = UsersOf(opened, f) + Bit(Uses(NoJob, f))
    BY <1>9, <1>10, <1>11, <2>2, <2>3 DEF Bit
  <2> QED BY <1>4, <1>5, <1>7, <1>8, <2>2, <2>4, JobStepKeeps
<1>12. CASE ~jobs[j].counted
  <2>1. opened' = opened BY <1>6, <1>12
  <2>2. opened' \in Registries /\ Within(opened', opened) BY <1>1, <2>1, KeptIs
  <2>4. \A f \in Fs : UsersOf(opened', f) + Bit(Uses(jobs[j], f))
          = UsersOf(opened, f) + Bit(Uses(NoJob, f))
    BY <1>9, <1>10, <1>12, <2>1 DEF Bit
  <2> QED BY <1>4, <1>5, <1>7, <1>8, <2>2, <2>4, JobStepKeeps
<1> QED BY <1>11, <1>12

-----------------------------------------------------------------------------
(* Terminals, the network and the servers. *)

\* An SSH tab's connection, which is a new one.
LEMMA OpenShellKeeps ==
  ASSUME IndInv, NEW s \in Servers, OpenShell(s)
  PROVE  IndInv'
<1>1. Types /\ Stays BY DEF IndInv
<1>2. UNCHANGED <<tabOf, mounts, opened, claims, held, op, rec, jobs, closes>> BY DEF OpenShell
<1>3. terminals' = terminals \cup {NewConn} BY DEF OpenShell
<1>4. /\ ConnsTypes' /\ ConnsKept /\ Len(conns') = Len(conns) + 1 /\ NewConn \in Nat
      /\ NewConn = Len(conns')
  BY <1>1, <1>3, LogInIs DEF OpenShell
<1>5. /\ MountsKept /\ MountsGrow /\ OpsKept /\ RecsKept
      /\ opened' \in Registries /\ Within(opened', opened)
  BY <1>1, <1>2, KeptIs
<1>6. Len(conns) \in Nat /\ Len(mounts) \in Nat /\ Len(conns') \in Nat /\ Len(mounts') \in Nat
  BY <1>1, <1>2, <1>4, LensAreNat
<1>7. OpTypes' /\ RecTypes' BY <1>1, <1>2, <1>4, <1>5, <1>6, OpKeeps, RecKeeps
<1>8. OpenedTypes' /\ OpenedKept /\ FoundKept BY <1>1, <1>4, <1>5, <1>6, OpenedKeeps
<1>9. MountsTypes'
  <2>1. \A m \in 1 .. Len(mounts) : mounts[m].conn \in 1 .. Len(conns')
    BY <1>1, <1>4, <1>6 DEF Types, MountsTypes
  <2> QED BY <1>1, <1>2, <2>1 DEF Types, MountsTypes
<1>10. Types'
  BY <1>1, <1>2, <1>4, <1>7, <1>8, <1>9
     DEF Types, TabsTypes, ClaimsTypes, HeldTypes, JobsTypes, ClosesTypes
<1>11. LiveKept
  <2>1. NewConn \notin 1 .. Len(conns) BY <1>4, <1>6
  <2> QED BY <1>2, <1>3, <2>1 DEF LiveKept, Live
<1>12. Stays' BY <1>1, <1>4, <1>5, <1>8, <1>11, AllStay
<1>13. UsersAreCounted' BY <1>2, <1>10, NothingCounted
<1> QED BY <1>10, <1>12, <1>13 DEF IndInv

\* A step of which only the leases know.
LEMMA FewerKeep ==
  ASSUME IndInv, UNCHANGED <<tabOf, conns, mounts, opened, claims, held, op, rec, jobs, closes>>,
         terminals' \subseteq terminals, up' \subseteq up
  PROVE  IndInv'
<1>1. Types' /\ Stays' BY QuietOther, SameTypes
<1>2. UsersAreCounted' BY <1>1, NothingCounted
<1> QED BY <1>1, <1>2 DEF IndInv

\* A shell that ends, a connection that is lost.
LEMMA LeaseKeeps ==
  ASSUME IndInv, NEW c, CloseShell(c) \/ Lose(c)
  PROVE  IndInv'
<1>1. UNCHANGED <<tabOf, conns, mounts, opened, claims, held, op, rec, jobs, closes>>
  BY DEF CloseShell, Lose
<1>2. terminals' \subseteq terminals BY DEF CloseShell, Lose
<1>3. up' \subseteq up BY HangUpIs DEF CloseShell, Lose
<1> QED BY <1>1, <1>2, <1>3, FewerKeep

\* A session that ends stays on its connection, and so does its mount.
LEMMA SessionKeeps ==
  ASSUME IndInv, NEW m \in 1 .. Len(mounts), EndSession(m) \/ WatcherFlags(m)
  PROVE  IndInv'
<1>1. Types BY DEF IndInv
<1>2. UNCHANGED <<tabOf, conns, terminals, up, opened, claims, held, op, rec, jobs, closes>>
  BY DEF EndSession, WatcherFlags
<1>3. mounts \in Seq(Sessions) /\ Len(mounts) \in Nat BY <1>1, LensAreNat DEF Types, MountsTypes
<1>4. PICK n \in Sessions : mounts' = [mounts EXCEPT ![m] = n] /\ n.conn = mounts[m].conn
  <2>1. mounts[m] \in Sessions BY <1>3
  <2>2. CASE EndSession(m)
    <3> DEFINE n == [mounts[m] EXCEPT !.ended = TRUE]
    <3>1. n \in Sessions /\ n.conn = mounts[m].conn BY <2>1 DEF Sessions
    <3>2. mounts' = [mounts EXCEPT ![m] = n] BY <2>2 DEF EndSession
    <3> QED BY <3>1, <3>2
  <2>3. CASE WatcherFlags(m)
    <3> DEFINE n == [mounts[m] EXCEPT !.flag = FALSE]
    <3>1. n \in Sessions /\ n.conn = mounts[m].conn BY <2>1 DEF Sessions
    <3>2. mounts' = [mounts EXCEPT ![m] = n] BY <2>3 DEF WatcherFlags
    <3> QED BY <3>1, <3>2
  <2> QED BY <2>2, <2>3
<1>5. /\ mounts' \in Seq(Sessions) /\ Len(mounts') = Len(mounts)
      /\ \A k \in 1 .. Len(mounts) : mounts'[k].conn = mounts[k].conn
  BY <1>3, <1>4
<1>6. MountsTypes' /\ MountsKept
  BY <1>1, <1>2, <1>3, <1>5 DEF Types, MountsTypes, MountsKept, MountsGrow
<1>7. Types' /\ Stays' BY <1>2, <1>5, <1>6, QuietOther, SameTypes
<1>8. UsersAreCounted' BY <1>2, <1>7, NothingCounted
<1> QED BY <1>7, <1>8 DEF IndInv

\* Nothing happens.
LEMMA StutterKeeps ==
  ASSUME IndInv, UNCHANGED vars
  PROVE  IndInv'
BY FewerKeep DEF vars

-----------------------------------------------------------------------------
\* The types, at the start.
LEMMA InitTypes ==
  ASSUME Init
  PROVE  Types
<1>1. tabOf \in [Panels -> Tabs] BY DEF Init, SessionsAssumption
<1>2. conns = <<>> /\ mounts = <<>> /\ opened = <<>> /\ up = {} /\ terminals = {} BY DEF Init
<1>3. TabsTypes BY <1>1 DEF TabsTypes
<1>4. ConnsTypes BY <1>2 DEF ConnsTypes, SessionsAssumption
<1>5. MountsTypes BY <1>2 DEF MountsTypes
<1>6. OpenedTypes
  <2>1. opened \in [{} -> Entries] /\ DOMAIN opened = {} BY <1>2
  <2> QED BY <2>1 DEF OpenedTypes, Registries
<1>7. ClaimsTypes
  <2>1. ClaimsFit(NoClaims)
    <3>1. <<>> \in [{} -> Nat \ {0}] OBVIOUS
    <3>2. <<>> \in Counts BY <3>1 DEF Counts
    <3> QED BY <3>2 DEF ClaimsFit, TabsClaims, NoClaims
  <2>2. ClaimsFit(Disposed(NoClaims)) BY DisposedIs
  <2>3. DOMAIN claims = Tabs /\ \A t \in Tabs : claims[t] \in {NoClaims, Disposed(NoClaims)}
    BY DEF Init
  <2>4. \A t \in Tabs : ClaimsFit(claims[t]) BY <2>1, <2>2, <2>3
  <2>5. claims = [t \in Tabs |-> IF \E p \in Panels : tabOf[p] = t
                                  THEN NoClaims ELSE Disposed(NoClaims)]
    BY DEF Init
  <2>6. claims \in [Tabs -> TabsClaims] BY <2>1, <2>2, <2>5 DEF ClaimsFit
  <2> QED BY <2>3, <2>4, <2>6 DEF ClaimsTypes
<1>8. HeldTypes BY DEF Init, HeldTypes
<1>9. OpTypes
  <2>1. Idle \in Ways BY IdleIs
  <2>2. WayFits(Idle, 0, 0) BY IdleIs DEF WayFits, Restarting, Knowing, Bringing
  <2>3. Len(conns) = 0 /\ Len(mounts) = 0 BY <1>2
  <2> QED BY <2>1, <2>2, <2>3 DEF Init, OpTypes
<1>10. RecTypes
  <2>1. Idle \in Backs BY DEF Idle, Backs, RecSteps
  <2>2. BackFits(Idle, 0, 0) BY <2>1 DEF BackFits, Idle
  <2>3. Len(conns) = 0 /\ Len(mounts) = 0 BY <1>2
  <2> QED BY <2>1, <2>2, <2>3 DEF Init, RecTypes
<1>11. JobsTypes
  <2>1. NoJob \in Works /\ WorkFits(NoJob) BY DEF WorkFits, Works, NoJob
  <2> QED BY <2>1 DEF Init, JobsTypes
<1>12. ClosesTypes BY DEF Init, ClosesTypes
<1> QED BY <1>3, <1>4, <1>5, <1>6, <1>7, <1>8, <1>9, <1>10, <1>11, <1>12 DEF Types

\* Nothing is open at the start, and nobody counts.
LEMMA InitCounted ==
  ASSUME Init
  PROVE  UsersAreCounted
<1>1. \A t \in Tabs, f \in Fs : ~Holds(claims[t], f) /\ Claimed(claims[t], f) = 0
  <2>1. \A t \in Tabs : claims[t] \in {NoClaims, Disposed(NoClaims)} BY DEF Init
  <2>2. NoClaims.counts = <<>> /\ Disposed(NoClaims).counts = <<>> BY DEF NoClaims, Disposed
  <2>3. \A t \in Tabs : claims[t].counts = <<>> BY <2>1, <2>2
  <2> QED BY <2>3 DEF Holds, Claimed
<1>2. \A f \in Fs, t \in Tabs : Showing(t, f) = {} /\ Listing(t, f) = {}
  BY DEF Init, Showing, Listing, Idle
<1>3. \A f \in Fs : Holding(f) = {} /\ Incoming(f) = {} /\ Working(f) = {}
  BY <1>1 DEF Init, Holding, Incoming, Working, Idle, NoJob
<1>4. Cardinality({}) = 0 BY FS_EmptySet
<1>5. \A f \in Fs : closes[f] = 0 /\ UsersOf(opened, f) = 0 BY DEF Init, UsersOf
<1>6. ASSUME NEW t \in Tabs, NEW f \in Fs
      PROVE  Cardinality(Showing(t, f)) + Cardinality(Listing(t, f)) = Claimed(claims[t], f)
  <2>1. Cardinality(Showing(t, f)) = 0 /\ Cardinality(Listing(t, f)) = 0 BY <1>2, <1>4
  <2> QED BY <1>1, <2>1
<1>7. ASSUME NEW f \in Fs
      PROVE  Cardinality(Holding(f)) + Cardinality(Incoming(f)) + Cardinality(Working(f))
             + closes[f] = UsersOf(opened, f)
  <2>1. Cardinality(Holding(f)) = 0 /\ Cardinality(Incoming(f)) = 0 /\ Cardinality(Working(f)) = 0
    BY <1>3, <1>4
  <2> QED BY <1>5, <2>1
<1> QED BY <1>6, <1>7, CountsAre

\* Nothing is on any server at the start.
LEMMA InitStays ==
  ASSUME Init
  PROVE  Stays
<1>1. DOMAIN opened = {} BY DEF Init
<1>2. \A t \in Tabs : rec[t].pc = "idle" BY DEF Init, Idle
<1> QED BY <1>1, <1>2 DEF Stays, OpenedOn, OneMountEach, OnTheirServers, FoundOnTheirs,
                           PanelsStay, ReconnectsStay, ReconnectsApart

\* The inductive invariant, at the start.
LEMMA InitInductive ==
  ASSUME Init
  PROVE  IndInv
BY InitTypes, InitCounted, InitStays DEF IndInv

\* The steps of a panel's call.
LEMMA PanelStepKeeps ==
  ASSUME IndInv, NEW p \in Panels, PanelStep(p)
  PROVE  IndInv'
BY RetainKeeps, AdoptKeeps, ShowKeeps, ShowNotKeeps, FindKeeps, LockKeeps, RestartKeeps,
   ShareKeeps, OpenKeeps, OpenFailsKeeps, LogInToOpenKeeps DEF PanelStep

\* The steps of a reconnect.
LEMMA ReconnectStepKeeps ==
  ASSUME IndInv, NEW t \in Tabs, ReconnectStep(t)
  PROVE  IndInv'
BY ReconnectLockKeeps, RestartAgainKeeps, RecordKeeps, ReconnectFailsKeeps, LogInAgainKeeps
   DEF ReconnectStep

\* What users ask for.
LEMMA UsersKeep ==
  ASSUME IndInv, Users
  PROVE  IndInv'
<1>1. CASE \E p \in Panels : \/ ShowLocal(p) \/ OpenSaved(p)
                             \/ \E fs \in Fs : GoTo(p, fs)
                             \/ \E c \in terminals : OpenLive(p, c)
  BY <1>1, ShowLocalKeeps, OpenSavedKeeps, GoToKeeps, OpenLiveKeeps
<1>2. CASE \E t \in Tabs : CloseTab(t) \/ \E fs \in Fs : Reconnect(t, fs)
  BY <1>2, CloseTabKeeps, ReconnectKeeps
<1>3. CASE \E s \in Servers : OpenShell(s) BY <1>3, OpenShellKeeps
<1>4. CASE \E c \in terminals : CloseShell(c) BY <1>4, LeaseKeeps
<1>5. CASE \E j \in Jobs : \E fs \in DOMAIN opened : JobGets(j, fs) BY <1>5, JobGetsKeeps
<1> QED BY <1>1, <1>2, <1>3, <1>4, <1>5 DEF Users

\* Every step keeps the inductive invariant.
LEMMA StepsKeep ==
  ASSUME IndInv, [Next]_vars
  PROVE  IndInv'
<1>1. CASE Users BY <1>1, UsersKeep
<1>2. CASE World BY <1>2, LeaseKeeps, SessionKeeps DEF World
<1>3. CASE \E p \in Panels : PanelStep(p) BY <1>3, PanelStepKeeps
<1>4. CASE \E t \in Tabs : ReconnectStep(t) BY <1>4, ReconnectStepKeeps
<1>5. CASE \E fs \in Fs : Close(fs) BY <1>5, CloseKeeps
<1>6. CASE \E j \in Jobs : JobStarts(j) \/ JobEnds(j) BY <1>6, JobStartsKeeps, JobEndsKeeps
<1>7. CASE UNCHANGED vars BY <1>7, StutterKeeps
<1> QED BY <1>1, <1>2, <1>3, <1>4, <1>5, <1>6, <1>7 DEF Next

\* For any servers, panels, tabs and jobs: the registry's count is the number of
\* those that use a filesystem, no two filesystems are one mount, and every
\* session, every login for a reconnect and every connection that is looked on is
\* on the server of the filesystem it is for.
THEOREM Inductive == Spec => []IndInv
<1>1. Init => IndInv BY InitInductive
<1>2. IndInv /\ [Next]_vars => IndInv' BY StepsKeep
<1> QED BY <1>1, <1>2, PTL DEF Spec

\* UsersAreServed: what a panel shows, a job works on or a call on its way is for
\* is open, it closes with the last of them, and it is on the server it was opened
\* on, however it was reconnected.
THEOREM UsersAreAlwaysServed == Spec => []UsersAreServed
<1>1. IndInv => UsersAreServed
  <2> SUFFICES ASSUME IndInv PROVE SameServer BY DEF IndInv, UsersAreServed
  <2> QED BY DEF IndInv, Stays, SameServer, OpenedOn, OnTheirServers, MountOf
<1> QED BY <1>1, Inductive, PTL
=============================================================================
