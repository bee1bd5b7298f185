--------------------------- MODULE GitSafetyProofs --------------------------
(***************************************************************************)
(* What the Git isolation of the sessions guarantees with any number of    *)
(* sessions, in every world where they take turns or leave the repository  *)
(* alone, whichever stash, checkout, commit, merge or pop fails and        *)
(* wherever the process dies.                                              *)
(*                                                                         *)
(* The commands of a preparation or of a finalisation are summed up by     *)
(* where a change can be: in the working tree, put aside in the stash, or  *)
(* kept by a branch.  The argument is then that the branch of the session  *)
(* at work holds nothing that the branch it started from does not hold,    *)
(* until its own commit is merged there: deleting it destroys nothing.     *)
(***************************************************************************)
EXTENDS GitSafety, SequenceTheorems, WellFoundedInduction, TLAPS

\* Where the changes of a repository are.
Aside(r) == UNION {r.stash[i].files : i \in DOMAIN r.stash}
Kept(r) == UNION {r.commits[b] : b \in r.branches}
Somewhere(r) == r.tree \union Aside(r) \union Kept(r)

-----------------------------------------------------------------------------
(* The commands.                                                           *)

LEMMA RepoIs ==
  ASSUME NEW r
  PROVE  r \in Repos <=>
           /\ r = [head |-> r.head, tree |-> r.tree, stash |-> r.stash, branches |-> r.branches,
                   commits |-> r.commits, origin |-> r.origin]
           /\ r.head \in Branches /\ r.tree \subseteq Changes /\ r.stash \in Seq(Entries)
           /\ r.branches \subseteq Branches /\ r.commits \in [Branches -> SUBSET Changes]
           /\ r.origin \in [Sessions -> Branches \union {None}]
BY DEF Repos

LEMMA RemoveAtIs ==
  ASSUME NEW S, NEW q \in Seq(S), NEW i \in 1 .. Len(q)
  PROVE  /\ RemoveAt(q, i) \in Seq(S) /\ Len(RemoveAt(q, i)) = Len(q) - 1
         /\ \A j \in 1 .. Len(q) - 1 : RemoveAt(q, i)[j] = IF j < i THEN q[j] ELSE q[j + 1]
<1> DEFINE a == SubSeq(q, 1, i - 1)
           b == SubSeq(q, i + 1, Len(q))
<1>1. a \in Seq(S) /\ Len(a) = i - 1 /\ \A j \in 1 .. i - 1 : a[j] = q[j]
  OBVIOUS
<1>2. b \in Seq(S) /\ Len(b) = Len(q) - i /\ \A j \in 1 .. Len(q) - i : b[j] = q[i + j]
  OBVIOUS
<1>3. RemoveAt(q, i) = a \o b
  BY DEF RemoveAt
<1> HIDE DEF a, b
<1>4. /\ a \o b \in Seq(S) /\ Len(a \o b) = Len(a) + Len(b)
      /\ \A j \in 1 .. Len(a) + Len(b) : (a \o b)[j] = IF j <= Len(a) THEN a[j] ELSE b[j - Len(a)]
  BY <1>1, <1>2, ConcatProperties
<1>5. Len(q) \in Nat /\ i \in Nat /\ Len(a) + Len(b) = Len(q) - 1
  BY <1>1, <1>2
<1>6. ASSUME NEW j \in 1 .. Len(q) - 1 PROVE (a \o b)[j] = IF j < i THEN q[j] ELSE q[j + 1]
  <2>1. (a \o b)[j] = IF j <= i - 1 THEN a[j] ELSE b[j - (i - 1)]
    BY <1>1, <1>4, <1>5
  <2>2. CASE j < i
    <3>1. j \in 1 .. i - 1
      BY <1>5, <2>2
    <3>2. QED
      BY <1>1, <2>1, <2>2, <3>1
  <2>3. CASE ~(j < i)
    <3>1. j - (i - 1) \in 1 .. Len(q) - i /\ i + (j - (i - 1)) = j + 1 /\ ~(j <= i - 1)
      BY <1>5, <2>3
    <3>2. b[j - (i - 1)] = q[i + (j - (i - 1))]
      BY <1>2, <3>1
    <3>3. QED
      BY <2>1, <2>3, <3>1, <3>2
  <2>4. QED
    BY <2>2, <2>3
<1>7. QED
  BY <1>3, <1>4, <1>5, <1>6

Labels == {"user_pre_agent", "agent_checkpoint"}

\* A safety stash, or a checkpoint, moves the working tree aside.
LEMMA PushIs ==
  ASSUME NEW r \in Repos, NEW label \in Labels, NEW s \in Sessions,
         NEW p, p = Push(r, label, s)
  PROVE  /\ p \in Repos /\ p.tree = {} /\ Aside(p) = r.tree \union Aside(r)
         /\ p.head = r.head /\ p.branches = r.branches /\ p.commits = r.commits /\ p.origin = r.origin
         /\ r.tree = {} => p = r
         /\ r.tree # {} => /\ Len(p.stash) = Len(r.stash) + 1
                           /\ p.stash[1].label = label /\ p.stash[1].of = s
<1> DEFINE e == [label |-> label, of |-> s, files |-> r.tree]
<1>1. r.tree \subseteq Changes /\ r.stash \in Seq(Entries)
  BY DEF Repos
<1>2. e \in Entries /\ e.files = r.tree
  BY <1>1 DEF Entries, Labels
<1> HIDE DEF e
<1>3. CASE r.tree = {}
  BY <1>3 DEF Push, Aside
<1>4. CASE r.tree # {}
  <2> DEFINE q == <<e>> \o r.stash
  <2>1. p = [r EXCEPT !.tree = {}, !.stash = q]
    BY <1>4 DEF Push, e
  <2>2. <<e>> \in Seq(Entries) /\ Len(<<e>>) = 1 /\ <<e>>[1] = e
    BY <1>2
  <2>3. /\ q \in Seq(Entries) /\ Len(q) = 1 + Len(r.stash)
        /\ \A i \in 1 .. 1 + Len(r.stash) : q[i] = IF i <= 1 THEN <<e>>[i] ELSE r.stash[i - 1]
    BY <1>1, <2>2, ConcatProperties
  <2> HIDE DEF q
  <2>4. /\ p.tree = {} /\ p.stash = q /\ p.head = r.head /\ p.branches = r.branches
        /\ p.commits = r.commits /\ p.origin = r.origin
    BY <2>1 DEF Repos
  <2>5. p \in Repos
    BY <2>1, <2>3 DEF Repos
  <2>6. Len(r.stash) \in Nat /\ DOMAIN r.stash = 1 .. Len(r.stash) /\ DOMAIN q = 1 .. Len(r.stash) + 1
    BY <1>1, <2>3
  <2>7. q[1] = e /\ \A i \in 1 .. Len(r.stash) : q[i + 1] = r.stash[i]
    BY <2>2, <2>3, <2>6
  <2>8. \A i \in 2 .. Len(r.stash) + 1 : i - 1 \in 1 .. Len(r.stash) /\ q[i] = r.stash[i - 1]
    BY <2>3, <2>6
  <2>9. Aside(p) \subseteq r.tree \union Aside(r)
    <3> SUFFICES ASSUME NEW i \in DOMAIN q, NEW c \in q[i].files PROVE c \in r.tree \union Aside(r)
      BY <2>4 DEF Aside
    <3>1. i = 1 \/ i \in 2 .. Len(r.stash) + 1
      BY <2>6
    <3>2. QED
      BY <1>2, <2>6, <2>7, <2>8, <3>1 DEF Aside
  <2>10. r.tree \union Aside(r) \subseteq Aside(p)
    <3>1. 1 \in DOMAIN q /\ \A i \in DOMAIN r.stash : i + 1 \in DOMAIN q
      BY <2>6
    <3>2. QED
      BY <1>2, <2>4, <2>6, <2>7, <3>1 DEF Aside
  <2>11. QED
    BY <1>4, <2>3, <2>4, <2>5, <2>6, <2>7, <2>9, <2>10 DEF e
<1>5. QED
  BY <1>3, <1>4

\* What a pop takes from the stash is in the working tree.
LEMMA PopIs ==
  ASSUME NEW r \in Repos, NEW i \in DOMAIN r.stash, NEW conflict \in BOOLEAN,
         NEW p, p = Pop(r, i, conflict)
  PROVE  /\ p \in Repos /\ r.tree \subseteq p.tree
         /\ p.tree \union Aside(p) = r.tree \union Aside(r)
         /\ p.head = r.head /\ p.branches = r.branches /\ p.commits = r.commits /\ p.origin = r.origin
         /\ ~conflict => Len(p.stash) = Len(r.stash) - 1
<1>1. /\ r.tree \subseteq Changes /\ r.stash \in Seq(Entries) /\ Len(r.stash) \in Nat
      /\ DOMAIN r.stash = 1 .. Len(r.stash) /\ i \in 1 .. Len(r.stash)
  BY DEF Repos
<1>2. CASE conflict
  BY <1>2 DEF Pop
<1>3. CASE ~conflict
  <2> DEFINE q == RemoveAt(r.stash, i)
             e == r.stash[i].files
  <2>1. p = [r EXCEPT !.tree = r.tree \union e, !.stash = q]
    BY <1>3 DEF Pop
  <2>2. e \subseteq Changes
    <3>1. r.stash[i] \in Entries
      BY <1>1
    <3>2. QED
      BY <3>1 DEF Entries
  <2>3. /\ q \in Seq(Entries) /\ Len(q) = Len(r.stash) - 1
        /\ \A j \in 1 .. Len(r.stash) - 1 : q[j] = IF j < i THEN r.stash[j] ELSE r.stash[j + 1]
    BY <1>1, RemoveAtIs
  <2> HIDE DEF q
  <2>4. /\ p.tree = r.tree \union e /\ p.stash = q /\ p.head = r.head /\ p.branches = r.branches
        /\ p.commits = r.commits /\ p.origin = r.origin
    BY <2>1 DEF Repos
  <2>5. p \in Repos
    BY <1>1, <2>1, <2>2, <2>3 DEF Repos
  <2>6. DOMAIN q = 1 .. Len(r.stash) - 1
    BY <1>1, <2>3
  <2>7. Aside(p) \subseteq Aside(r)
    <3> SUFFICES ASSUME NEW j \in DOMAIN q, NEW c \in q[j].files PROVE c \in Aside(r)
      BY <2>4 DEF Aside
    <3>1. j \in 1 .. Len(r.stash) /\ j + 1 \in 1 .. Len(r.stash)
      BY <1>1, <2>6
    <3>2. QED
      BY <1>1, <2>3, <2>6, <3>1 DEF Aside
  <2>8. e \subseteq Aside(r)
    BY DEF Aside
  <2>9. Aside(r) \subseteq e \union Aside(p)
    <3> SUFFICES ASSUME NEW j \in 1 .. Len(r.stash), NEW c \in r.stash[j].files, c \notin e PROVE c \in Aside(p)
      BY <1>1 DEF Aside
    <3>1. j < i \/ j > i
      BY <1>1
    <3>2. CASE j < i
      <4>1. j \in 1 .. Len(r.stash) - 1 /\ j \in DOMAIN q /\ q[j] = r.stash[j]
        BY <1>1, <2>3, <2>6, <3>2
      <4>2. QED
        BY <2>4, <4>1 DEF Aside
    <3>3. CASE j > i
      <4>1. j - 1 \in 1 .. Len(r.stash) - 1 /\ ~(j - 1 < i) /\ (j - 1) + 1 = j
        BY <1>1, <3>3
      <4>2. j - 1 \in DOMAIN q /\ q[j - 1] = r.stash[j]
        BY <2>3, <2>6, <4>1
      <4>3. QED
        BY <2>4, <4>2 DEF Aside
    <3>4. QED
      BY <3>1, <3>2, <3>3
  <2> HIDE DEF e
  <2>10. QED
    BY <1>3, <2>3, <2>4, <2>5, <2>7, <2>8, <2>9
<1>4. QED
  BY <1>2, <1>3

\* The stash has one entry, the safety stash of s.
OnlyOf(r, s) == Len(r.stash) = 1 /\ r.stash[1].label = "user_pre_agent" /\ r.stash[1].of = s

\* The restoration of the safety stash of s pops at most one entry.
LEMMA RestoreIs ==
  ASSUME NEW r \in Repos, NEW s \in Sessions, NEW conflict \in BOOLEAN,
         NEW p, p = RestoreUserStash(r, s, conflict)
  PROVE  /\ p \in Repos /\ r.tree \subseteq p.tree
         /\ p.tree \union Aside(p) = r.tree \union Aside(r)
         /\ p.head = r.head /\ p.branches = r.branches /\ p.commits = r.commits /\ p.origin = r.origin
         /\ ~conflict /\ (r.stash = <<>> \/ OnlyOf(r, s)) => p.stash = <<>>
<1> DEFINE own == {i \in DOMAIN r.stash : r.stash[i].label = "user_pre_agent" /\ r.stash[i].of = s}
           n == CHOOSE i \in own : \A j \in own : i <= j
<1>0. r.stash \in Seq(Entries) /\ DOMAIN r.stash = 1 .. Len(r.stash) /\ Len(r.stash) \in Nat
  BY DEF Repos
<1>1. CASE own = {}
  <2>1. p = r
    BY <1>1 DEF RestoreUserStash
  <2>2. ~(Len(r.stash) = 1 /\ r.stash[1].label = "user_pre_agent" /\ r.stash[1].of = s)
    BY <1>0, <1>1
  <2>3. QED
    BY <2>1, <2>2 DEF OnlyOf
<1>2. CASE own # {}
  <2>1. n \in own
    <3>1. own \subseteq Nat
      BY <1>0
    <3>2. \E i \in own : \A j \in own : i <= j
      <4> DEFINE before == {ij \in Nat \X Nat : ij[1] < ij[2]}
      <4> HIDE DEF own
      <4>1. IsWellFoundedOn(before, Nat)
        BY NatLessThanWellFounded DEF OpToRel
      <4> HIDE DEF before
      <4>2. \E i \in own : \A j \in own : <<j, i>> \notin before
        BY <1>2, <3>1, <4>1, WFMin
      <4>3. PICK i \in own : \A j \in own : <<j, i>> \notin before
        BY <4>2
      <4>4. ASSUME NEW j \in own PROVE i <= j
        <5>1. i \in Nat /\ j \in Nat /\ <<j, i>> \notin before
          BY <3>1, <4>3
        <5>2. ~(j < i)
          BY <5>1 DEF before
        <5>3. QED
          BY <5>1, <5>2
      <4>5. QED
        BY <4>4
    <3>3. QED
      BY <3>2
  <2>2. n \in DOMAIN r.stash
    BY <2>1
  <2>3. p = Pop(r, n, conflict)
    BY <1>2 DEF RestoreUserStash
  <2>4. r.stash # <<>>
    BY <1>0, <2>2
  <2> HIDE DEF n, own
  <2>5. /\ p \in Repos /\ r.tree \subseteq p.tree
        /\ p.tree \union Aside(p) = r.tree \union Aside(r)
        /\ p.head = r.head /\ p.branches = r.branches /\ p.commits = r.commits /\ p.origin = r.origin
        /\ ~conflict => Len(p.stash) = Len(r.stash) - 1
    BY <2>2, <2>3, PopIs
  <2>6. ~conflict /\ Len(r.stash) = 1 => p.stash = <<>>
    <3>1. p.stash \in Seq(Entries)
      BY <2>5 DEF Repos
    <3>2. QED
      BY <2>5, <3>1
  <2>7. QED
    BY <2>4, <2>5, <2>6 DEF OnlyOf
<1>3. QED
  BY <1>1, <1>2

\* The commands that leave the stash alone.
LEMMA ResetIs ==
  ASSUME NEW r \in Repos, NEW p, p = ResetHard(r)
  PROVE  /\ p \in Repos /\ p.tree = {c \in r.tree : c[2] = "untracked"}
         /\ p.stash = r.stash /\ p.head = r.head /\ p.branches = r.branches
         /\ p.commits = r.commits /\ p.origin = r.origin /\ Kept(p) = Kept(r)
BY DEF ResetHard, Repos, Kept

LEMMA CommitIs ==
  ASSUME NEW r \in Repos, r.head \in r.branches, NEW p, p = Commit(r)
  PROVE  /\ p \in Repos /\ p.tree = {} /\ p.stash = r.stash /\ p.head = r.head
         /\ p.branches = r.branches /\ p.origin = r.origin
         /\ p.commits = [r.commits EXCEPT ![r.head] = r.commits[r.head] \union r.tree]
         /\ Kept(p) = Kept(r) \union r.tree
<1>1. r.commits \in [Branches -> SUBSET Changes] /\ r.head \in Branches /\ r.branches \subseteq Branches
      /\ r.tree \subseteq Changes
  BY DEF Repos
<1>2. p = [r EXCEPT !.commits = [r.commits EXCEPT ![r.head] = r.commits[r.head] \union r.tree], !.tree = {}]
  BY DEF Commit, Repos
<1>3. [r.commits EXCEPT ![r.head] = r.commits[r.head] \union r.tree] \in [Branches -> SUBSET Changes]
  BY <1>1
<1>4. /\ p \in Repos /\ p.tree = {} /\ p.stash = r.stash /\ p.head = r.head
      /\ p.branches = r.branches /\ p.origin = r.origin
      /\ p.commits = [r.commits EXCEPT ![r.head] = r.commits[r.head] \union r.tree]
  BY <1>2, <1>3 DEF Repos
<1>5. /\ p.commits[r.head] = r.commits[r.head] \union r.tree
      /\ \A b \in Branches \ {r.head} : p.commits[b] = r.commits[b]
  BY <1>1, <1>4
<1>6. Kept(p) = Kept(r) \union r.tree
  BY <1>1, <1>4, <1>5 DEF Kept
<1>7. QED
  BY <1>4, <1>6

LEMMA CheckoutIs ==
  ASSUME NEW r \in Repos, NEW b \in Branches, NEW p, p = Checkout(r, b)
  PROVE  /\ p \in Repos /\ p.tree = r.tree /\ p.stash = r.stash /\ p.head = b
         /\ p.branches = r.branches /\ p.commits = r.commits /\ p.origin = r.origin
         /\ Kept(p) = Kept(r)
BY DEF Checkout, Repos, Kept

LEMMA MergeIs ==
  ASSUME NEW r \in Repos, r.head \in r.branches, NEW b \in r.branches, NEW p, p = Merge(r, b)
  PROVE  /\ p \in Repos /\ p.tree = r.tree /\ p.stash = r.stash /\ p.head = r.head
         /\ p.branches = r.branches /\ p.origin = r.origin
         /\ p.commits = [r.commits EXCEPT ![r.head] = r.commits[r.head] \union r.commits[b]]
         /\ Kept(p) = Kept(r)
<1>1. r.commits \in [Branches -> SUBSET Changes] /\ r.head \in Branches /\ r.branches \subseteq Branches
  BY DEF Repos
<1>2. p = [r EXCEPT !.commits = [r.commits EXCEPT ![r.head] = r.commits[r.head] \union r.commits[b]]]
  BY DEF Merge, Repos
<1>3. [r.commits EXCEPT ![r.head] = r.commits[r.head] \union r.commits[b]] \in [Branches -> SUBSET Changes]
  <2>1. b \in Branches
    BY <1>1
  <2>2. QED
    BY <1>1, <2>1
<1>4. /\ p \in Repos /\ p.tree = r.tree /\ p.stash = r.stash /\ p.head = r.head
      /\ p.branches = r.branches /\ p.origin = r.origin
      /\ p.commits = [r.commits EXCEPT ![r.head] = r.commits[r.head] \union r.commits[b]]
  BY <1>2, <1>3 DEF Repos
<1>5. /\ p.commits[r.head] = r.commits[r.head] \union r.commits[b]
      /\ \A d \in Branches \ {r.head} : p.commits[d] = r.commits[d]
  BY <1>1, <1>4
<1>6. Kept(p) = Kept(r)
  BY <1>1, <1>4, <1>5 DEF Kept
<1>7. QED
  BY <1>4, <1>6

\* Deleting a branch whose commits another branch has destroys nothing.
LEMMA DeleteIs ==
  ASSUME NEW r \in Repos, NEW s \in Sessions, NEW t \in r.branches \ {s},
         r.commits[s] \subseteq r.commits[t], NEW p, p = Delete(r, s)
  PROVE  /\ p \in Repos /\ p.tree = r.tree /\ p.stash = r.stash /\ p.head = r.head
         /\ p.branches = r.branches \ {s} /\ p.commits = r.commits /\ p.origin = r.origin
         /\ Kept(p) = Kept(r)
<1>1. /\ p \in Repos /\ p.tree = r.tree /\ p.stash = r.stash /\ p.head = r.head
      /\ p.branches = r.branches \ {s} /\ p.commits = r.commits /\ p.origin = r.origin
  BY DEF Delete, Repos
<1>2. Kept(p) = Kept(r)
  BY <1>1 DEF Kept
<1>3. QED
  BY <1>1, <1>2

\* What a finalisation that undoes the work leaves, and each step on its way.
LEMMA RefusedIs ==
  ASSUME NEW r \in Repos, NEW s \in Sessions, s \in r.branches, NEW t \in r.branches \ {s},
         r.commits[s] = r.commits[t],
         NEW p, p \in {ResetHard(r), Checkout(ResetHard(r), t), Refused(r, s, t)}
  PROVE  /\ p \in Repos /\ p.tree = {c \in r.tree : c[2] = "untracked"} /\ p.stash = r.stash
         /\ p.origin = r.origin /\ Kept(p) = Kept(r)
         /\ p.head \in {r.head, t} /\ p.branches \in {r.branches, r.branches \ {s}}
         /\ p.branches # r.branches => p.head = t
         /\ p = Refused(r, s, t) => p.head = t /\ p.branches = r.branches \ {s}
<1> DEFINE a == ResetHard(r)
           b == Checkout(a, t)
           d == Delete(b, s)
<1>1. /\ a \in Repos /\ a.tree = {c \in r.tree : c[2] = "untracked"}
      /\ a.stash = r.stash /\ a.head = r.head /\ a.branches = r.branches
      /\ a.commits = r.commits /\ a.origin = r.origin /\ Kept(a) = Kept(r)
  BY ResetIs
<1>2. t \in Branches /\ Refused(r, s, t) = d
  BY DEF Repos, Refused
<1> HIDE DEF a
<1>3. /\ b \in Repos /\ b.tree = a.tree /\ b.stash = a.stash /\ b.head = t
      /\ b.branches = a.branches /\ b.commits = a.commits /\ b.origin = a.origin /\ Kept(b) = Kept(a)
  BY <1>1, <1>2, CheckoutIs
<1> HIDE DEF b
<1>4. /\ d \in Repos /\ d.tree = b.tree /\ d.stash = b.stash /\ d.head = b.head
      /\ d.branches = b.branches \ {s} /\ d.commits = b.commits /\ d.origin = b.origin /\ Kept(d) = Kept(b)
  BY <1>1, <1>3, DeleteIs
<1> HIDE DEF d
<1>5. p \in {a, b, d}
  BY <1>2 DEF a, b
<1>6. d.branches # r.branches /\ b.branches = r.branches
  BY <1>1, <1>3, <1>4
<1>7. QED
  BY <1>1, <1>2, <1>3, <1>4, <1>5, <1>6

\* What a finalisation that accepts the work leaves, and each step on its way, whether the
\* commit was made or not.
LEMMA AcceptedIs ==
  ASSUME NEW r \in Repos, NEW s \in Sessions, s \in r.branches, r.head = s, NEW t \in r.branches \ {s},
         r.commits[s] = r.commits[t], NEW a \in {r, Commit(r)},
         NEW p, p \in {a, Checkout(a, t), Merge(Checkout(a, t), s), Accepted(a, s, t)}
  PROVE  /\ p \in Repos /\ p.stash = r.stash /\ p.origin = r.origin
         /\ p.tree \subseteq r.tree /\ Kept(r) \subseteq Kept(p)
         /\ p.tree \union Kept(p) = r.tree \union Kept(r)
         /\ a = Commit(r) => r.tree \subseteq Kept(p)
         /\ p.head \in {s, t} /\ p.branches \in {r.branches, r.branches \ {s}}
         /\ p.branches # r.branches => p.head = t
         /\ p = Accepted(a, s, t) => p.head = t /\ p.branches = r.branches \ {s}
<1> DEFINE b == Checkout(a, t)
           d == Merge(b, s)
           e == Delete(d, s)
<1>1. /\ a \in Repos /\ a.stash = r.stash /\ a.head = s
      /\ a.branches = r.branches /\ a.origin = r.origin
      /\ a.tree \subseteq r.tree /\ Kept(r) \subseteq Kept(a)
      /\ a.tree \union Kept(a) = r.tree \union Kept(r)
      /\ a = Commit(r) => r.tree \subseteq Kept(a)
  <2>1. CASE a = Commit(r)
    <3>1. /\ a \in Repos /\ a.tree = {} /\ a.stash = r.stash /\ a.head = s
          /\ a.branches = r.branches /\ a.origin = r.origin /\ Kept(a) = Kept(r) \union r.tree
      BY <2>1, CommitIs
    <3>2. QED
      BY <3>1
  <2>2. CASE a = r /\ a # Commit(r)
    BY <2>2
  <2>3. QED
    BY <2>1, <2>2
<1>2. t \in Branches /\ s \in Branches /\ Accepted(a, s, t) = e
  BY DEF Repos, Accepted
<1>3. /\ b \in Repos /\ b.tree = a.tree /\ b.stash = a.stash /\ b.head = t
      /\ b.branches = a.branches /\ b.origin = a.origin /\ Kept(b) = Kept(a)
  BY <1>1, <1>2, CheckoutIs
<1> HIDE DEF b
<1>4. /\ d \in Repos /\ d.tree = b.tree /\ d.stash = b.stash /\ d.head = b.head
      /\ d.branches = b.branches /\ d.origin = b.origin /\ Kept(d) = Kept(b)
      /\ d.commits = [b.commits EXCEPT ![t] = b.commits[t] \union b.commits[s]]
  BY <1>1, <1>3, MergeIs
<1>5. b.commits \in [Branches -> SUBSET Changes]
  BY <1>3 DEF Repos
<1>6. d.commits[s] \subseteq d.commits[t]
  BY <1>2, <1>4, <1>5
<1> HIDE DEF d
<1>11. d \in Repos /\ t \in d.branches \ {s} /\ d.commits[s] \subseteq d.commits[t]
  BY <1>1, <1>3, <1>4, <1>6
<1>7. /\ e \in Repos /\ e.tree = d.tree /\ e.stash = d.stash /\ e.head = d.head
      /\ e.branches = d.branches \ {s} /\ e.origin = d.origin /\ Kept(e) = Kept(d)
  BY <1>11, DeleteIs
<1> HIDE DEF e
<1>8. p \in {a, b, d, e}
  BY <1>2 DEF b, d
<1>9. e.branches # r.branches /\ b.branches = r.branches /\ d.branches = r.branches
  BY <1>1, <1>3, <1>4, <1>7
<1>12. /\ p \in Repos /\ p.tree = a.tree /\ p.stash = a.stash /\ p.origin = a.origin
       /\ Kept(p) = Kept(a)
  BY <1>1, <1>3, <1>4, <1>7, <1>8
<1>13. /\ p.head \in {s, t} /\ p.branches \in {r.branches, r.branches \ {s}}
       /\ p.branches # r.branches => p.head = t
       /\ p = Accepted(a, s, t) => p.head = t /\ p.branches = r.branches \ {s}
  BY <1>1, <1>2, <1>3, <1>4, <1>7, <1>8, <1>9
<1>10. QED
  BY <1>1, <1>12, <1>13

-----------------------------------------------------------------------------
(* The invariant.                                                          *)

\* The sessions that have a branch and will finalise it.
Open == {s \in Sessions : phase[s] \in {"working", "suspended"}}

Free == "linked" \notin world
NoTools == "tools" \notin world
Committing == "commit" \notin world

\* A linked worktree is only written in: its changes move between the tree and the stash.
Isolated ==
  ~Free =>
    /\ repo.head = Home /\ repo.branches = {Home, Main}
    /\ \A b \in Branches : repo.commits[b] = {}
    /\ \A s \in Sessions : phase[s] \in {"idle", "in_place", "done", "dead"}
    /\ UserWorkSafe

OneAtATime ==
  Free => \A s, t \in Sessions : phase[s] \in Active /\ phase[t] \in Active => s = t

\* The session at work is on its branch, made from one that exists and has all it has.
Forest ==
  Free =>
    /\ {Home, Main, repo.head} \subseteq repo.branches
    /\ \A s \in Sessions : phase[s] = "idle" => s \notin repo.branches
    /\ \A s \in Open : /\ repo.head = s /\ s \in repo.branches
                       /\ repo.origin[s] \in repo.branches \ {s}
                       /\ repo.commits[s] = repo.commits[repo.origin[s]]

\* When no command fails and the process does not die, every session starts from Home, goes
\* back there and leaves no branch.
Tidy ==
  Free /\ world \subseteq {"tools"} =>
    /\ repo.branches = {Home, Main} \union Open
    /\ Open = {} => repo.head = Home
    /\ \A s \in Open : repo.origin[s] = Home
    /\ \A s \in Sessions : phase[s] \in {"idle", "working", "suspended", "merged", "rolled_back"}

\* Without the tools either, the stash has only what the session at work put aside.
Emptied ==
  world = {} =>
    /\ Open = {} => repo.stash = <<>>
    /\ \A s \in Open : repo.stash = <<>> \/ OnlyOf(repo, s)

\* The work of a session stays in the working tree until it is finalised.
Traced ==
  Free /\ NoTools =>
    /\ Somewhere(repo) \subseteq written
    /\ \A s \in Sessions, k \in Kinds :
         /\ phase[s] = "idle" => <<s, k>> \notin written
         /\ s \in Open => <<s, k>> \notin Aside(repo) \union Kept(repo)
         /\ s \in Open /\ <<s, k>> \in written => <<s, k>> \in repo.tree

\* In an orderly world the tree has only what the session at work wrote.
Alone ==
  Orderly => /\ \A s \in Open : \A c \in repo.tree : c[1] = s
             /\ \A s \in Sessions : phase[s] # "in_place"

\* What the user and the sessions are promised.
Promised == UserWorkKept /\ UserWorkPrivate /\ UntrackedKept /\ AcceptedWorkKept /\ RefusedWorkGone

Inv == TypeOK /\ Isolated /\ OneAtATime /\ Forest /\ Tidy /\ Emptied /\ Traced /\ Alone /\ Promised

\* The sessions take turns, or leave the repository alone.
TakeTurns == \A w \in Worlds : "overlap" \in w \/ "suspended" \in w => "linked" \in w

LEMMA Views == Stashed = Aside(repo) /\ Committed = Kept(repo)
BY DEF Stashed, Committed, Aside, Kept

LEMMA ViewsNext == Stashed' = Aside(repo') /\ Committed' = Kept(repo')
BY DEF Stashed, Committed, Aside, Kept

LEMMA InvGives == Inv => UserWorkSound /\ VerdictsApplied /\ Returned
<1> SUFFICES ASSUME Inv PROVE UserWorkSound /\ VerdictsApplied /\ Returned
  OBVIOUS
<1>1. UserWorkSound /\ VerdictsApplied
  BY DEF Inv, Promised, UserWorkSound, VerdictsApplied
<1>2. LinkedUntouched
  BY DEF Inv, Isolated, Free, LinkedUntouched
<1>3. BackHome
  <2> SUFFICES ASSUME Quiet PROVE /\ world \in {{}, {"tools"}} \/ ~Free => repo.head = Home
                                  /\ world = {} => repo.branches = {Home, Main} /\ repo.stash = <<>>
    BY DEF BackHome, Free
  <2>1. Open = {}
    BY DEF Quiet, Open, Active
  <2>2. CASE ~Free
    BY <2>2 DEF Inv, Isolated, Free
  <2>3. CASE Free
    BY <2>1, <2>3 DEF Inv, Tidy, Emptied
  <2>4. QED
    BY <2>2, <2>3
<1>4. QED
  BY <1>1, <1>2, <1>3 DEF Returned

LEMMA Initially == Init => Inv
<1> SUFFICES ASSUME Init PROVE Inv
  OBVIOUS
<1>0. /\ repo.head = Home /\ repo.tree = {} /\ repo.stash = <<>> /\ repo.branches = {Home, Main}
      /\ repo.commits = [b \in Branches |-> {}] /\ repo.origin = [s \in Sessions |-> None]
      /\ written = {} /\ world \in Worlds
      /\ \A s \in Sessions : phase[s] = "idle"
  BY DEF Init
<1>1. TypeOK
  <2>1. repo \in Repos
    <3>1. <<>> \in Seq(Entries) /\ Home \in Branches /\ {Home, Main} \subseteq Branches
      BY DEF Branches
    <3>2. QED
      BY <3>1 DEF Init, Repos
  <2>2. QED
    BY <1>0, <2>1 DEF Init, TypeOK
<1>2. Aside(repo) = {} /\ Kept(repo) = {} /\ Open = {}
  BY <1>0 DEF Aside, Kept, Open, Branches
<1>3. Isolated /\ UserWorkKept
  BY <1>0 DEF Isolated, UserWorkSafe, UserWorkKept
<1>4. OneAtATime /\ Tidy /\ Emptied /\ Alone
  BY <1>0, <1>2 DEF OneAtATime, Active, Tidy, Emptied, Alone
<1>5. Forest
  BY <1>0, <1>2, GitConstants DEF Forest
<1>6. Traced
  BY <1>0, <1>2 DEF Traced, Somewhere
<1>7. UserWorkPrivate /\ UntrackedKept /\ AcceptedWorkKept /\ RefusedWorkGone
  BY <1>0, <1>2, Views DEF UserWorkPrivate, UntrackedKept, AcceptedWorkKept, RefusedWorkGone
<1>8. QED
  BY <1>1, <1>3, <1>4, <1>5, <1>6, <1>7 DEF Inv, Promised

-----------------------------------------------------------------------------
(* A linked worktree.                                                      *)

LEMMA IsolatedGives == TypeOK /\ Isolated /\ ~Free => Inv
<1> SUFFICES ASSUME TypeOK, Isolated, ~Free PROVE Inv
  OBVIOUS
<1>1. "linked" \in world /\ UserWorkSafe /\ \A s \in Sessions : phase[s] \in {"idle", "in_place", "done", "dead"}
  BY DEF Free, Isolated
<1>2. OneAtATime /\ Forest /\ Tidy /\ Emptied /\ Traced /\ Alone
  BY <1>1 DEF OneAtATime, Forest, Tidy, Emptied, Traced, Alone, Orderly
<1>3. Kept(repo) = {}
  BY GitConstants DEF Isolated, Kept, Branches
<1>4. UserWorkKept /\ UserWorkPrivate /\ UntrackedKept
  BY <1>1, <1>3, Views DEF UserWorkKept, UserWorkPrivate, UntrackedKept, UserWorkSafe, Kinds
<1>5. AcceptedWorkKept /\ RefusedWorkGone
  BY <1>1 DEF AcceptedWorkKept, RefusedWorkGone
<1>6. QED
  BY <1>2, <1>4, <1>5 DEF Inv, Promised

\* A write adds one change to the working tree.
LEMMA WriteIs ==
  ASSUME repo \in Repos, NEW c \in Changes, repo' = [repo EXCEPT !.tree = @ \union {c}]
  PROVE  /\ repo' \in Repos /\ repo'.tree = repo.tree \union {c}
         /\ UNCHANGED <<repo.head, repo.stash, repo.branches, repo.commits, repo.origin>>
         /\ Aside(repo') = Aside(repo) /\ Kept(repo') = Kept(repo)
<1>1. /\ repo' \in Repos /\ repo'.tree = repo.tree \union {c}
      /\ repo'.head = repo.head /\ repo'.stash = repo.stash /\ repo'.branches = repo.branches
      /\ repo'.commits = repo.commits /\ repo'.origin = repo.origin
  BY DEF Repos
<1>2. QED
  BY <1>1 DEF Aside, Kept

\* The tools move changes between the working tree and the stash; the rollback destroys
\* those of the tree.
LEMMA ToolIs ==
  ASSUME Inv, NEW s \in Sessions, CreateCheckpoint(s) \/ RollbackCheckpoint(s) \/ ApplyCheckpoint(s)
  PROVE  /\ repo' \in Repos /\ UNCHANGED <<phase, written, world>> /\ "tools" \in world
         /\ repo'.head = repo.head /\ repo'.branches = repo.branches
         /\ repo'.commits = repo.commits /\ repo'.origin = repo.origin
         /\ ~Free => repo'.tree \union Aside(repo') = repo.tree \union Aside(repo)
<1>0. repo \in Repos
  BY DEF Inv, TypeOK
<1>1. ASSUME NEW r \in Repos
      PROVE  LET p == PopCheckpoint(r) IN
             /\ p \in Repos /\ p.tree \union Aside(p) = r.tree \union Aside(r)
             /\ p.head = r.head /\ p.branches = r.branches /\ p.commits = r.commits /\ p.origin = r.origin
  <2>1. CASE r.stash = <<>>
    BY <2>1 DEF PopCheckpoint
  <2>2. CASE r.stash # <<>>
    <3>1. 1 \in DOMAIN r.stash
      BY <2>2 DEF Repos
    <3>2. PopCheckpoint(r) = Pop(r, 1, FALSE)
      BY <2>2 DEF PopCheckpoint
    <3>3. QED
      BY <3>1, <3>2, PopIs
  <2>3. QED
    BY <2>1, <2>2
<1>2. CASE CreateCheckpoint(s)
  <2>1. repo' = Push(repo, "agent_checkpoint", s) /\ UNCHANGED <<phase, written, world>> /\ "tools" \in world
    BY <1>2 DEF CreateCheckpoint, MayCall
  <2>2. /\ repo' \in Repos /\ repo'.tree = {} /\ Aside(repo') = repo.tree \union Aside(repo)
        /\ repo'.head = repo.head /\ repo'.branches = repo.branches
        /\ repo'.commits = repo.commits /\ repo'.origin = repo.origin
    <3>1. "agent_checkpoint" \in Labels
      BY DEF Labels
    <3>2. QED
      BY <1>0, <2>1, <3>1, PushIs
  <2>3. QED
    BY <2>1, <2>2
<1>3. CASE ApplyCheckpoint(s)
  <2>1. repo' = PopCheckpoint(repo) /\ UNCHANGED <<phase, written, world>> /\ "tools" \in world
    BY <1>3 DEF ApplyCheckpoint, MayCall
  <2>2. QED
    BY <1>0, <1>1, <2>1
<1>4. CASE RollbackCheckpoint(s)
  <2> DEFINE r == [repo EXCEPT !.tree = {}]
  <2>1. /\ repo' = PopCheckpoint(r) /\ UNCHANGED <<phase, written, world>> /\ "tools" \in world
        /\ Free
    BY <1>4 DEF RollbackCheckpoint, MayCall, LinkedWorktree, Free
  <2>2. r \in Repos /\ r.head = repo.head /\ r.branches = repo.branches
        /\ r.commits = repo.commits /\ r.origin = repo.origin
    BY <1>0 DEF Repos
  <2> HIDE DEF r
  <2>3. QED
    BY <1>1, <2>1, <2>2
<1>5. QED
  BY <1>2, <1>3, <1>4

LEMMA IsolatedKept ==
  ASSUME Inv, ~Free, repo' \in Repos, UNCHANGED <<repo.head, repo.branches, repo.commits, world>>,
         written' \subseteq Changes,
         phase' \in [Sessions -> {"idle", "in_place", "done", "dead"}],
         \A k \in Kinds : <<User, k>> \in written' =>
           <<User, k>> \in written \/ <<User, k>> \in repo'.tree \union Aside(repo'),
         repo.tree \union Aside(repo) \subseteq repo'.tree \union Aside(repo')
  PROVE  Inv'
<1>1. TypeOK'
  BY DEF Inv, TypeOK, Active, Ended
<1>2. Kept(repo) = {}
  BY GitConstants DEF Inv, Isolated, Kept, Branches
<1>3. \A k \in Kinds : <<User, k>> \in written => <<User, k>> \in repo.tree \union Aside(repo)
  BY <1>2, Views DEF Inv, Isolated, UserWorkSafe
<1>4. UserWorkSafe'
  BY <1>3, ViewsNext DEF UserWorkSafe
<1>5. Isolated' /\ ~Free'
  BY <1>4 DEF Inv, Isolated, Free
<1>6. (TypeOK /\ Isolated /\ ~Free => Inv)'
  BY IsolatedGives, PTL
<1>7. QED
  BY <1>1, <1>5, <1>6

LEMMA IsolatedStep == ASSUME Inv, ~Free, Next PROVE Inv'
<1>1. /\ repo \in Repos /\ phase \in [Sessions -> {"idle", "in_place", "done", "dead"}]
      /\ written \subseteq Changes /\ LinkedWorktree
  BY DEF Inv, TypeOK, Isolated, Free, LinkedWorktree
<1>2. CASE UNCHANGED <<repo, written, world>> /\ phase' \in [Sessions -> {"idle", "in_place", "done", "dead"}]
  BY <1>1, <1>2, IsolatedKept
<1>3. ASSUME NEW c \in Changes, repo' = [repo EXCEPT !.tree = @ \union {c}], written' = written \union {c},
             UNCHANGED <<phase, world>>
      PROVE  Inv'
  <2>1. /\ repo' \in Repos /\ repo'.tree = repo.tree \union {c}
        /\ UNCHANGED <<repo.head, repo.branches, repo.commits>> /\ Aside(repo') = Aside(repo)
    BY <1>1, <1>3, WriteIs
  <2>2. \A k \in Kinds : <<User, k>> \in written' => <<User, k>> \in written \/ <<User, k>> \in repo'.tree
    BY <1>3, <2>1
  <2>3. QED
    BY <1>1, <1>3, <2>1, <2>2, IsolatedKept
<1>4. ASSUME NEW s \in Sessions, CreateCheckpoint(s) \/ RollbackCheckpoint(s) \/ ApplyCheckpoint(s) PROVE Inv'
  BY <1>1, <1>4, ToolIs, IsolatedKept
<1>5. ASSUME NEW s \in Sessions, Prepare(s) \/ LeaveInPlace(s) PROVE Inv'
  BY <1>1, <1>2, <1>5 DEF Prepare, LeaveInPlace
<1>6. ASSUME NEW s \in Sessions, Suspend(s) \/ Resume(s) \/ \E success \in BOOLEAN : Finalise(s, success) PROVE Inv'
  BY <1>1, <1>6 DEF Suspend, Resume, Finalise, MayFinalise
<1>7. ASSUME NEW s \in Sessions, Crash(s) PROVE Inv'
  <2>1. ~MayFinalise(s, TRUE) /\ ~MayFinalise(s, FALSE)
    BY <1>1 DEF MayFinalise
  <2>2. UNCHANGED <<repo, written, world>> /\ phase' \in [Sessions -> {"idle", "in_place", "done", "dead"}]
    BY <1>1, <1>7, <2>1 DEF Crash
  <2>3. QED
    BY <1>2, <2>2
<1>8. ASSUME NEW s \in Sessions, NEW k \in Kinds, AgentWrites(s, k) PROVE Inv'
  <2>1. <<s, k>> \in Changes
    BY DEF Changes
  <2>2. QED
    BY <1>3, <1>8, <2>1 DEF AgentWrites
<1>9. ASSUME NEW k \in Kinds, UserWrites(k) PROVE Inv'
  <2>1. <<User, k>> \in Changes
    BY DEF Changes
  <2>2. QED
    BY <1>3, <1>9, <2>1 DEF UserWrites
<1>10. QED
  BY <1>4, <1>5, <1>6, <1>7, <1>8, <1>9 DEF Next

-----------------------------------------------------------------------------
(* A repository the sessions switch from branch to branch.                 *)

LEMMA InvIs ==
  ASSUME Inv
  PROVE  /\ repo \in Repos /\ repo.branches \subseteq Branches /\ repo.head \in Branches
         /\ phase \in [Sessions -> Active \union Ended \union {"idle"}]
         /\ written \subseteq Changes /\ world \in Worlds
         /\ Somewhere(repo) \subseteq Changes
<1>1. repo \in Repos
  BY DEF Inv, TypeOK
<1>2. /\ repo.branches \subseteq Branches /\ repo.head \in Branches /\ repo.tree \subseteq Changes
      /\ repo.commits \in [Branches -> SUBSET Changes] /\ repo.stash \in Seq(Entries)
  BY <1>1 DEF Repos
<1>3. Kept(repo) \subseteq Changes
  BY <1>2 DEF Kept
<1>4. Aside(repo) \subseteq Changes
  <2> SUFFICES ASSUME NEW i \in DOMAIN repo.stash, NEW c \in repo.stash[i].files PROVE c \in Changes
    BY DEF Aside
  <2>1. repo.stash[i] \in Entries
    BY <1>2
  <2>2. QED
    BY <2>1 DEF Entries
<1>5. QED
  BY <1>1, <1>2, <1>3, <1>4 DEF Inv, TypeOK, Somewhere

\* The promises, where the sessions have branches.
OrderlyKept ==
  Orderly => \A k \in Kinds : /\ <<User, k>> \in written => <<User, k>> \in Somewhere(repo)
                              /\ <<User, k>> \notin Kept(repo)
UntrackedThere ==
  NoTools /\ <<User, "untracked">> \in written => <<User, "untracked">> \in Somewhere(repo)
AcceptedThere ==
  NoTools => \A s \in Sessions, k \in Kinds :
               phase[s] = "merged" /\ <<s, k>> \in written =>
                 /\ Committing => <<s, k>> \in Kept(repo)
                 /\ Orderly => <<s, k>> \in Somewhere(repo)
RefusedNowhere ==
  NoTools => \A s \in Sessions : phase[s] = "rolled_back" => <<s, "tracked">> \notin Somewhere(repo)
Covered == OrderlyKept /\ UntrackedThere /\ AcceptedThere /\ RefusedNowhere

LEMMA PromisedIs == Free /\ written \subseteq Changes => (Promised <=> Covered)
<1> SUFFICES ASSUME Free, written \subseteq Changes PROVE Promised <=> Covered
  OBVIOUS
<1>1. \A c \in written : c = <<c[1], c[2]>> /\ c[2] \in Kinds
  BY DEF Changes
<1>2. UserWorkKept <=> (Orderly => \A k \in Kinds : <<User, k>> \in written => <<User, k>> \in Somewhere(repo))
  BY Views DEF Free, UserWorkKept, UserWorkSafe, Somewhere
<1>3. UserWorkPrivate <=> (Orderly => \A k \in Kinds : <<User, k>> \notin Kept(repo))
  BY Views DEF Free, UserWorkPrivate
<1>4. UntrackedKept <=> (NoTools /\ <<User, "untracked">> \in written => <<User, "untracked">> \in Somewhere(repo))
  BY Views DEF NoTools, UntrackedKept, Somewhere
<1>5. AcceptedWorkKept <=> AcceptedThere
  <2>1. ASSUME AcceptedWorkKept, NoTools, NEW s \in Sessions, NEW k \in Kinds,
               phase[s] = "merged", <<s, k>> \in written
        PROVE  /\ Committing => <<s, k>> \in Kept(repo)
               /\ Orderly => <<s, k>> \in Somewhere(repo)
    BY <2>1, Views DEF AcceptedWorkKept, NoTools, Committing, Somewhere
  <2>2. ASSUME AcceptedThere, NEW c \in written, NoTools, c[1] \in Sessions, phase[c[1]] = "merged"
        PROVE  /\ Committing => c \in Committed
               /\ Orderly => c \in repo.tree \cup Stashed \cup Committed
    BY <1>1, <2>2, Views DEF AcceptedThere, Somewhere
  <2>3. QED
    BY <2>1, <2>2 DEF AcceptedWorkKept, AcceptedThere, NoTools, Committing
<1>6. RefusedWorkGone <=>
        (NoTools => \A s \in Sessions : phase[s] = "rolled_back" => <<s, "tracked">> \notin Somewhere(repo))
  BY Views DEF RefusedWorkGone, NoTools, Somewhere
<1>7. QED
  BY <1>2, <1>3, <1>4, <1>5, <1>6 DEF Promised, Covered, OrderlyKept, UntrackedThere, RefusedNowhere

\* A session ends, by a verdict or by a death.  It loses at most edits of its working tree.
LEMMA EndStep ==
  ASSUME Inv, Free, NEW s \in Sessions, phase[s] \in Active, UNCHANGED <<written, world>>,
         NEW p \in Ended, phase' = [phase EXCEPT ![s] = p],
         repo' \in Repos, {Home, Main, repo'.head} \subseteq repo'.branches,
         repo'.branches \subseteq repo.branches,
         Somewhere(repo') \subseteq Somewhere(repo), Kept(repo) \subseteq Kept(repo'),
         Kept(repo') \subseteq Kept(repo) \union repo.tree,
         \A c \in Somewhere(repo) \ Somewhere(repo') : c \in repo.tree /\ c[2] = "tracked",
         p = "merged" => /\ s \in Open /\ Somewhere(repo) \subseteq Somewhere(repo')
                         /\ Committing => repo.tree \subseteq Kept(repo'),
         p = "rolled_back" =>
           s \in Open /\ \A c \in Somewhere(repo') : c \in Aside(repo) \union Kept(repo) \/ c[2] # "tracked",
         world \subseteq {"tools"} =>
           p \in {"merged", "rolled_back"} /\ repo'.head = Home /\ repo'.branches = {Home, Main},
         world = {} => repo'.stash = <<>>
  PROVE  Inv'
<1>1. /\ phase \in [Sessions -> Active \union Ended \union {"idle"}] /\ written \subseteq Changes
      /\ world \in Worlds /\ written' \subseteq Changes
  BY InvIs
<1>2. TypeOK' /\ Free'
  BY <1>1 DEF TypeOK, Free
<1>3. /\ phase'[s] = p /\ p \notin Active /\ p # "idle" /\ phase'[s] # "in_place"
      /\ \A t \in Sessions \ {s} : phase'[t] = phase[t] /\ phase[t] \notin Active
  BY <1>1 DEF Inv, OneAtATime, Active, Ended
<1>4. Open' = {} /\ \A t \in Sessions : phase'[t] \notin Active
  BY <1>3 DEF Open, Active
<1>5. OneAtATime' /\ Isolated' /\ Alone'
  BY <1>2, <1>3, <1>4 DEF OneAtATime, Isolated, Alone, Active
<1>6. Forest'
  BY <1>3, <1>4 DEF Inv, Forest, Free
<1>7. Tidy'
  BY <1>3, <1>4 DEF Inv, Tidy, Free
<1>8. Emptied'
  BY <1>4 DEF Emptied
<1>9. Traced'
  BY <1>3, <1>4 DEF Inv, Traced, Free, NoTools
<1>0. Covered
  BY <1>1, PromisedIs DEF Inv
<1>10. Covered'
  <2>1. (Orderly <=> Orderly') /\ (NoTools <=> NoTools') /\ (Committing <=> Committing')
    BY DEF Orderly, NoTools, Committing
  <2>2. OrderlyKept'
    <3> SUFFICES ASSUME Orderly, NEW k \in Kinds
                 PROVE  /\ <<User, k>> \in written => <<User, k>> \in Somewhere(repo')
                        /\ <<User, k>> \notin Kept(repo')
      BY <2>1 DEF OrderlyKept
    <3>1. s \in Open
      BY DEF Inv, Alone, Open, Active
    <3>2. <<User, k>> \notin repo.tree
      BY <3>1, GitConstants DEF Inv, Alone
    <3>3. QED
      BY <1>0, <3>2 DEF Covered, OrderlyKept
  <2>3. UntrackedThere'
    BY <1>0, <2>1 DEF Covered, UntrackedThere
  <2>4. AcceptedThere'
    <3> SUFFICES ASSUME NoTools, NEW t \in Sessions, NEW k \in Kinds,
                        phase'[t] = "merged", <<t, k>> \in written
                 PROVE  /\ Committing => <<t, k>> \in Kept(repo')
                        /\ Orderly => <<t, k>> \in Somewhere(repo')
      BY <2>1 DEF AcceptedThere
    <3>1. CASE t = s
      <4>1. <<s, k>> \in repo.tree
        BY <1>3, <3>1 DEF Inv, Traced
      <4>2. QED
        BY <1>3, <3>1, <4>1 DEF Somewhere
    <3>2. CASE t # s
      <4>1. /\ Committing => <<t, k>> \in Kept(repo)
            /\ Orderly => <<t, k>> \in Somewhere(repo)
        BY <1>0, <1>3, <3>2 DEF Covered, AcceptedThere
      <4>2. Orderly => <<t, k>> \notin repo.tree
        <5>1. Orderly => s \in Open
          BY DEF Inv, Alone, Open, Active
        <5>2. QED
          BY <3>2, <5>1 DEF Inv, Alone
      <4>3. QED
        BY <4>1, <4>2
    <3>3. QED
      BY <3>1, <3>2
  <2>5. RefusedNowhere'
    <3> SUFFICES ASSUME NoTools, NEW t \in Sessions, phase'[t] = "rolled_back"
                 PROVE  <<t, "tracked">> \notin Somewhere(repo')
      BY <2>1 DEF RefusedNowhere
    <3>1. CASE t = s
      <4>1. <<s, "tracked">> \notin Aside(repo) \union Kept(repo)
        BY <1>3, <3>1 DEF Inv, Traced, Kinds
      <4>2. QED
        BY <1>3, <3>1, <4>1
    <3>2. CASE t # s
      BY <1>0, <1>3, <3>2 DEF Covered, RefusedNowhere
    <3>3. QED
      BY <3>1, <3>2
  <2>6. QED
    BY <2>2, <2>3, <2>4, <2>5 DEF Covered
<1>12. Promised'
  <2>1. (Free /\ written \subseteq Changes => (Promised <=> Covered))'
    BY PromisedIs, PTL
  <2>2. QED
    BY <1>1, <1>2, <1>10, <2>1
<1>11. QED
  BY <1>2, <1>5, <1>6, <1>7, <1>8, <1>9, <1>12 DEF Inv

LEMMA CoveredIs == Inv /\ Free => Covered
BY InvIs, PromisedIs DEF Inv

LEMMA FreeGives ==
  TypeOK /\ Free /\ OneAtATime /\ Forest /\ Tidy /\ Emptied /\ Traced /\ Alone /\ Covered => Inv
<1>1. TypeOK => written \subseteq Changes
  BY DEF TypeOK
<1>2. Free => Isolated
  BY DEF Isolated
<1>3. QED
  BY <1>1, <1>2, PromisedIs DEF Inv

\* A session starts: on a branch of its own, in place, or it dies on the way.
LEMMA StartStep ==
  ASSUME Inv, Free, NEW s \in Sessions, phase[s] = "idle", \A t \in Sessions : phase[t] \notin Active,
         UNCHANGED <<written, world>>,
         NEW p \in {"working", "in_place", "dead"}, phase' = [phase EXCEPT ![s] = p],
         repo' \in Repos, {Home, Main, repo'.head} \subseteq repo'.branches,
         repo'.branches \in {repo.branches, repo.branches \union {s}},
         Somewhere(repo') = Somewhere(repo), Kept(repo') = Kept(repo),
         p = "working" =>
           /\ repo'.head = s /\ repo'.branches = repo.branches \union {s} /\ repo'.origin[s] = repo.head
           /\ repo'.commits[s] = repo.commits[repo.head] /\ repo'.commits[repo.head] = repo.commits[repo.head],
         Orderly => p # "in_place" /\ repo'.tree = {},
         world \subseteq {"tools"} => p = "working",
         world = {} => repo'.stash = <<>> \/ OnlyOf(repo', s)
  PROVE  Inv'
<1>1. /\ phase \in [Sessions -> Active \union Ended \union {"idle"}] /\ written \subseteq Changes
      /\ world \in Worlds
  BY InvIs
<1>2. TypeOK' /\ Free'
  BY <1>1 DEF TypeOK, Free, Active, Ended
<1>3. /\ phase'[s] = p
      /\ \A t \in Sessions \ {s} : phase'[t] = phase[t] /\ phase[t] \notin Active
  BY <1>1
<1>4. Open = {} /\ Open' = (IF p = "working" THEN {s} ELSE {})
  BY <1>3 DEF Open, Active
<1>5. OneAtATime' /\ Alone'
  <2>1. OneAtATime'
    BY <1>3 DEF OneAtATime
  <2>2. Alone'
    BY <1>3, <1>4 DEF Inv, Alone, Orderly
  <2>3. QED
    BY <2>1, <2>2
<1>6. Forest'
  <2>1. s \notin repo.branches /\ repo.head \in repo.branches
    BY DEF Inv, Forest
  <2>2. QED
    BY <1>3, <1>4, <2>1 DEF Inv, Forest, Free
<1>7. Tidy'
  <2> SUFFICES ASSUME world \subseteq {"tools"}
               PROVE  /\ repo'.branches = {Home, Main} \union Open'
                      /\ Open' = {} => repo'.head = Home
                      /\ \A t \in Open' : repo'.origin[t] = Home
                      /\ \A t \in Sessions : phase'[t] \in {"idle", "working", "suspended", "merged", "rolled_back"}
    BY DEF Tidy
  <2>1. p = "working" /\ repo.head = Home /\ repo.branches = {Home, Main}
    BY <1>4 DEF Inv, Tidy
  <2>2. QED
    BY <1>3, <1>4, <2>1 DEF Inv, Tidy
<1>8. Emptied'
  <2> SUFFICES ASSUME world = {}
               PROVE  /\ Open' = {} => repo'.stash = <<>>
                      /\ \A t \in Open' : repo'.stash = <<>> \/ OnlyOf(repo', t)
    BY DEF Emptied, OnlyOf
  <2>1. p = "working"
    OBVIOUS
  <2>2. QED
    BY <1>4, <2>1
<1>9. Traced'
  <2> SUFFICES ASSUME NoTools
               PROVE  /\ Somewhere(repo') \subseteq written
                      /\ \A t \in Sessions, k \in Kinds :
                           /\ phase'[t] = "idle" => <<t, k>> \notin written
                           /\ t \in Open' => <<t, k>> \notin Aside(repo') \union Kept(repo')
                           /\ t \in Open' /\ <<t, k>> \in written => <<t, k>> \in repo'.tree
    BY DEF Traced, NoTools
  <2>1. Somewhere(repo) \subseteq written /\ \A k \in Kinds : <<s, k>> \notin written
    BY DEF Inv, Traced
  <2>2. Aside(repo') \union Kept(repo') \subseteq written
    BY <2>1 DEF Somewhere
  <2>3. QED
    BY <1>3, <1>4, <2>1, <2>2 DEF Inv, Traced
<1>10. Covered'
  <2>1. Covered /\ (Orderly <=> Orderly') /\ (NoTools <=> NoTools') /\ (Committing <=> Committing')
    BY CoveredIs DEF Orderly, NoTools, Committing
  <2>2. QED
    BY <1>3, <2>1 DEF Covered, OrderlyKept, UntrackedThere, AcceptedThere, RefusedNowhere
<1>11. (TypeOK /\ Free /\ OneAtATime /\ Forest /\ Tidy /\ Emptied /\ Traced /\ Alone /\ Covered => Inv)'
  BY FreeGives, PTL
<1>12. QED
  BY <1>2, <1>5, <1>6, <1>7, <1>8, <1>9, <1>10, <1>11

\* Only the session at work, or the user, writes; in an orderly world the user does not
\* write while a session runs.
LEMMA WriteStep ==
  ASSUME Inv, Free, NEW c \in Changes, repo' = [repo EXCEPT !.tree = @ \union {c}],
         written' = written \union {c}, UNCHANGED <<phase, world>>,
         \/ c[1] \in Sessions /\ phase[c[1]] \in {"working", "in_place"}
         \/ c[1] = User /\ (Orderly => \A s \in Sessions : phase[s] \notin Active)
  PROVE  Inv'
<1>1. /\ repo' \in Repos /\ repo'.tree = repo.tree \union {c}
      /\ repo'.head = repo.head /\ repo'.stash = repo.stash /\ repo'.branches = repo.branches
      /\ repo'.commits = repo.commits /\ repo'.origin = repo.origin
      /\ Aside(repo') = Aside(repo) /\ Kept(repo') = Kept(repo)
  BY InvIs, WriteIs
<1>2. TypeOK' /\ Free'
  BY <1>1 DEF Inv, TypeOK, Free
<1>3. Open' = Open /\ Somewhere(repo') = Somewhere(repo) \union {c}
  BY <1>1 DEF Open, Somewhere
<1>4. /\ \A t \in Sessions : phase[t] \notin {"working", "in_place"} => c[1] # t
      /\ \A t \in Open : c[1] \in Sessions => c[1] = t
      /\ Orderly => \A t \in Open : c[1] = t
  BY GitConstants DEF Inv, OneAtATime, Open, Active
<1>5. OneAtATime' /\ Tidy' /\ Emptied' /\ Forest'
  <2>1. OneAtATime' /\ Forest'
    BY <1>1, <1>3 DEF Inv, OneAtATime, Forest, Free
  <2>2. Tidy' /\ Emptied'
    BY <1>1, <1>3 DEF Inv, Tidy, Free, Emptied, OnlyOf
  <2>3. QED
    BY <2>1, <2>2
<1>6. Alone'
  BY <1>1, <1>3, <1>4 DEF Inv, Alone, Orderly
<1>7. Traced'
  <2> SUFFICES ASSUME NoTools
               PROVE  /\ Somewhere(repo') \subseteq written'
                      /\ \A t \in Sessions, k \in Kinds :
                           /\ phase[t] = "idle" => <<t, k>> \notin written'
                           /\ t \in Open => <<t, k>> \notin Aside(repo') \union Kept(repo')
                           /\ t \in Open /\ <<t, k>> \in written' => <<t, k>> \in repo'.tree
    BY <1>3 DEF Traced, NoTools
  <2>1. QED
    BY <1>1, <1>3, <1>4 DEF Inv, Traced
<1>8. Covered'
  <2>1. Covered /\ (Orderly <=> Orderly') /\ (NoTools <=> NoTools') /\ (Committing <=> Committing')
    BY CoveredIs DEF Orderly, NoTools, Committing
  <2>2. OrderlyKept' /\ UntrackedThere'
    BY <1>1, <1>3, <2>1 DEF Covered, OrderlyKept, UntrackedThere
  <2>3. AcceptedThere'
    BY <1>1, <1>3, <1>4, <2>1 DEF Covered, AcceptedThere
  <2>4. RefusedNowhere'
    BY <1>3, <1>4, <2>1 DEF Covered, RefusedNowhere
  <2>5. QED
    BY <2>2, <2>3, <2>4 DEF Covered
<1>9. (TypeOK /\ Free /\ OneAtATime /\ Forest /\ Tidy /\ Emptied /\ Traced /\ Alone /\ Covered => Inv)'
  BY FreeGives, PTL
<1>10. QED
  BY <1>2, <1>5, <1>6, <1>7, <1>8, <1>9

\* Agents that use the tools lose the promises of the quiet worlds, and disturb no branch.
LEMMA ToolStep ==
  ASSUME Inv, Free, NEW s \in Sessions, CreateCheckpoint(s) \/ RollbackCheckpoint(s) \/ ApplyCheckpoint(s)
  PROVE  Inv'
<1>1. /\ repo' \in Repos /\ UNCHANGED <<phase, written, world>> /\ "tools" \in world
      /\ repo'.head = repo.head /\ repo'.branches = repo.branches
      /\ repo'.commits = repo.commits /\ repo'.origin = repo.origin
  BY ToolIs
<1>2. TypeOK' /\ Free' /\ Open' = Open
  BY <1>1 DEF Inv, TypeOK, Free, Open
<1>3. OneAtATime' /\ Forest'
  BY <1>1, <1>2 DEF Inv, OneAtATime, Forest
<1>4. Tidy'
  BY <1>1, <1>2 DEF Inv, Tidy
<1>5. Emptied' /\ Traced' /\ Alone' /\ Covered'
  BY <1>1 DEF Emptied, Traced, NoTools, Alone, Orderly, Covered, OrderlyKept, UntrackedThere,
     AcceptedThere, RefusedNowhere
<1>6. (TypeOK /\ Free /\ OneAtATime /\ Forest /\ Tidy /\ Emptied /\ Traced /\ Alone /\ Covered => Inv)'
  BY FreeGives, PTL
<1>7. QED
  BY <1>2, <1>3, <1>4, <1>5, <1>6

\* A session waits for its approval, or goes on.
LEMMA WaitStep ==
  ASSUME Inv, Free, NEW s \in Sessions, Suspend(s) \/ Resume(s) PROVE Inv'
<1>1. /\ UNCHANGED <<repo, written, world>> /\ s \in Open
      /\ \E p \in {"working", "suspended"} : phase' = [phase EXCEPT ![s] = p]
      /\ phase \in [Sessions -> Active \union Ended \union {"idle"}]
  BY InvIs DEF Suspend, Resume, Open
<1>2. TypeOK' /\ Free'
  BY <1>1 DEF Inv, TypeOK, Free, Active
<1>3. /\ Open' = Open
      /\ \A t \in Sessions : /\ phase'[t] \in Active <=> phase[t] \in Active
                             /\ phase'[t] = phase[t] \/ {phase[t], phase'[t]} \subseteq {"working", "suspended"}
  BY <1>1 DEF Open, Active
<1>4. OneAtATime' /\ Forest' /\ Alone'
  <2>1. OneAtATime'
    BY <1>2, <1>3 DEF Inv, OneAtATime
  <2>2. Forest' /\ Alone'
    BY <1>1, <1>2, <1>3 DEF Inv, Forest, Alone, Orderly
  <2>3. QED
    BY <2>1, <2>2
<1>5. Tidy' /\ Emptied'
  BY <1>1, <1>2, <1>3 DEF Inv, Tidy, Emptied, OnlyOf
<1>6. Traced'
  BY <1>1, <1>2, <1>3 DEF Inv, Traced, NoTools, Somewhere, Aside, Kept
<1>7. Covered'
  <2>1. Covered /\ (Orderly <=> Orderly') /\ (NoTools <=> NoTools') /\ (Committing <=> Committing') /\ repo' = repo /\ written' = written
    BY <1>1, CoveredIs DEF Orderly, NoTools, Committing
  <2>2. \A t \in Sessions : phase'[t] \in {"merged", "rolled_back"} => phase'[t] = phase[t]
    BY <1>3
  <2>3. QED
    BY <2>1, <2>2 DEF Covered, OrderlyKept, UntrackedThere, AcceptedThere, RefusedNowhere
<1>8. (TypeOK /\ Free /\ OneAtATime /\ Forest /\ Tidy /\ Emptied /\ Traced /\ Alone /\ Covered => Inv)'
  BY FreeGives, PTL
<1>9. QED
  BY <1>2, <1>4, <1>5, <1>6, <1>7, <1>8

-----------------------------------------------------------------------------
(* Preparations and finalisations.                                         *)

LEMMA NoneAtWork == ASSUME TakeTurns, Inv, Free, MayStart PROVE \A t \in Sessions : phase[t] \notin Active
BY InvIs DEF TakeTurns, Free, MayStart

LEMMA SavedIs ==
  ASSUME Inv, NEW s \in Sessions, NEW fails \in BOOLEAN, NEW p, p = Saved(s, fails)
  PROVE  /\ p \in Repos /\ Somewhere(p) = Somewhere(repo) /\ Kept(p) = Kept(repo)
         /\ p.head = repo.head /\ p.branches = repo.branches /\ p.commits = repo.commits
         /\ ~fails => p.tree = {}
         /\ ~fails /\ repo.stash = <<>> => p.stash = <<>> \/ OnlyOf(p, s)
         /\ p # repo => 1 \in DOMAIN p.stash
<1>1. repo \in Repos /\ "user_pre_agent" \in Labels
  BY InvIs DEF Labels
<1>2. CASE fails
  BY <1>1, <1>2 DEF Saved
<1>3. CASE ~fails
  <2>1. p = Push(repo, "user_pre_agent", s)
    BY <1>3 DEF Saved
  <2>2. /\ p \in Repos /\ p.tree = {} /\ Aside(p) = repo.tree \union Aside(repo)
        /\ p.head = repo.head /\ p.branches = repo.branches /\ p.commits = repo.commits
        /\ repo.tree = {} => p = repo
        /\ repo.tree # {} => /\ Len(p.stash) = Len(repo.stash) + 1
                             /\ p.stash[1].label = "user_pre_agent" /\ p.stash[1].of = s
    BY <1>1, <2>1, PushIs
  <2>3. Kept(p) = Kept(repo)
    BY <2>2 DEF Kept
  <2>4. Somewhere(p) = Somewhere(repo)
    BY <2>2, <2>3 DEF Somewhere
  <2>5. repo.stash \in Seq(Entries) /\ p.stash \in Seq(Entries)
    BY <1>1, <2>2 DEF Repos
  <2>6. p # repo => 1 \in DOMAIN p.stash
    BY <2>2, <2>5
  <2>7. repo.stash = <<>> => p.stash = <<>> \/ OnlyOf(p, s)
    BY <2>2, <2>5 DEF OnlyOf
  <2>8. QED
    BY <2>2, <2>3, <2>4, <2>6, <2>7
<1>4. QED
  BY <1>2, <1>3

\* A branch of a new name has the commits of the branch it is made from.
Branched(r, s) ==
  [r EXCEPT !.head = s, !.branches = r.branches \union {s},
            !.commits = [r.commits EXCEPT ![s] = r.commits[r.head]]]

LEMMA BranchIs ==
  ASSUME NEW r \in Repos, r.head \in r.branches, NEW s \in Sessions, s \notin r.branches,
         NEW p, p = Branched(r, s)
  PROVE  /\ p \in Repos /\ p.tree = r.tree /\ p.stash = r.stash /\ p.head = s
         /\ p.branches = r.branches \union {s} /\ p.commits[s] = r.commits[r.head]
         /\ p.commits[r.head] = r.commits[r.head]
         /\ Kept(p) = Kept(r) /\ Somewhere(p) = Somewhere(r)
<1>1. /\ r.commits \in [Branches -> SUBSET Changes] /\ r.head \in Branches /\ r.branches \subseteq Branches
      /\ s \in Branches
  BY DEF Repos, Branches
<1>3. [r.commits EXCEPT ![s] = r.commits[r.head]] \in [Branches -> SUBSET Changes]
  BY <1>1
<1>4. /\ p.tree = r.tree /\ p.stash = r.stash /\ p.head = s /\ p.branches = r.branches \union {s}
      /\ p.commits = [r.commits EXCEPT ![s] = r.commits[r.head]]
  BY DEF Branched, Repos
<1>5. p \in Repos
  <2>1. r.branches \union {s} \subseteq Branches
    BY <1>1
  <2>2. QED
    BY <1>1, <1>3, <2>1 DEF Branched, Repos
<1>6. p.commits[s] = r.commits[r.head] /\ \A b \in Branches \ {s} : p.commits[b] = r.commits[b]
  BY <1>1, <1>4
<1>7. Kept(p) = Kept(r)
  BY <1>1, <1>4, <1>6 DEF Kept
<1>8. Aside(p) = Aside(r)
  BY <1>4 DEF Aside
<1>9. QED
  BY <1>1, <1>4, <1>5, <1>6, <1>7, <1>8 DEF Somewhere

\* The branch of s remembers where it was made from, or forgets it.
MadeFrom(r, s, b) == [r EXCEPT !.origin = [r.origin EXCEPT ![s] = b]]

LEMMA OriginIs ==
  ASSUME NEW r \in Repos, NEW s \in Sessions, NEW b \in Branches \union {None},
         NEW p, p = MadeFrom(r, s, b)
  PROVE  /\ p \in Repos /\ p.tree = r.tree /\ p.stash = r.stash /\ p.head = r.head
         /\ p.branches = r.branches /\ p.commits = r.commits /\ p.origin[s] = b
         /\ Kept(p) = Kept(r) /\ Somewhere(p) = Somewhere(r)
<1>1. r.origin \in [Sessions -> Branches \union {None}]
  BY DEF Repos
<1>2. [r.origin EXCEPT ![s] = b] \in [Sessions -> Branches \union {None}]
  BY <1>1
<1>4. /\ p.tree = r.tree /\ p.stash = r.stash /\ p.head = r.head
      /\ p.branches = r.branches /\ p.commits = r.commits /\ p.origin = [r.origin EXCEPT ![s] = b]
  BY DEF MadeFrom, Repos
<1>5. p \in Repos
  BY <1>2 DEF MadeFrom, Repos
<1>6. QED
  BY <1>1, <1>4, <1>5 DEF Kept, Somewhere, Aside

LEMMA PrepareStep == ASSUME TakeTurns, Inv, Free, NEW s \in Sessions, Prepare(s) PROVE Inv'
<1>1. /\ phase[s] = "idle" /\ UNCHANGED <<written, world>> /\ \A t \in Sessions : phase[t] \notin Active
      /\ repo \in Repos /\ {Home, Main, repo.head} \subseteq repo.branches /\ s \notin repo.branches
      /\ world = {} => repo.stash = <<>>
  <2>1. phase[s] = "idle" /\ UNCHANGED <<written, world>> /\ MayStart
    BY DEF Prepare
  <2>2. \A t \in Sessions : phase[t] \notin Active
    BY <2>1, NoneAtWork
  <2>3. Open = {}
    BY <2>2 DEF Open, Active
  <2>4. QED
    BY <2>1, <2>2, <2>3, InvIs DEF Inv, Forest, Emptied
<1>2. PICK stashFails \in Fails("stash"), checkoutFails \in Fails("checkout"), popFails \in Fails("conflict") :
        LET saved == Saved(s, stashFails) IN
        IF checkoutFails
        THEN /\ repo' = IF saved = repo THEN repo ELSE Pop(saved, 1, popFails)
             /\ phase' = [phase EXCEPT ![s] = "in_place"]
        ELSE /\ repo' = [saved EXCEPT !.head = s, !.branches = @ \cup {s},
                                      !.commits[s] = saved.commits[saved.head],
                                      !.origin[s] = saved.head]
             /\ phase' = [phase EXCEPT ![s] = "working"]
  BY DEF Prepare, LinkedWorktree, Free
<1> DEFINE v == Saved(s, stashFails)
<1>3. /\ stashFails \in BOOLEAN /\ checkoutFails \in BOOLEAN /\ popFails \in BOOLEAN
      /\ Orderly \/ world \subseteq {"tools"} => ~stashFails /\ ~checkoutFails
  BY DEF Fails, Orderly
<1>4. /\ v \in Repos /\ Somewhere(v) = Somewhere(repo) /\ Kept(v) = Kept(repo)
      /\ v.head = repo.head /\ v.branches = repo.branches /\ v.commits = repo.commits
      /\ ~stashFails => v.tree = {}
      /\ ~stashFails /\ repo.stash = <<>> => v.stash = <<>> \/ OnlyOf(v, s)
      /\ v # repo => 1 \in DOMAIN v.stash
  BY <1>3, SavedIs
<1>5. CASE checkoutFails
  <2>1. repo' = (IF v = repo THEN repo ELSE Pop(v, 1, popFails)) /\ phase' = [phase EXCEPT ![s] = "in_place"]
    BY <1>2, <1>5
  <2> HIDE DEF v
  <2>2. /\ repo' \in Repos /\ repo'.head = repo.head /\ repo'.branches = repo.branches
        /\ Kept(repo') = Kept(repo) /\ Somewhere(repo') = Somewhere(repo)
    <3>1. CASE v = repo
      BY <1>1, <2>1, <3>1
    <3>2. CASE v # repo
      <4>1. repo' = Pop(v, 1, popFails) /\ 1 \in DOMAIN v.stash /\ v \in Repos
        BY <1>4, <2>1, <3>2
      <4>2. /\ repo' \in Repos /\ repo'.tree \union Aside(repo') = v.tree \union Aside(v)
            /\ repo'.head = v.head /\ repo'.branches = v.branches /\ repo'.commits = v.commits
        BY <1>3, <4>1, PopIs
      <4>3. Kept(repo') = Kept(v)
        BY <4>2 DEF Kept
      <4>4. Somewhere(repo') = Somewhere(v)
        BY <4>2, <4>3 DEF Somewhere
      <4>5. QED
        BY <1>4, <4>2, <4>3, <4>4
    <3>3. QED
      BY <3>1, <3>2
  <2>3. ~Orderly /\ ~(world \subseteq {"tools"}) /\ world # {}
    BY <1>3, <1>5
  <2>4. QED
    BY <1>1, <2>1, <2>2, <2>3, StartStep
<1>6. CASE ~checkoutFails
  <2> DEFINE q == Branched(v, s)
  <2>1. phase' = [phase EXCEPT ![s] = "working"] /\ repo' = MadeFrom(q, s, v.head)
    BY <1>2, <1>4, <1>6 DEF MadeFrom, Branched, Repos
  <2> HIDE DEF v
  <2>2. /\ q \in Repos /\ q.tree = v.tree /\ q.stash = v.stash /\ q.head = s
        /\ q.branches = v.branches \union {s} /\ q.commits[s] = v.commits[v.head]
        /\ q.commits[v.head] = v.commits[v.head]
        /\ Kept(q) = Kept(v) /\ Somewhere(q) = Somewhere(v)
    <3>1. v \in Repos /\ v.head \in v.branches /\ s \notin v.branches
      BY <1>1, <1>4
    <3>2. QED
      BY <3>1, BranchIs
  <2> HIDE DEF q
  <2>3. v.head \in Branches \union {None}
    BY <1>4 DEF Repos
  <2>4. /\ repo' \in Repos /\ repo'.tree = q.tree /\ repo'.stash = q.stash /\ repo'.head = q.head
        /\ repo'.branches = q.branches /\ repo'.commits = q.commits /\ repo'.origin[s] = v.head
        /\ Kept(repo') = Kept(q) /\ Somewhere(repo') = Somewhere(q)
    BY <2>1, <2>2, <2>3, OriginIs
  <2>5. Orderly => repo'.tree = {}
    BY <1>3, <1>4, <2>2, <2>4
  <2>6. world = {} => repo'.stash = <<>> \/ OnlyOf(repo', s)
    BY <1>1, <1>3, <1>4, <2>2, <2>4 DEF OnlyOf
  <2>7. /\ {Home, Main, repo'.head} \subseteq repo'.branches
        /\ repo'.head = s /\ repo'.branches = repo.branches \union {s} /\ repo'.origin[s] = repo.head
        /\ repo'.commits[s] = repo.commits[repo.head] /\ repo'.commits[repo.head] = repo.commits[repo.head]
        /\ Somewhere(repo') = Somewhere(repo) /\ Kept(repo') = Kept(repo)
    BY <1>1, <1>4, <2>2, <2>4
  <2>8. QED
    BY <1>1, <2>1, <2>4, <2>5, <2>6, <2>7, StartStep
<1>7. QED
  BY <1>3, <1>5, <1>6

\* Each repository on the way of a finalisation keeps what the branches had, loses nothing but
\* edits of the working tree, and commits nothing else than that tree.
Outcome(d) ==
  /\ d \in Repos /\ d.stash = repo.stash
  /\ {Home, Main, d.head} \subseteq d.branches /\ d.branches \subseteq repo.branches
  /\ Somewhere(d) \subseteq Somewhere(repo)
  /\ Kept(repo) \subseteq Kept(d) /\ Kept(d) \subseteq Kept(repo) \union repo.tree
  /\ \A c \in Somewhere(repo) \ Somewhere(d) : c \in repo.tree /\ c[2] = "tracked"

LEMMA BranchOf ==
  ASSUME Inv, Free, NEW s \in Open, NEW t, t = StartBranch(repo, s)
  PROVE  /\ repo \in Repos /\ s \in Sessions /\ s \in repo.branches /\ repo.head = s
         /\ t = repo.origin[s] /\ t \in repo.branches \ {s} /\ repo.commits[s] = repo.commits[t]
         /\ {Home, Main} \subseteq repo.branches \ {s}
<1>1. /\ repo \in Repos /\ s \in Sessions /\ s \in repo.branches /\ repo.head = s
      /\ repo.origin[s] \in repo.branches \ {s} /\ repo.commits[s] = repo.commits[repo.origin[s]]
      /\ {Home, Main} \subseteq repo.branches
  BY InvIs DEF Inv, Forest, Open
<1>2. t = repo.origin[s]
  BY <1>1 DEF StartBranch
<1>3. QED
  BY <1>1, <1>2, GitConstants

\* The repositories on the way of an accepted finalisation, from what the commit left.
From(a, s, t) == {a, Checkout(a, t), Merge(Checkout(a, t), s), Accepted(a, s, t)}

LEMMA AcceptedOutcome ==
  ASSUME Inv, Free, NEW s \in Open, NEW t, t = StartBranch(repo, s), NEW a \in Recorded,
         NEW d \in From(a, s, t)
  PROVE  /\ Outcome(d) /\ Somewhere(repo) \subseteq Somewhere(d)
         /\ Committing => repo.tree \subseteq Kept(d)
         /\ d = Accepted(a, s, t) => d.head = t /\ d.branches = repo.branches \ {s}
<1>1. /\ repo \in Repos /\ s \in Sessions /\ s \in repo.branches /\ repo.head = s
      /\ t \in repo.branches \ {s} /\ {Home, Main} \subseteq repo.branches \ {s}
      /\ repo.commits[s] = repo.commits[t]
  BY BranchOf
<1>2. /\ d \in {a, Checkout(a, t), Merge(Checkout(a, t), s), Accepted(a, s, t)}
      /\ a \in {repo, Commit(repo)} /\ (Committing => a = Commit(repo))
  BY DEF From, Recorded, Fails, Committing
<1>3. /\ d \in Repos /\ d.stash = repo.stash
      /\ d.tree \subseteq repo.tree /\ Kept(repo) \subseteq Kept(d)
      /\ d.tree \union Kept(d) = repo.tree \union Kept(repo)
      /\ a = Commit(repo) => repo.tree \subseteq Kept(d)
      /\ d.head \in {s, t} /\ d.branches \in {repo.branches, repo.branches \ {s}}
      /\ d.branches # repo.branches => d.head = t
      /\ d = Accepted(a, s, t) => d.head = t /\ d.branches = repo.branches \ {s}
  BY <1>1, <1>2, AcceptedIs
<1>4. Somewhere(d) = Somewhere(repo)
  BY <1>3 DEF Somewhere, Aside
<1>5. {Home, Main, d.head} \subseteq d.branches /\ d.branches \subseteq repo.branches
  BY <1>1, <1>3
<1>6. QED
  BY <1>2, <1>3, <1>4, <1>5 DEF Outcome

LEMMA RefusedOutcome ==
  ASSUME Inv, Free, NEW s \in Open, NEW t, t = StartBranch(repo, s), NEW d \in FinaliseSteps(s, FALSE)
  PROVE  /\ Outcome(d) /\ \A c \in Somewhere(d) : c \in Aside(repo) \union Kept(repo) \/ c[2] # "tracked"
         /\ d = Refused(repo, s, t) => d.head = t /\ d.branches = repo.branches \ {s}
<1>1. /\ repo \in Repos /\ s \in Sessions /\ s \in repo.branches /\ repo.head = s
      /\ t \in repo.branches \ {s} /\ repo.commits[s] = repo.commits[t]
      /\ {Home, Main} \subseteq repo.branches \ {s}
  BY BranchOf
<1>2. d \in {ResetHard(repo), Checkout(ResetHard(repo), t), Refused(repo, s, t)}
  BY DEF FinaliseSteps
<1>3. /\ d \in Repos /\ d.tree = {c \in repo.tree : c[2] = "untracked"} /\ d.stash = repo.stash
      /\ Kept(d) = Kept(repo)
      /\ d.head \in {repo.head, t} /\ d.branches \in {repo.branches, repo.branches \ {s}}
      /\ d.branches # repo.branches => d.head = t
      /\ d = Refused(repo, s, t) => d.head = t /\ d.branches = repo.branches \ {s}
  BY <1>1, <1>2, RefusedIs
<1>4. \A c \in repo.tree : c[2] = "tracked" \/ c[2] = "untracked"
  BY <1>1 DEF Repos, Changes, Kinds
<1>5. Aside(d) = Aside(repo)
  BY <1>3 DEF Aside
<1>6. {Home, Main, d.head} \subseteq d.branches /\ d.branches \subseteq repo.branches
  BY <1>1, <1>3
<1>7. /\ Somewhere(d) \subseteq Somewhere(repo)
      /\ \A c \in Somewhere(repo) \ Somewhere(d) : c \in repo.tree /\ c[2] = "tracked"
      /\ \A c \in Somewhere(d) : c \in Aside(repo) \union Kept(repo) \/ c[2] # "tracked"
  BY <1>3, <1>4, <1>5 DEF Somewhere
<1>8. QED
  BY <1>3, <1>6, <1>7 DEF Outcome

\* What follows a finalisation: the branch forgets its origin, the safety stash is restored.
LEMMA RestoredIs ==
  ASSUME Inv, NEW s \in Open, NEW d, Outcome(d), NEW e \in {d, MadeFrom(d, s, None)},
         NEW popFails \in Fails("conflict"), NEW q, q = RestoreUserStash(e, s, popFails)
  PROVE  /\ q \in Repos /\ q.head = d.head /\ q.branches = d.branches
         /\ Kept(q) = Kept(d) /\ Somewhere(q) = Somewhere(d)
         /\ world = {} => q.stash = <<>>
<1>1. /\ e \in Repos /\ e.tree = d.tree /\ e.stash = d.stash /\ e.head = d.head /\ e.branches = d.branches
      /\ Kept(e) = Kept(d) /\ Somewhere(e) = Somewhere(d)
  <2>1. s \in Sessions /\ None \in Branches \union {None} /\ d \in Repos
    BY DEF Open, Outcome
  <2>2. CASE e = d
    BY <2>1, <2>2
  <2>3. CASE e = MadeFrom(d, s, None)
    BY <2>1, <2>3, OriginIs
  <2>4. QED
    BY <2>2, <2>3
<1>2. s \in Sessions /\ popFails \in BOOLEAN /\ (world = {} => ~popFails)
  BY DEF Fails, Open
<1>3. /\ q \in Repos /\ q.tree \union Aside(q) = e.tree \union Aside(e)
      /\ q.head = e.head /\ q.branches = e.branches /\ q.commits = e.commits
      /\ ~popFails /\ (e.stash = <<>> \/ OnlyOf(e, s)) => q.stash = <<>>
  BY <1>1, <1>2, RestoreIs
<1>4. Kept(q) = Kept(e)
  BY <1>3 DEF Kept
<1>5. Somewhere(q) = Somewhere(e)
  BY <1>3, <1>4 DEF Somewhere
<1>6. world = {} => e.stash = <<>> \/ OnlyOf(e, s)
  BY <1>1 DEF Inv, Emptied, OnlyOf, Outcome
<1>7. QED
  BY <1>1, <1>2, <1>3, <1>4, <1>5, <1>6

LEMMA FinaliseStep == ASSUME Inv, Free, NEW s \in Sessions, NEW success \in BOOLEAN, Finalise(s, success) PROVE Inv'
<1> DEFINE t == StartBranch(repo, s)
<1>1. /\ s \in Open /\ phase[s] \in Active /\ UNCHANGED <<written, world>>
      /\ \E a \in Recorded, checkoutFails \in Fails("checkout"), mergeFails \in Fails("conflict"),
            popFails \in Fails("conflict") :
           \/ /\ checkoutFails
              /\ repo' = RestoreUserStash(IF success THEN a ELSE ResetHard(repo), s, popFails)
              /\ phase' = [phase EXCEPT ![s] = "stuck"]
           \/ /\ ~success
              /\ repo' = RestoreUserStash([Refused(repo, s, t) EXCEPT !.origin[s] = None], s, popFails)
              /\ phase' = [phase EXCEPT ![s] = "rolled_back"]
           \/ /\ success /\ mergeFails
              /\ repo' = RestoreUserStash([Checkout(a, t) EXCEPT !.origin[s] = None], s, popFails)
              /\ phase' = [phase EXCEPT ![s] = "unmerged"]
           \/ /\ success
              /\ repo' = RestoreUserStash([Accepted(a, s, t) EXCEPT !.origin[s] = None], s, popFails)
              /\ phase' = [phase EXCEPT ![s] = "merged"]
  BY DEF Finalise, MayFinalise, Open, Active
<1>2. \A d : Outcome(d) => MadeFrom(d, s, None) = [d EXCEPT !.origin[s] = None]
  BY DEF MadeFrom, Outcome, Repos
<1>3. PICK a \in Recorded, popFails \in Fails("conflict"), p \in {"stuck", "rolled_back", "unmerged", "merged"},
           d \in Repos :
        /\ d \in From(a, s, t) \union FinaliseSteps(s, FALSE)
        /\ \E e \in {d, MadeFrom(d, s, None)} : repo' = RestoreUserStash(e, s, popFails)
        /\ phase' = [phase EXCEPT ![s] = p]
        /\ world \subseteq {"tools"} => p \in {"merged", "rolled_back"}
        /\ p = "merged" => d = Accepted(a, s, t) /\ d \in From(a, s, t)
        /\ p = "rolled_back" => d = Refused(repo, s, t) /\ d \in FinaliseSteps(s, FALSE)
  <2>1. /\ \A a \in Recorded : {a, Checkout(a, t), Accepted(a, s, t)} \subseteq From(a, s, t)
        /\ {ResetHard(repo), Refused(repo, s, t)} \subseteq FinaliseSteps(s, FALSE)
    BY DEF FinaliseSteps, From
  <2>4. PICK a \in Recorded, checkoutFails \in Fails("checkout"), mergeFails \in Fails("conflict"),
             popFails \in Fails("conflict") :
           \/ /\ checkoutFails
              /\ repo' = RestoreUserStash(IF success THEN a ELSE ResetHard(repo), s, popFails)
              /\ phase' = [phase EXCEPT ![s] = "stuck"]
           \/ /\ ~success
              /\ repo' = RestoreUserStash([Refused(repo, s, t) EXCEPT !.origin[s] = None], s, popFails)
              /\ phase' = [phase EXCEPT ![s] = "rolled_back"]
           \/ /\ success /\ mergeFails
              /\ repo' = RestoreUserStash([Checkout(a, t) EXCEPT !.origin[s] = None], s, popFails)
              /\ phase' = [phase EXCEPT ![s] = "unmerged"]
           \/ /\ success
              /\ repo' = RestoreUserStash([Accepted(a, s, t) EXCEPT !.origin[s] = None], s, popFails)
              /\ phase' = [phase EXCEPT ![s] = "merged"]
    BY <1>1
  <2>2. \A d \in From(a, s, t) \union FinaliseSteps(s, FALSE) : Outcome(d)
    BY <1>1, AcceptedOutcome, RefusedOutcome
  <2> DEFINE h == [Refused(repo, s, t) EXCEPT !.origin[s] = None]
             i == [Checkout(a, t) EXCEPT !.origin[s] = None]
             j == [Accepted(a, s, t) EXCEPT !.origin[s] = None]
  <2>3. /\ h = MadeFrom(Refused(repo, s, t), s, None) /\ i = MadeFrom(Checkout(a, t), s, None)
        /\ j = MadeFrom(Accepted(a, s, t), s, None)
    BY <1>2, <2>1, <2>2
  <2>6. \/ /\ checkoutFails
           /\ repo' = RestoreUserStash(IF success THEN a ELSE ResetHard(repo), s, popFails)
           /\ phase' = [phase EXCEPT ![s] = "stuck"]
        \/ /\ ~success
           /\ repo' = RestoreUserStash(h, s, popFails) /\ phase' = [phase EXCEPT ![s] = "rolled_back"]
        \/ /\ success /\ mergeFails
           /\ repo' = RestoreUserStash(i, s, popFails) /\ phase' = [phase EXCEPT ![s] = "unmerged"]
        \/ /\ success
           /\ repo' = RestoreUserStash(j, s, popFails) /\ phase' = [phase EXCEPT ![s] = "merged"]
    BY <2>4
  <2>5. world \subseteq {"tools"} => ~checkoutFails /\ ~mergeFails
    BY DEF Fails
  <2>7. {a, Checkout(a, t), Accepted(a, s, t), ResetHard(repo), Refused(repo, s, t)} \subseteq Repos
    BY <2>1, <2>2 DEF Outcome
  <2> HIDE DEF t, h, i, j
  <2>8. QED
    BY <2>1, <2>3, <2>5, <2>6, <2>7
<1> HIDE DEF t
<1>4. /\ Outcome(d)
      /\ d \in From(a, s, t) => /\ Somewhere(repo) \subseteq Somewhere(d)
                                /\ Committing => repo.tree \subseteq Kept(d)
      /\ d \in FinaliseSteps(s, FALSE) =>
           \A c \in Somewhere(d) : c \in Aside(repo) \union Kept(repo) \/ c[2] # "tracked"
      /\ p \in {"merged", "rolled_back"} => d.head = t /\ d.branches = repo.branches \ {s}
  <2>1. t = StartBranch(repo, s)
    BY DEF t
  <2>2. d \in From(a, s, t) =>
          /\ Outcome(d) /\ Somewhere(repo) \subseteq Somewhere(d)
          /\ Committing => repo.tree \subseteq Kept(d)
          /\ d = Accepted(a, s, t) => d.head = t /\ d.branches = repo.branches \ {s}
    BY <1>1, <2>1, AcceptedOutcome
  <2>3. d \in FinaliseSteps(s, FALSE) =>
          /\ Outcome(d) /\ \A c \in Somewhere(d) : c \in Aside(repo) \union Kept(repo) \/ c[2] # "tracked"
          /\ d = Refused(repo, s, t) => d.head = t /\ d.branches = repo.branches \ {s}
    BY <1>1, <2>1, RefusedOutcome
  <2>4. QED
    BY <1>3, <2>2, <2>3
<1>5. /\ repo' \in Repos /\ repo'.head = d.head /\ repo'.branches = d.branches
      /\ Kept(repo') = Kept(d) /\ Somewhere(repo') = Somewhere(d)
      /\ world = {} => repo'.stash = <<>>
  BY <1>1, <1>3, <1>4, RestoredIs
<1>6. world \subseteq {"tools"} => t = Home /\ repo.branches \ {s} = {Home, Main}
  <2> SUFFICES ASSUME world \subseteq {"tools"} PROVE t = Home /\ repo.branches \ {s} = {Home, Main}
    OBVIOUS
  <2>1. repo.branches = {Home, Main} \union Open /\ repo.origin[s] = Home
    BY <1>1 DEF Inv, Tidy
  <2>2. Open = {s}
    BY <1>1 DEF Inv, OneAtATime, Open, Active
  <2>3. t = repo.origin[s] /\ {Home, Main} \subseteq repo.branches \ {s}
    BY <1>1, BranchOf DEF t
  <2>4. QED
    BY <2>1, <2>2, <2>3
<1>7. p \in Ended
  BY DEF Ended
<1>8. /\ {Home, Main, repo'.head} \subseteq repo'.branches /\ repo'.branches \subseteq repo.branches
      /\ Somewhere(repo') \subseteq Somewhere(repo) /\ Kept(repo) \subseteq Kept(repo')
      /\ Kept(repo') \subseteq Kept(repo) \union repo.tree
      /\ \A c \in Somewhere(repo) \ Somewhere(repo') : c \in repo.tree /\ c[2] = "tracked"
  BY <1>4, <1>5 DEF Outcome
<1>9. /\ p = "merged" => /\ s \in Open /\ Somewhere(repo) \subseteq Somewhere(repo')
                         /\ Committing => repo.tree \subseteq Kept(repo')
      /\ p = "rolled_back" =>
           s \in Open /\ \A c \in Somewhere(repo') : c \in Aside(repo) \union Kept(repo) \/ c[2] # "tracked"
      /\ world \subseteq {"tools"} =>
           p \in {"merged", "rolled_back"} /\ repo'.head = Home /\ repo'.branches = {Home, Main}
  <2>1. p = "merged" => /\ s \in Open /\ Somewhere(repo) \subseteq Somewhere(repo')
                        /\ Committing => repo.tree \subseteq Kept(repo')
    BY <1>1, <1>3, <1>4, <1>5
  <2>2. p = "rolled_back" =>
          s \in Open /\ \A c \in Somewhere(repo') : c \in Aside(repo) \union Kept(repo) \/ c[2] # "tracked"
    BY <1>1, <1>3, <1>4, <1>5
  <2>3. world \subseteq {"tools"} =>
          p \in {"merged", "rolled_back"} /\ repo'.head = Home /\ repo'.branches = {Home, Main}
    BY <1>3, <1>4, <1>5, <1>6
  <2>4. QED
    BY <2>1, <2>2, <2>3
<1>10. QED
  BY <1>1, <1>3, <1>5, <1>7, <1>8, <1>9, EndStep

\* The death of the process takes the only session at work with it.
LEMMA CrashStep == ASSUME TakeTurns, Inv, Free, NEW s \in Sessions, Crash(s) PROVE Inv'
<1>1. /\ UNCHANGED <<written, world>> /\ ~(world \subseteq {"tools"}) /\ world # {}
      /\ phase \in [Sessions -> Active \union Ended \union {"idle"}]
  BY InvIs DEF Crash
<1>2. ASSUME phase[s] \in Active \/ \A t \in Sessions : phase[t] \notin Active
      PROVE  phase' = [phase EXCEPT ![s] = "dead"]
  BY <1>1, <1>2 DEF Inv, OneAtATime, Active, Crash
<1>3. CASE phase[s] = "idle" /\ MayStart /\ repo' \in PrepareSteps(s)
  <2>1. \A t \in Sessions : phase[t] \notin Active
    BY <1>3, NoneAtWork
  <2>2. phase' = [phase EXCEPT ![s] = "dead"]
    BY <1>2, <2>1
  <2> DEFINE v == Saved(s, FALSE)
             q == Branched(v, s)
  <2>3. /\ v \in Repos /\ Somewhere(v) = Somewhere(repo) /\ Kept(v) = Kept(repo)
        /\ v.head = repo.head /\ v.branches = repo.branches /\ v.tree = {}
    BY SavedIs
  <2>4. {Home, Main, repo.head} \subseteq repo.branches /\ s \notin repo.branches
    BY <1>3 DEF Inv, Forest
  <2>5. repo' \in {v, q}
    BY <1>3, <2>3 DEF PrepareSteps, Branched, Repos
  <2> HIDE DEF v
  <2>6. /\ q \in Repos /\ q.tree = v.tree /\ q.head = s /\ q.branches = v.branches \union {s}
        /\ Kept(q) = Kept(v) /\ Somewhere(q) = Somewhere(v)
    <3>1. v \in Repos /\ v.head \in v.branches /\ s \notin v.branches
      BY <2>3, <2>4
    <3>2. QED
      BY <3>1, BranchIs
  <2> HIDE DEF q
  <2>7. /\ repo' \in Repos /\ {Home, Main, repo'.head} \subseteq repo'.branches
        /\ repo'.branches \in {repo.branches, repo.branches \union {s}}
        /\ Somewhere(repo') = Somewhere(repo) /\ Kept(repo') = Kept(repo) /\ repo'.tree = {}
    BY <2>3, <2>4, <2>5, <2>6
  <2>8. QED
    BY <1>1, <1>3, <2>1, <2>2, <2>7, StartStep
<1>4. CASE phase[s] \in {"working", "in_place"} /\ UNCHANGED repo
  <2>1. phase[s] \in Active /\ phase' = [phase EXCEPT ![s] = "dead"] /\ "dead" \in Ended
    BY <1>2, <1>4 DEF Active, Ended
  <2>2. repo' \in Repos /\ {Home, Main, repo.head} \subseteq repo.branches
    BY <1>4, InvIs DEF Inv, Forest
  <2>3. QED
    BY <1>1, <1>4, <2>1, <2>2, EndStep
<1>5. ASSUME NEW success \in BOOLEAN, MayFinalise(s, success), repo' \in FinaliseSteps(s, success) PROVE Inv'
  <2>1. s \in Open /\ phase[s] \in Active
    BY <1>5 DEF MayFinalise, Open, Active
  <2>2. phase' = [phase EXCEPT ![s] = "dead"] /\ "dead" \in Ended
    BY <1>2, <2>1 DEF Ended
  <2>3. Outcome(repo')
    <3>1. CASE success
      <4>1. PICK a \in Recorded : repo' \in From(a, s, StartBranch(repo, s))
        BY <1>5, <3>1 DEF FinaliseSteps, From
      <4>2. QED
        BY <2>1, <4>1, AcceptedOutcome
    <3>2. CASE ~success
      BY <1>5, <2>1, <3>2, RefusedOutcome
    <3>3. QED
      BY <3>1, <3>2
  <2>4. QED
    BY <1>1, <2>1, <2>2, <2>3, EndStep DEF Outcome
<1>6. QED
  BY <1>3, <1>4, <1>5 DEF Crash

-----------------------------------------------------------------------------
(* The theorems.                                                           *)

LEMMA Inductive == ASSUME TakeTurns PROVE Inv /\ [Next]_vars => Inv'
<1> SUFFICES ASSUME Inv, [Next]_vars PROVE Inv'
  OBVIOUS
<1>1. CASE UNCHANGED vars
  BY <1>1 DEF vars, Inv, TypeOK, Isolated, UserWorkSafe, Stashed, Committed, OneAtATime, Forest, Tidy, Emptied,
     OnlyOf, Traced, Somewhere, Aside, Kept, Alone, Orderly, Open, Free, NoTools, Committing, Promised, UserWorkKept,
     UserWorkPrivate, UntrackedKept, AcceptedWorkKept, RefusedWorkGone
<1>2. CASE Next /\ ~Free
  BY <1>2, IsolatedStep
<1>3. CASE Next /\ Free
  <2>1. ASSUME NEW s \in Sessions, NEW k \in Kinds, AgentWrites(s, k) PROVE Inv'
    <3>1. <<s, k>> \in Changes /\ <<s, k>>[1] = s
      BY DEF Changes
    <3>2. QED
      BY <1>3, <2>1, <3>1, WriteStep DEF AgentWrites
  <2>2. ASSUME NEW k \in Kinds, UserWrites(k) PROVE Inv'
    <3>1. <<User, k>> \in Changes /\ <<User, k>>[1] = User
      BY DEF Changes
    <3>2. Orderly => \A s \in Sessions : phase[s] \notin Active
      BY <2>2 DEF Orderly, UserWrites
    <3>3. QED
      BY <1>3, <2>2, <3>1, <3>2, WriteStep DEF UserWrites
  <2>3. ASSUME NEW s \in Sessions, LeaveInPlace(s) PROVE Inv'
    <3>1. /\ phase[s] \in Active /\ phase' = [phase EXCEPT ![s] = "done"] /\ "done" \in Ended
          /\ UNCHANGED <<repo, written, world>> /\ phase[s] = "in_place"
      BY <2>3 DEF LeaveInPlace, Active, Ended
    <3>2. repo' \in Repos /\ {Home, Main, repo.head} \subseteq repo.branches
      BY <1>3, <3>1, InvIs DEF Inv, Forest
    <3>3. ~(world \subseteq {"tools"}) /\ world # {}
      BY <1>3, <3>1 DEF Inv, Tidy
    <3>4. QED
      BY <1>3, <3>1, <3>2, <3>3, EndStep
  <2>4. QED
    BY <1>3, <2>1, <2>2, <2>3, PrepareStep, FinaliseStep, CrashStep, ToolStep, WaitStep DEF Next
<1>4. QED
  BY <1>1, <1>2, <1>3

LEMMA Invariant == ASSUME TakeTurns PROVE Spec => []Inv
<1>1. Init => Inv
  BY Initially
<1>2. Inv /\ [Next]_vars => Inv'
  BY Inductive
<1>3. QED
  BY <1>1, <1>2, PTL DEF Spec

\* The safety stash does what it is for, with any number of sessions that take turns: whichever
\* stash, checkout, commit, merge or pop fails and wherever the process dies, no untracked file
\* of the user is lost; and where nothing but a commit or the process fails, or in a linked
\* worktree, no change of the user is lost and none is committed.
THEOREM UserWorkAlwaysSound == ASSUME TakeTurns PROVE Spec => []UserWorkSound
<1>1. Inv => UserWorkSound
  BY InvGives
<1>2. QED
  BY <1>1, Invariant, PTL

\* Whichever stash, checkout, merge or pop fails and wherever the process dies, the repository
\* has what was merged and nothing of what was rolled back (git_finalize_agent_branch).  A
\* commit that fails leaves what was merged in the tree or in the stash, if nothing else fails.
THEOREM VerdictsAlwaysApplied == ASSUME TakeTurns PROVE Spec => []VerdictsApplied
<1>1. Inv => VerdictsApplied
  BY InvGives
<1>2. QED
  BY <1>1, Invariant, PTL

\* When nothing fails the user is given back the branch, the branches and the stash that were
\* there; a linked worktree never leaves its branch (#T318).
THEOREM AlwaysReturned == ASSUME TakeTurns PROVE Spec => []Returned
<1>1. Inv => Returned
  BY InvGives
<1>2. QED
  BY <1>1, Invariant, PTL
=============================================================================
