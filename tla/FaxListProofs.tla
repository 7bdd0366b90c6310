---------------------------- MODULE FaxListProofs ----------------------------
(***************************************************************************)
(* What is proved, for all values of the constants, of the faxes that the  *)
(* program keeps: of the lists of faxes, their folders (FaxFolders) and    *)
(* the printing of their faxes (FaxPrints), and of the directories of the  *)
(* faxes received (ReceivedFaxStore).                                      *)
(***************************************************************************)
EXTENDS FaxFolders, FaxPrints, ReceivedFaxStore, SequenceLemmas

----------------------------------------------------------------------------
(***************************************************************************)
(* For any faxes, folders, crashes and directories that cannot be removed: *)
(* what FaxListManager keeps in its tree and on the disk.  The argument is *)
(* that the tree is one of rows that hang on each other, with a fax in one *)
(* of them (GoodTree), which every change of the tree keeps; and that what *)
(* the disk says of the folders is read back as such a tree.               *)
(***************************************************************************)

RowNames == FolderNames \cup {Base, Trash}
Cells == RowNames \X (Nat \ {0})
Rows  == Seq(Cells) \ {<<>>}
Paths == Seq(RowNames) \ {<<>>}

----------------------------------------------------------------------------
(* Sequences. *)

(* The first n elements of a sequence.                                     *)
LEMMA FirstOf ==
  ASSUME NEW S, NEW s \in Seq(S), NEW n \in 0..Len(s)
  PROVE  /\ SubSeq(s, 1, n) \in Seq(S) /\ Len(SubSeq(s, 1, n)) = n
         /\ \A i \in 1..n : SubSeq(s, 1, n)[i] = s[i]
         /\ n # 0 => SubSeq(s, 1, n) # <<>>
<1>1. n \in Nat /\ Len(s) \in Nat /\ n <= Len(s)
  OBVIOUS
<1>2. \A i \in 1..n : s[i] \in S
  BY <1>1, ElementOfSeq
<1> DEFINE t == SubSeq(s, 1, n)
<1>3. t \in Seq(S)
  BY <1>1, <1>2, SubSeqProperties
<1>4. Len(t) = n
  BY <1>1, <1>2, SubSeqProperties
<1>5. \A i \in 1..n : t[i] = s[i]
  BY <1>1, <1>2
<1>6. n # 0 => t # <<>>
  BY <1>4
<1> QED BY <1>3, <1>4, <1>5, <1>6

LEMMA PrefixIs ==
  ASSUME NEW S, NEW s \in Seq(S), NEW t \in Seq(S)
  PROVE  IsPrefix(s, t) <=> Len(s) <= Len(t) /\ \A n \in 1..Len(s) : s[n] = t[n]
<1>1. Len(s) \in Nat /\ Len(t) \in Nat /\ SubSeq(s, 1, Len(s)) = s
  BY SubSeqFull
<1>2. ASSUME Len(s) <= Len(t)
      PROVE  s = SubSeq(t, 1, Len(s)) <=> \A n \in 1..Len(s) : s[n] = t[n]
  <2>1. /\ SubSeq(t, 1, Len(s)) \in Seq(S) /\ Len(SubSeq(t, 1, Len(s))) = Len(s)
        /\ \A i \in 1..Len(s) : SubSeq(t, 1, Len(s))[i] = t[i]
    BY <1>1, <1>2, FirstOf
  <2>2. ASSUME \A n \in 1..Len(s) : s[n] = t[n] PROVE s = SubSeq(t, 1, Len(s))
    BY <2>1, <2>2, SeqEqual
  <2> QED BY <2>1, <2>2
<1> QED BY <1>1, <1>2 DEF IsPrefix

LEMMA FrontIs ==
  ASSUME NEW S, NEW s \in Seq(S), s # <<>>
  PROVE  /\ Len(s) \in Nat \ {0} /\ Front(s) = SubSeq(s, 1, Len(s) - 1)
         /\ Front(s) \in Seq(S) /\ Len(Front(s)) = Len(s) - 1
         /\ Last(s) = s[Len(s)] /\ Last(s) \in S
<1>1. Len(s) \in Nat \ {0}
  BY EmptySeq
<1>2. Len(s) - 1 \in 0..Len(s) /\ Len(s) \in 1..Len(s)
  BY <1>1
<1> QED BY <1>1, <1>2, FirstOf, ElementOfSeq DEF Front, Last

LEMMA AppendIs ==
  ASSUME NEW S, NEW s \in Seq(S), NEW e \in S
  PROVE  /\ Append(s, e) \in Seq(S) /\ Append(s, e) # <<>>
         /\ Len(Append(s, e)) = Len(s) + 1 /\ Append(s, e)[Len(s) + 1] = e
         /\ \A i \in 1..Len(s) : Append(s, e)[i] = s[i]
BY AppendProperties

(* An image of a finite set is finite.                                     *)
LEMMA FiniteImage ==
  ASSUME NEW S, IsFiniteSet(S), NEW T, NEW f \in [S -> T], \A y \in T : \E x \in S : f[x] = y
  PROVE  IsFiniteSet(T)
<1>1. f \in Surjection(S, T)
  BY DEF Surjection
<1> QED BY <1>1, FS_Surjection

----------------------------------------------------------------------------
(* Rows and paths. *)

LEMMA BaseAndTrash ==
  /\ BaseRow \in Rows /\ TrashRow \in Rows /\ BaseRow # TrashRow
  /\ Len(BaseRow) = 1 /\ Len(TrashRow) = 1
  /\ BaseRow[1] = <<Base, 1>> /\ TrashRow[1] = <<Trash, 1>>
<1>1. <<Base, 1>> \in Cells /\ <<Trash, 1>> \in Cells
  BY DEF Cells, RowNames
<1>2. Base # Trash
  BY FolderAssumption
<1> QED BY <1>1, <1>2 DEF Rows, BaseRow, TrashRow

LEMMA PathnameIs ==
  ASSUME NEW row \in Rows
  PROVE  /\ Pathname(row) \in Paths /\ Len(Pathname(row)) = Len(row)
         /\ \A i \in 1..Len(row) : Pathname(row)[i] = row[i][1]
         /\ RowName(row) \in RowNames
         /\ Last(Pathname(row)) = RowName(row)
<1>1. row \in Seq(Cells) /\ Len(row) \in Nat \ {0} /\ DOMAIN row = 1..Len(row)
  BY EmptySeq DEF Rows
<1>2. \A i \in 1..Len(row) : row[i] \in Cells
  BY <1>1, ElementOfSeq
<1>3. \A i \in 1..Len(row) : row[i][1] \in RowNames
  BY <1>2 DEF Cells
<1> DEFINE p == [i \in 1..Len(row) |-> row[i][1]]
<1>4. Pathname(row) = p
  BY <1>1 DEF Pathname
<1>5. p \in Seq(RowNames) /\ Len(p) = Len(row) /\ \A i \in 1..Len(row) : p[i] = row[i][1]
  BY <1>1, <1>3
<1>6. p # <<>>
  BY <1>1, <1>5
<1>7. RowName(row) = row[Len(row)][1] /\ Last(p) = p[Len(row)] /\ Len(row) \in 1..Len(row)
  BY <1>1, <1>5 DEF RowName, Last
<1> QED BY <1>3, <1>4, <1>5, <1>6, <1>7 DEF Paths

LEMMA RowOfIs ==
  ASSUME NEW p \in Paths
  PROVE  /\ RowOf(p) \in Rows /\ Len(RowOf(p)) = Len(p)
         /\ \A i \in 1..Len(p) : RowOf(p)[i] = <<p[i], 1>>
         /\ Pathname(RowOf(p)) = p /\ RowName(RowOf(p)) = Last(p)
<1>1. p \in Seq(RowNames) /\ Len(p) \in Nat \ {0} /\ DOMAIN p = 1..Len(p)
  BY EmptySeq DEF Paths
<1>2. \A i \in 1..Len(p) : <<p[i], 1>> \in Cells
  BY <1>1, ElementOfSeq DEF Cells
<1> DEFINE r == [i \in 1..Len(p) |-> <<p[i], 1>>]
<1>3. RowOf(p) = r
  BY <1>1 DEF RowOf
<1>4. r \in Seq(Cells) /\ Len(r) = Len(p) /\ \A i \in 1..Len(p) : r[i] = <<p[i], 1>>
  BY <1>1, <1>2
<1>5. r \in Rows
  BY <1>1, <1>4 DEF Rows
<1> HIDE DEF r
<1>6. Pathname(r) \in Seq(RowNames) /\ Len(Pathname(r)) = Len(p) /\ RowName(r) = Last(Pathname(r))
      /\ \A i \in 1..Len(p) : Pathname(r)[i] = p[i]
  BY <1>4, <1>5, PathnameIs DEF Paths
<1>7. Pathname(r) = p
  BY <1>1, <1>6, SeqEqual
<1> QED BY <1>3, <1>4, <1>5, <1>6, <1>7

(* The name of the first folders on the way down to a row, or to a path.   *)
LEMMA WayDown ==
  ASSUME NEW row \in Rows, NEW n \in 1..Len(row)
  PROVE  /\ SubSeq(row, 1, n) \in Rows
         /\ Pathname(SubSeq(row, 1, n)) = SubSeq(Pathname(row), 1, n)
<1> DEFINE r == SubSeq(row, 1, n)
           p == Pathname(row)
<1>1. row \in Seq(Cells) /\ Len(row) \in Nat /\ n \in 0..Len(row) /\ n # 0
  BY DEF Rows
<1>2. r \in Rows /\ Len(r) = n /\ \A i \in 1..n : r[i] = row[i]
  BY <1>1, FirstOf DEF Rows
<1>3. p \in Seq(RowNames) /\ Len(p) = Len(row) /\ \A i \in 1..Len(row) : p[i] = row[i][1]
  BY PathnameIs DEF Paths
<1>4. SubSeq(p, 1, n) \in Seq(RowNames) /\ Len(SubSeq(p, 1, n)) = n
      /\ \A i \in 1..n : SubSeq(p, 1, n)[i] = p[i]
  BY <1>1, <1>3, FirstOf
<1> HIDE DEF r, p
<1>5. Pathname(r) \in Seq(RowNames) /\ Len(Pathname(r)) = n
      /\ \A i \in 1..n : Pathname(r)[i] = r[i][1]
  BY <1>2, PathnameIs DEF Paths
<1>6. \A i \in 1..n : i \in 1..Len(row)
  BY <1>1
<1>7. Pathname(r) = SubSeq(p, 1, n)
  BY <1>2, <1>3, <1>4, <1>5, <1>6, SeqEqual
<1> QED BY <1>2, <1>7 DEF r, p

LEMMA WayDownPath ==
  ASSUME NEW p \in Paths, NEW n \in 1..Len(p)
  PROVE  /\ SubSeq(p, 1, n) \in Paths /\ Len(SubSeq(p, 1, n)) = n
         /\ RowOf(SubSeq(p, 1, n)) = SubSeq(RowOf(p), 1, n)
<1>1. p \in Seq(RowNames) /\ Len(p) \in Nat /\ n \in 0..Len(p) /\ n # 0
  BY DEF Paths
<1>2. SubSeq(p, 1, n) \in Paths /\ Len(SubSeq(p, 1, n)) = n
      /\ \A i \in 1..n : SubSeq(p, 1, n)[i] = p[i]
  BY <1>1, FirstOf DEF Paths
<1> DEFINE q == SubSeq(p, 1, n)
           r == RowOf(p)
<1>3. r \in Seq(Cells) /\ Len(r) = Len(p) /\ \A i \in 1..Len(p) : r[i] = <<p[i], 1>>
  BY RowOfIs DEF Rows
<1>4. SubSeq(r, 1, n) \in Seq(Cells) /\ Len(SubSeq(r, 1, n)) = n
      /\ \A i \in 1..n : SubSeq(r, 1, n)[i] = r[i]
  BY <1>1, <1>3, FirstOf
<1>5. q \in Paths /\ Len(q) = n /\ \A i \in 1..n : q[i] = p[i]
  BY <1>2
<1> HIDE DEF q, r
<1>6. RowOf(q) \in Seq(Cells) /\ Len(RowOf(q)) = n /\ \A i \in 1..n : RowOf(q)[i] = <<q[i], 1>>
  BY <1>5, RowOfIs DEF Rows
<1>7. \A i \in 1..n : i \in 1..Len(p)
  BY <1>1
<1>8. \A i \in 1..n : RowOf(q)[i] = SubSeq(r, 1, n)[i]
  BY <1>3, <1>4, <1>5, <1>6, <1>7
<1>9. RowOf(q) = SubSeq(r, 1, n)
  BY <1>4, <1>6, <1>8, SeqEqual
<1> QED BY <1>2, <1>9 DEF q, r

IsCopy(row, level, label) == \E c \in Nat \ {0} : row = Append(level, <<label, c>>)

(* NewRow finds a row: of as many copies as there are rows and one more,   *)
(* not all are rows.                                                       *)
LEMMA NewRowIs ==
  ASSUME NEW rows, IsFiniteSet(rows), NEW level \in Seq(Cells), NEW label \in RowNames
  PROVE  /\ NewRow(rows, level, label) \notin rows
         /\ IsCopy(NewRow(rows, level, label), level, label)
         /\ Append(level, <<label, 1>>) \notin rows
              => NewRow(rows, level, label) = Append(level, <<label, 1>>)
<1> DEFINE N == Cardinality(rows) + 1
           copy(c) == Append(level, <<label, c>>)
           Free == {c \in 1..N : copy(c) \notin rows}
           Good(c) == copy(c) \notin rows /\ \A d \in 1..(c - 1) : copy(d) \in rows
<1>1. N \in Nat \ {0} /\ IsFiniteSet(1..N) /\ Cardinality(1..N) = N /\ Cardinality(rows) < N
  <2>1. Cardinality(rows) \in Nat
    BY FS_CardinalityType
  <2>2. N \in Nat \ {0} /\ N \in Int /\ 1 \in Int /\ ~(1 > N) /\ N - 1 + 1 = N
    BY <2>1
  <2>3. IsFiniteSet(1..N) /\ Cardinality(1..N) = N
    <3> HIDE DEF N
    <3>1. IsFiniteSet(1..N) /\ Cardinality(1..N) = IF 1 > N THEN 0 ELSE N - 1 + 1
      BY <2>2, FS_Interval
    <3> QED BY <2>2, <3>1
  <2> QED BY <2>1, <2>2, <2>3
<1>2. \A c, d \in 1..N : copy(c) = copy(d) => c = d
  <2> SUFFICES ASSUME NEW c \in 1..N, NEW d \in 1..N, copy(c) = copy(d) PROVE c = d
    OBVIOUS
  <2>1. <<label, c>> \in Cells /\ <<label, d>> \in Cells
    BY DEF Cells
  <2>2. copy(c)[Len(level) + 1] = <<label, c>> /\ copy(d)[Len(level) + 1] = <<label, d>>
    BY <2>1, AppendIs
  <2>3. <<label, c>> = <<label, d>>
    BY <2>2
  <2> QED BY <2>3
<1>3. Free # {}
  <2> SUFFICES ASSUME \A c \in 1..N : copy(c) \in rows PROVE FALSE
    OBVIOUS
  <2> DEFINE f == [c \in 1..N |-> copy(c)]
  <2>1. f \in Injection(1..N, rows)
    BY <1>2 DEF Injection, IsInjective
  <2>2. Cardinality(1..N) <= Cardinality(rows)
    <3> HIDE DEF f, N
    <3> QED BY <2>1, FS_Injection
  <2>3. Cardinality(rows) \in Nat
    BY FS_CardinalityType
  <2> HIDE DEF N
  <2> QED BY <1>1, <2>2, <2>3
<1>4. \E c \in 1..N : Good(c)
  <2>1. Free \subseteq Nat
    OBVIOUS
  <2>2. PICK c \in Free : \A d \in Free : c <= d
    <3> HIDE DEF Free
    <3> QED BY <1>3, <2>1, LeastNumber
  <2>3. \A d \in 1..(c - 1) : d \in 1..N /\ ~(c <= d)
    BY <1>1
  <2>4. \A d \in 1..(c - 1) : copy(d) \in rows
    BY <2>2, <2>3
  <2> QED BY <2>2, <2>4
<1> DEFINE least == CHOOSE c \in 1..N : Good(c)
<1>5. NewRow(rows, level, label) = copy(least)
  BY DEF NewRow
<1>6. least \in 1..N /\ Good(least)
  <2> HIDE DEF Good
  <2> QED BY <1>4
<1>7. copy(1) \notin rows => least = 1
  <2> SUFFICES ASSUME copy(1) \notin rows, least # 1 PROVE FALSE
    OBVIOUS
  <2>1. least \in Nat /\ 1 <= least
    <3>1. least \in 1..N
      BY <1>6
    <3> HIDE DEF least, N
    <3> QED BY <1>1, <3>1
  <2> HIDE DEF least
  <2>2. 1 \in 1..(least - 1)
    BY <2>1
  <2> QED BY <1>6, <2>2
<1>8. least \in Nat \ {0}
  <2>1. least \in 1..N
    BY <1>6
  <2> HIDE DEF least, N
  <2> QED BY <1>1, <2>1
<1> HIDE DEF least, N
<1> QED BY <1>5, <1>6, <1>7, <1>8 DEF IsCopy

----------------------------------------------------------------------------
(* A tree of rows each of which hangs on another or on the root, with a    *)
(* fax in one of them.                                                     *)
Rooted(R) == \A r \in R : \A n \in 1..Len(r) : SubSeq(r, 1, n) \in R

GoodTree(t) ==
  /\ t \in [DOMAIN t -> SUBSET Faxes] /\ DOMAIN t \subseteq Rows /\ IsFiniteSet(DOMAIN t)
  /\ Rooted(DOMAIN t) /\ {BaseRow, TrashRow} \subseteq DOMAIN t
  /\ \A r, s \in DOMAIN t : \A f \in t[r] \cap t[s] : r = s

NamesApart(t) == \A r, s \in DOMAIN t : RowName(r) = RowName(s) => r = s

PathsOf(t) == {Pathname(r) : r \in DOMAIN t}

LastsApart(ps) == \A p, q \in ps : Last(p) = Last(q) => p = q

(* In a good tree a fax has one row.                                       *)
LEMMA TheRow ==
  ASSUME NEW t, GoodTree(t), NEW r \in DOMAIN t, NEW f \in t[r]
  PROVE  RowWith(t, f) = r /\ f \in Listed(t)
<1>1. \E s \in DOMAIN t : f \in t[s]
  OBVIOUS
<1>2. RowWith(t, f) \in DOMAIN t /\ f \in t[RowWith(t, f)]
  BY <1>1 DEF RowWith
<1>3. RowWith(t, f) = r
  BY <1>2 DEF GoodTree
<1> QED BY <1>3 DEF Listed

LEMMA HasRow ==
  ASSUME NEW t, GoodTree(t), NEW f \in Listed(t)
  PROVE  RowWith(t, f) \in DOMAIN t /\ f \in t[RowWith(t, f)]
<1>1. \E s \in DOMAIN t : f \in t[s]
  BY DEF Listed
<1> QED BY <1>1 DEF RowWith

----------------------------------------------------------------------------
(* Reading. *)

DiskTypes(ps, lists) ==
  /\ ps \in [DOMAIN ps -> Seq(RowNames)] /\ DOMAIN ps \subseteq Faxes /\ IsFiniteSet(DOMAIN ps)
  /\ lists \subseteq Paths /\ IsFiniteSet(lists)

LEMMA NamedPathsAre ==
  ASSUME NEW ps, NEW lists, DiskTypes(ps, lists)
  PROVE  /\ NamedPaths(ps, lists) \subseteq Paths /\ IsFiniteSet(NamedPaths(ps, lists))
         /\ {<<Base>>, <<Trash>>} \subseteq NamedPaths(ps, lists)
         /\ \A p \in NamedPaths(ps, lists) : \A n \in 1..Len(p) :
              SubSeq(p, 1, n) \in NamedPaths(ps, lists)
         /\ \A f \in DOMAIN ps : FolderOfFax(ps, f) \in NamedPaths(ps, lists)
<1> DEFINE fs == {ps[f] : f \in DOMAIN ps}
           given == (lists \cup fs \cup {<<Base>>, <<Trash>>}) \ {<<>>}
           to(p) == {SubSeq(p, 1, n) : n \in 1..Len(p)}
           ways == {to(p) : p \in given}
<1>0. NamedPaths(ps, lists) = UNION ways
  BY DEF NamedPaths
<1>1. <<Base>> \in Paths /\ <<Trash>> \in Paths /\ Len(<<Base>>) = 1 /\ Len(<<Trash>>) = 1
  BY DEF Paths, RowNames
<1>2. given \subseteq Paths
  BY <1>1 DEF DiskTypes, Paths
<1>3. IsFiniteSet(given)
  <2>1. IsFiniteSet(fs)
    <3>1. ps \in [DOMAIN ps -> Seq(RowNames)] /\ IsFiniteSet(DOMAIN ps)
      BY DEF DiskTypes
    <3>2. [f \in DOMAIN ps |-> ps[f]] \in [DOMAIN ps -> fs]
          /\ \A y \in fs : \E x \in DOMAIN ps : [f \in DOMAIN ps |-> ps[f]][x] = y
      OBVIOUS
    <3> HIDE DEF fs
    <3> QED BY <3>1, <3>2, FiniteImage
  <2> HIDE DEF fs
  <2>2. IsFiniteSet(lists \cup fs)
    BY <2>1, FS_Union DEF DiskTypes
  <2>3. IsFiniteSet({<<Base>>, <<Trash>>})
    <3>1. IsFiniteSet({<<Base>>} \cup {<<Trash>>})
      BY FS_Singleton, FS_Union
    <3>2. {<<Base>>} \cup {<<Trash>>} = {<<Base>>, <<Trash>>}
      OBVIOUS
    <3> QED BY <3>1, <3>2
  <2>4. IsFiniteSet(lists \cup fs \cup {<<Base>>, <<Trash>>})
    BY <2>2, <2>3, FS_Union
  <2> QED BY <2>4, FS_Subset
<1>4. \A p \in Paths : IsFiniteSet(to(p))
  <2> SUFFICES ASSUME NEW p \in Paths PROVE IsFiniteSet(to(p))
    OBVIOUS
  <2>1. Len(p) \in Nat
    BY DEF Paths
  <2>2. IsFiniteSet(1..Len(p))
    BY <2>1, FS_Interval
  <2>3. [n \in 1..Len(p) |-> SubSeq(p, 1, n)] \in [1..Len(p) -> to(p)]
        /\ \A y \in to(p) : \E x \in 1..Len(p) : [n \in 1..Len(p) |-> SubSeq(p, 1, n)][x] = y
    OBVIOUS
  <2> HIDE DEF to
  <2> QED BY <2>2, <2>3, FiniteImage
<1>5. IsFiniteSet(UNION ways)
  <2> DEFINE g == [p \in given |-> to(p)]
  <2>1. g \in [given -> ways] /\ \A y \in ways : \E x \in given : g[x] = y
    OBVIOUS
  <2>2. \A T \in ways : IsFiniteSet(T)
    BY <1>2, <1>4
  <2>3. IsFiniteSet(ways)
    <3> HIDE DEF g, ways, given
    <3> QED BY <1>3, <2>1, FiniteImage
  <2> HIDE DEF ways
  <2> QED BY <2>2, <2>3, FS_UNION
<1>6. ASSUME NEW p \in given PROVE p \in UNION ways
  <2>1. p \in Seq(RowNames) /\ p \in Paths
    BY <1>2 DEF Paths
  <2>2. Len(p) \in 1..Len(p) /\ SubSeq(p, 1, Len(p)) = p
    BY <2>1, EmptySeq, SubSeqFull DEF Paths
  <2>3. p \in to(p)
    BY <2>2
  <2> QED BY <2>3
<1>7. ASSUME NEW p \in UNION ways, NEW n \in 1..Len(p)
      PROVE  p \in Paths /\ SubSeq(p, 1, n) \in UNION ways
  <2>1. PICK q \in given : p \in to(q)
    OBVIOUS
  <2>2. PICK m \in 1..Len(q) : p = SubSeq(q, 1, m)
    BY <2>1
  <2>3. q \in Paths /\ q \in Seq(RowNames) /\ Len(q) \in Nat
    BY <1>2 DEF Paths
  <2>4. p \in Paths /\ Len(p) = m
    BY <2>2, <2>3, WayDownPath
  <2>5. n \in 1..m /\ n \in 1..Len(q) /\ m - 1 + 1 = m /\ 1 + 1 - 1 = 1 /\ 1 + n - 1 = n
        /\ 1 \in 1..Len(q) /\ 1 \in 1..m
    BY <2>3, <2>4
  <2>6. SubSeq(p, 1, n) = SubSeq(q, 1, n)
    <3>1. SubSeq(p, 1, n) \in Seq(RowNames) /\ Len(SubSeq(p, 1, n)) = n
          /\ \A i \in 1..n : SubSeq(p, 1, n)[i] = p[i]
      BY <2>4, FirstOf DEF Paths
    <3>2. SubSeq(q, 1, n) \in Seq(RowNames) /\ Len(SubSeq(q, 1, n)) = n
          /\ \A i \in 1..n : SubSeq(q, 1, n)[i] = q[i]
      BY <2>3, <2>5, FirstOf
    <3>3. \A i \in 1..m : p[i] = q[i]
      BY <2>2, <2>3, FirstOf
    <3>4. \A i \in 1..n : i \in 1..m
      BY <2>5
    <3> QED BY <3>1, <3>2, <3>3, <3>4, SeqEqual
  <2>7. SubSeq(p, 1, n) \in to(q)
    BY <2>5, <2>6
  <2> QED BY <2>4, <2>7
<1>8. UNION ways \subseteq Paths
  <2> SUFFICES ASSUME NEW p \in UNION ways PROVE p \in Paths
    OBVIOUS
  <2>1. PICK q \in given : p \in to(q)
    OBVIOUS
  <2>2. PICK m \in 1..Len(q) : p = SubSeq(q, 1, m)
    BY <2>1
  <2> QED BY <1>2, <2>2, WayDownPath
<1>9. ASSUME NEW f \in DOMAIN ps PROVE FolderOfFax(ps, f) \in given
  <2>1. <<Base>> \in given
    BY <1>1 DEF Paths
  <2> QED BY <2>1 DEF FolderOfFax
<1>10. <<Base>> \in given /\ <<Trash>> \in given
  BY <1>1 DEF Paths
<1> HIDE DEF ways, given
<1> QED BY <1>0, <1>5, <1>6, <1>7, <1>8, <1>9, <1>10

(* populate_fax_list() makes a good tree of whatever is on the disk, which *)
(* has every fax in the folder that its Path names.                        *)
LEMMA ReadsGoodTree ==
  ASSUME NEW ps, NEW lists, DiskTypes(ps, lists)
  PROVE  LET t == Populated(ps, lists) IN
         /\ GoodTree(t) /\ Listed(t) = DOMAIN ps
         /\ PathsOf(t) = NamedPaths(ps, lists)
         /\ \A r \in DOMAIN t : \A f \in t[r] : Pathname(r) = FolderOfFax(ps, f)
         /\ LastsApart(NamedPaths(ps, lists)) => NamesApart(t)
<1> DEFINE np == NamedPaths(ps, lists)
           R == {RowOf(p) : p \in np}
           t == Populated(ps, lists)
<1>0. /\ np \subseteq Paths /\ IsFiniteSet(np) /\ <<Base>> \in np /\ <<Trash>> \in np
      /\ \A p \in np : \A n \in 1..Len(p) : SubSeq(p, 1, n) \in np
      /\ \A f \in DOMAIN ps : FolderOfFax(ps, f) \in np
  BY NamedPathsAre
<1>1. /\ DOMAIN t = R
      /\ \A r \in R : t[r] = {f \in DOMAIN ps : RowOf(FolderOfFax(ps, f)) = r}
      /\ t = [r \in R |-> t[r]]
  BY DEF Populated
<1> HIDE DEF np, t
<1>2. R \subseteq Rows
  BY <1>0, RowOfIs
<1>3. IsFiniteSet(R)
  <2>1. [p \in np |-> RowOf(p)] \in [np -> R]
        /\ \A y \in R : \E x \in np : [p \in np |-> RowOf(p)][x] = y
    OBVIOUS
  <2> HIDE DEF R
  <2> QED BY <1>0, <2>1, FiniteImage
<1>4. Rooted(R)
  <2> SUFFICES ASSUME NEW p \in np, NEW n \in 1..Len(RowOf(p)) PROVE SubSeq(RowOf(p), 1, n) \in R
    BY DEF Rooted
  <2>1. p \in Paths /\ Len(RowOf(p)) = Len(p)
    BY <1>0, RowOfIs
  <2>2. SubSeq(RowOf(p), 1, n) = RowOf(SubSeq(p, 1, n)) /\ SubSeq(p, 1, n) \in np
    BY <1>0, <2>1, WayDownPath
  <2> QED BY <2>2
<1>5. BaseRow \in R /\ TrashRow \in R
  <2>1. \A x : RowOf(<<x>>) = <<<<x, 1>>>>
    BY DEF RowOf
  <2> QED BY <1>0, <2>1 DEF BaseRow, TrashRow
<1>6. t \in [R -> SUBSET Faxes]
  <2>1. DOMAIN ps \subseteq Faxes
    BY DEF DiskTypes
  <2>2. \A r \in R : t[r] \in SUBSET Faxes
    BY <1>1, <2>1
  <2>3. [r \in R |-> t[r]] \in [R -> SUBSET Faxes]
    <3> HIDE DEF R
    <3> QED BY <2>2
  <2> HIDE DEF R
  <2>4. t = [r \in R |-> t[r]]
    BY <1>1, Zenon
  <2> QED BY <2>3, <2>4, Zenon
<1>7. \A r, s \in R : \A f \in t[r] \cap t[s] : r = s
  BY <1>1
<1>8. GoodTree(t)
  BY <1>1, <1>2, <1>3, <1>4, <1>5, <1>6, <1>7 DEF GoodTree
<1>9. Listed(t) = DOMAIN ps
  <2>1. \A f \in DOMAIN ps : RowOf(FolderOfFax(ps, f)) \in R
    BY <1>0
  <2>2. \A f \in DOMAIN ps : f \in t[RowOf(FolderOfFax(ps, f))]
    BY <1>1, <2>1
  <2>3. \A f \in Listed(t) : f \in DOMAIN ps
    BY <1>1 DEF Listed
  <2>4. \A f \in DOMAIN ps : f \in Listed(t)
    BY <1>1, <2>1, <2>2 DEF Listed
  <2> QED BY <2>3, <2>4
<1>10. PathsOf(t) = np
  <2>1. \A p \in np : Pathname(RowOf(p)) = p
    BY <1>0, RowOfIs
  <2> QED BY <1>1, <2>1 DEF PathsOf
<1>11. \A r \in R : \A f \in t[r] : Pathname(r) = FolderOfFax(ps, f)
  <2>1. \A f \in DOMAIN ps : Pathname(RowOf(FolderOfFax(ps, f))) = FolderOfFax(ps, f)
    BY <1>0, RowOfIs
  <2> QED BY <1>1, <2>1
<1>12. LastsApart(np) => NamesApart(t)
  <2>1. \A p \in np : RowName(RowOf(p)) = Last(p)
    BY <1>0, RowOfIs
  <2> QED BY <1>1, <2>1 DEF LastsApart, NamesApart
<1> QED BY <1>1, <1>8, <1>9, <1>10, <1>11, <1>12 DEF np, t

----------------------------------------------------------------------------
(* Saving. *)

(* write_path() writes a PathList that names every folder of the tree, and *)
(* a Path for every fax: what is read back is the tree.                    *)
LEMMA SavesDisk ==
  ASSUME NEW t, GoodTree(t), NEW ps, NEW lists, DiskTypes(ps, lists)
  PROVE  LET ws == PathsWritten(t, ps, Listed(t)) IN
         /\ DiskTypes(ws, PathsOf(t)) /\ DOMAIN ws = DOMAIN ps
         /\ NamesApart(t) => LastsApart(PathsOf(t))
         /\ DOMAIN ps = Listed(t) =>
              /\ NamedPaths(ws, PathsOf(t)) = PathsOf(t)
              /\ \A r \in DOMAIN t : \A f \in t[r] : FolderOfFax(ws, f) = Pathname(r)
<1> DEFINE ws == PathsWritten(t, ps, Listed(t))
           P == PathsOf(t)
<1>0. DOMAIN t \subseteq Rows /\ IsFiniteSet(DOMAIN t) /\ Rooted(DOMAIN t)
      /\ {BaseRow, TrashRow} \subseteq DOMAIN t
  BY DEF GoodTree
<1>1. P \subseteq Paths /\ IsFiniteSet(P)
  <2>1. P \subseteq Paths
    BY <1>0, PathnameIs DEF PathsOf
  <2>2. [r \in DOMAIN t |-> Pathname(r)] \in [DOMAIN t -> P]
        /\ \A y \in P : \E x \in DOMAIN t : [r \in DOMAIN t |-> Pathname(r)][x] = y
    BY DEF PathsOf
  <2> HIDE DEF P
  <2> QED BY <1>0, <2>1, <2>2, FiniteImage
<1>2. /\ DOMAIN ws = DOMAIN ps
      /\ ws = [f \in DOMAIN ps |-> ws[f]]
      /\ \A f \in DOMAIN ps : f \in Listed(t) =>
           ws[f] = Pathname(RowWith(t, f)) /\ RowWith(t, f) \in DOMAIN t
      /\ \A f \in DOMAIN ps : f \notin Listed(t) => ws[f] = ps[f]
  BY HasRow DEF PathsWritten
<1> HIDE DEF ws
<1>3. DiskTypes(ws, P)
  <2>1. \A f \in DOMAIN ps : ps[f] \in Seq(RowNames)
    BY DEF DiskTypes
  <2>2. \A f \in DOMAIN ps : f \in Listed(t) => ws[f] \in Seq(RowNames)
    BY <1>0, <1>2, PathnameIs DEF Paths
  <2>3. \A f \in DOMAIN ps : ws[f] \in Seq(RowNames)
    BY <1>2, <2>1, <2>2
  <2>4. [f \in DOMAIN ps |-> ws[f]] \in [DOMAIN ps -> Seq(RowNames)]
    BY <2>3
  <2>5. ws \in [DOMAIN ws -> Seq(RowNames)]
    BY <1>2, <2>4, Zenon
  <2> QED BY <1>1, <1>2, <2>5 DEF DiskTypes
<1>4. NamesApart(t) => LastsApart(P)
  <2>1. \A r \in DOMAIN t : Last(Pathname(r)) = RowName(r)
    BY <1>0, PathnameIs
  <2> QED BY <2>1 DEF NamesApart, LastsApart, PathsOf
<1>5. ASSUME DOMAIN ps = Listed(t)
      PROVE  /\ NamedPaths(ws, P) = P
             /\ \A r \in DOMAIN t : \A f \in t[r] : FolderOfFax(ws, f) = Pathname(r)
  <2>1. \A f \in DOMAIN ws : ws[f] \in P
    BY <1>2, <1>5 DEF PathsOf
  <2>2. <<Base>> \in P /\ <<Trash>> \in P
    <3>1. \A x : Pathname(<<<<x, 1>>>>) = <<x>>
      BY DEF Pathname
    <3> QED BY <1>0, <3>1 DEF PathsOf, BaseRow, TrashRow
  <2>3. <<>> \notin P
    BY <1>1 DEF Paths
  <2> DEFINE fs == {ws[f] : f \in DOMAIN ws}
             given == (P \cup fs \cup {<<Base>>, <<Trash>>}) \ {<<>>}
  <2>4. given = P
    BY <2>1, <2>2, <2>3
  <2> HIDE DEF P
  <2>5. NamedPaths(ws, P) = UNION {{SubSeq(p, 1, n) : n \in 1..Len(p)} : p \in P}
    <3>1. NamedPaths(ws, P) = UNION {{SubSeq(p, 1, n) : n \in 1..Len(p)} : p \in given}
      BY DEF NamedPaths
    <3> HIDE DEF given
    <3> QED BY <2>4, <3>1
  <2>6. ASSUME NEW p \in P, NEW n \in 1..Len(p) PROVE SubSeq(p, 1, n) \in P
    <3>1. PICK r \in DOMAIN t : p = Pathname(r)
      BY DEF P, PathsOf
    <3>2. r \in Rows /\ n \in 1..Len(r)
      BY <1>0, <3>1, PathnameIs
    <3>3. SubSeq(r, 1, n) \in DOMAIN t
      BY <1>0, <3>2 DEF Rooted
    <3>4. SubSeq(p, 1, n) = Pathname(SubSeq(r, 1, n))
      BY <3>1, <3>2, WayDown
    <3> QED BY <3>3, <3>4 DEF P, PathsOf
  <2>7. ASSUME NEW p \in P PROVE \E n \in 1..Len(p) : p = SubSeq(p, 1, n)
    <3>1. p \in Seq(RowNames) /\ p # <<>>
      BY <1>1 DEF Paths
    <3> QED BY <3>1, EmptySeq, SubSeqFull
  <2>8. NamedPaths(ws, P) = P
    <3>1. ASSUME NEW p \in NamedPaths(ws, P) PROVE p \in P
      <4>1. \E q \in P : p \in {SubSeq(q, 1, n) : n \in 1..Len(q)}
        BY <2>5
      <4> QED BY <2>6, <4>1
    <3>2. ASSUME NEW p \in P PROVE p \in NamedPaths(ws, P)
      <4>1. p \in {SubSeq(p, 1, n) : n \in 1..Len(p)}
        BY <2>7
      <4> QED BY <2>5, <4>1
    <3> QED BY <3>1, <3>2
  <2>9. ASSUME NEW r \in DOMAIN t, NEW f \in t[r] PROVE FolderOfFax(ws, f) = Pathname(r)
    <3>1. RowWith(t, f) = r /\ f \in DOMAIN ps /\ f \in Listed(t)
      BY <1>5, TheRow
    <3>2. ws[f] = Pathname(r) /\ Pathname(r) # <<>>
      BY <1>0, <1>2, <3>1, PathnameIs DEF Paths
    <3> QED BY <3>2 DEF FolderOfFax
  <2> QED BY <2>8, <2>9
<1> QED BY <1>2, <1>3, <1>4, <1>5 DEF ws

(* What a save leaves that did not come to its end can still be read.      *)
CutShort(t, ps, fs, cut) ==
  [f \in DOMAIN ps |-> IF f \in cut THEN <<>> ELSE PathsWritten(t, ps, fs)[f]]

LEMMA CutDisk ==
  ASSUME NEW t, GoodTree(t), NEW ps, NEW lists, DiskTypes(ps, lists),
         NEW fs \in SUBSET Listed(t), NEW cut
  PROVE  DiskTypes(CutShort(t, ps, fs, cut), {})
<1> DEFINE ws == CutShort(t, ps, fs, cut)
<1>1. DOMAIN t \subseteq Rows
  BY DEF GoodTree
<1>2. \A f \in DOMAIN ps : f \in fs => Pathname(RowWith(t, f)) \in Seq(RowNames)
  BY <1>1, HasRow, PathnameIs DEF Paths
<1>3. \A f \in DOMAIN ps : PathsWritten(t, ps, fs)[f] \in Seq(RowNames)
  BY <1>2 DEF PathsWritten, DiskTypes
<1>4. <<>> \in Seq(RowNames)
  OBVIOUS
<1>5. ws \in [DOMAIN ps -> Seq(RowNames)] /\ DOMAIN ws = DOMAIN ps
  BY <1>3, <1>4 DEF CutShort
<1> QED BY <1>5, FS_EmptySet DEF DiskTypes

----------------------------------------------------------------------------
(* Changes of the tree. *)

(* What stays when no row does anything but lose or gain faxes.            *)
LEMMA SameRows ==
  ASSUME NEW t, GoodTree(t), NEW u, u \in [DOMAIN t -> SUBSET Faxes],
         \A r, s \in DOMAIN t : \A f \in u[r] \cap u[s] : r = s
  PROVE  /\ GoodTree(u) /\ DOMAIN u = DOMAIN t
         /\ NamesRead(u) = NamesRead(t) /\ PathsOf(u) = PathsOf(t)
         /\ NamesApart(t) => NamesApart(u)
<1>1. DOMAIN u = DOMAIN t
  OBVIOUS
<1> QED BY <1>1 DEF GoodTree, NamesRead, PathsOf, NamesApart

LEMMA AddsRow ==
  ASSUME NEW t, GoodTree(t), NEW n \in FolderNames,
         NEW row, row = NewRow(DOMAIN t, <<>>, n),
         NEW u, u = [r \in DOMAIN t \cup {row} |-> IF r = row THEN {} ELSE t[r]]
  PROVE  /\ GoodTree(u) /\ Listed(u) = Listed(t)
         /\ NamesRead(u) = NamesRead(t) \cup {n}
         /\ NamesApart(t) /\ n \notin NamesRead(t) => NamesApart(u)
<1>0. t \in [DOMAIN t -> SUBSET Faxes] /\ DOMAIN t \subseteq Rows /\ IsFiniteSet(DOMAIN t)
      /\ Rooted(DOMAIN t) /\ {BaseRow, TrashRow} \subseteq DOMAIN t
      /\ \A r, s \in DOMAIN t : \A f \in t[r] \cap t[s] : r = s
  BY DEF GoodTree
<1>1. <<>> \in Seq(Cells) /\ n \in RowNames /\ Len(<<>>) = 0
  BY DEF RowNames
<1>2. row \notin DOMAIN t
  BY <1>0, <1>1, NewRowIs
<1>3. PICK c \in Nat \ {0} : row = Append(<<>>, <<n, c>>)
  <2> DEFINE R == DOMAIN t
  <2>1. IsFiniteSet(R)
    BY <1>0
  <2> HIDE DEF R
  <2>2. IsCopy(NewRow(R, <<>>, n), <<>>, n)
    BY <1>1, <2>1, NewRowIs
  <2> QED BY <2>2 DEF R, IsCopy
<1>4. row \in Rows /\ Len(row) = 1 /\ row[1] = <<n, c>>
  <2>1. <<n, c>> \in Cells
    BY <1>1 DEF Cells
  <2>2. PICK x \in Cells : x = <<n, c>>
    BY <2>1
  <2>3. /\ Append(<<>>, x) \in Seq(Cells) /\ Len(Append(<<>>, x)) = 1
        /\ Append(<<>>, x)[1] = x
    BY ONLY <1>1, x \in Cells, AppendProperties
  <2>4. Append(<<>>, x) # <<>>
    BY <2>3, <1>1
  <2> QED BY <1>3, <2>2, <2>3, <2>4 DEF Rows
<1>5. RowName(row) = n
  BY <1>4 DEF RowName, Last
<1>6. DOMAIN u = DOMAIN t \cup {row} /\ u[row] = {} /\ \A r \in DOMAIN t : u[r] = t[r]
  BY <1>2
<1>7. u \in [DOMAIN u -> SUBSET Faxes]
  BY <1>0
<1>8. IsFiniteSet(DOMAIN u)
  BY <1>0, <1>6, FS_AddElement
<1>9. Rooted(DOMAIN u)
  <2>1. \A k \in 1..Len(row) : SubSeq(row, 1, k) = row
    <3>1. row \in Seq(Cells)
      BY <1>4 DEF Rows
    <3>2. SubSeq(row, 1, 1) = row
      BY <1>4, <3>1, SubSeqFull
    <3>3. \A k \in 1..1 : k = 1
      OBVIOUS
    <3> QED BY <1>4, <3>2, <3>3
  <2> QED BY <1>0, <1>6, <2>1 DEF Rooted
<1>10. \A r, s \in DOMAIN u : \A f \in u[r] \cap u[s] : r = s
  BY <1>0, <1>6
<1>11. GoodTree(u)
  BY <1>0, <1>4, <1>6, <1>7, <1>8, <1>9, <1>10 DEF GoodTree
<1>12. Listed(u) = Listed(t)
  BY <1>6 DEF Listed
<1>13. NamesRead(u) = NamesRead(t) \cup {n}
  BY <1>5, <1>6 DEF NamesRead
<1>14. NamesApart(t) /\ n \notin NamesRead(t) => NamesApart(u)
  BY <1>5, <1>6 DEF NamesApart, NamesRead
<1> QED BY <1>11, <1>12, <1>13, <1>14

LEMMA BelowIs ==
  ASSUME NEW t, GoodTree(t), NEW row \in Rows, NEW r \in DOMAIN t
  PROVE  r \in Below(t, row) <=>
           Len(row) <= Len(r) /\ \A n \in 1..Len(row) : row[n] = r[n]
<1>1. row \in Seq(Cells) /\ r \in Seq(Cells)
  BY DEF GoodTree, Rows
<1> QED BY <1>1, PrefixIs DEF Below

LEMMA DropsRow ==
  ASSUME NEW t, GoodTree(t), NEW row \in DOMAIN t, ~Permanent(row), FolderEmpty(t, row),
         NEW u, u = [r \in DOMAIN t \ {row} |-> t[r]]
  PROVE  /\ GoodTree(u) /\ Listed(u) = Listed(t)
         /\ NamesApart(t) => NamesRead(u) = NamesRead(t) \ {RowName(row)} /\ NamesApart(u)
<1>0. t \in [DOMAIN t -> SUBSET Faxes] /\ DOMAIN t \subseteq Rows /\ IsFiniteSet(DOMAIN t)
      /\ Rooted(DOMAIN t) /\ {BaseRow, TrashRow} \subseteq DOMAIN t
      /\ \A r, s \in DOMAIN t : \A f \in t[r] \cap t[s] : r = s
  BY DEF GoodTree
<1>1. DOMAIN u = DOMAIN t \ {row} /\ \A r \in DOMAIN u : u[r] = t[r]
  OBVIOUS
<1>2. u \in [DOMAIN u -> SUBSET Faxes] /\ IsFiniteSet(DOMAIN u)
  BY <1>0, <1>1, FS_Subset
<1>3. t[row] = {} /\ Below(t, row) = {row} /\ row \notin {BaseRow, TrashRow}
  BY DEF FolderEmpty, HasChild, Permanent
<1>4. Rooted(DOMAIN u)
  <2> SUFFICES ASSUME NEW r \in DOMAIN t, r # row, NEW n \in 1..Len(r), SubSeq(r, 1, n) = row
               PROVE  FALSE
    BY <1>0, <1>1 DEF Rooted
  <2>1. r \in Seq(Cells) /\ r \in Rows /\ n \in 0..Len(r) /\ Len(r) \in Nat /\ row \in Rows
    BY <1>0 DEF Rows
  <2>2. Len(row) = n /\ \A i \in 1..n : row[i] = r[i]
    BY <2>1, FirstOf
  <2>3. r \in Below(t, row)
    BY <2>1, <2>2, BelowIs
  <2> QED BY <1>3, <2>3
<1>5. GoodTree(u)
  BY <1>0, <1>1, <1>2, <1>3, <1>4 DEF GoodTree
<1>6. Listed(u) = Listed(t)
  BY <1>1, <1>3 DEF Listed
<1>7. NamesApart(t) => NamesRead(u) = NamesRead(t) \ {RowName(row)} /\ NamesApart(u)
  BY <1>1 DEF NamesApart, NamesRead
<1> QED BY <1>5, <1>6, <1>7

LEMMA MovesGood ==
  ASSUME NEW t, GoodTree(t), NEW row \in DOMAIN t, NEW dest \in DOMAIN t \ {row},
         NEW fs \in SUBSET t[row], NEW u, u = FaxesMoved(t, row, dest, fs)
  PROVE  /\ GoodTree(u) /\ DOMAIN u = DOMAIN t /\ Listed(u) = Listed(t)
         /\ NamesRead(u) = NamesRead(t) /\ (NamesApart(t) => NamesApart(u))
<1>0. t \in [DOMAIN t -> SUBSET Faxes]
      /\ \A r, s \in DOMAIN t : \A f \in t[r] \cap t[s] : r = s
  BY DEF GoodTree
<1>1. u \in [DOMAIN t -> SUBSET Faxes]
  BY <1>0 DEF FaxesMoved
<1>2. u[row] = t[row] \ fs /\ u[dest] = t[dest] \cup fs
      /\ \A r \in DOMAIN t \ {row, dest} : u[r] = t[r]
  BY <1>0 DEF FaxesMoved
<1>3. \A r, s \in DOMAIN t : \A f \in u[r] \cap u[s] : r = s
  <2> SUFFICES ASSUME NEW r \in DOMAIN t, NEW s \in DOMAIN t, NEW f, f \in u[r], f \in u[s]
               PROVE  r = s
    OBVIOUS
  <2>1. ASSUME NEW q \in DOMAIN t, f \in u[q]
        PROVE  (q = dest /\ f \in fs) \/ (f \in t[q] /\ f \notin fs)
    <3>1. f \in fs => f \in t[row]
      OBVIOUS
    <3>2. CASE q = row
      BY <1>2, <2>1, <3>2
    <3>3. CASE q = dest
      BY <1>0, <1>2, <2>1, <3>1, <3>3
    <3>4. CASE q \notin {row, dest}
      BY <1>0, <1>2, <2>1, <3>1, <3>4
    <3> QED BY <3>2, <3>3, <3>4
  <2> QED BY <1>0, <2>1
<1>4. Listed(u) = Listed(t)
  <2>1. \A f \in Listed(t) : f \in Listed(u)
    BY <1>1, <1>2 DEF Listed
  <2>2. \A f \in Listed(u) : f \in Listed(t)
    BY <1>1, <1>2 DEF Listed
  <2> QED BY <2>1, <2>2
<1> QED BY <1>1, <1>3, <1>4, SameRows

LEMMA EmptiesGood ==
  ASSUME NEW t, GoodTree(t), NEW left \in SUBSET t[TrashRow],
         NEW u, u = [t EXCEPT ![TrashRow] = left]
  PROVE  /\ GoodTree(u) /\ DOMAIN u = DOMAIN t
         /\ Listed(u) = Listed(t) \ (t[TrashRow] \ left)
         /\ NamesRead(u) = NamesRead(t) /\ PathsOf(u) = PathsOf(t)
         /\ (NamesApart(t) => NamesApart(u))
<1>0. t \in [DOMAIN t -> SUBSET Faxes] /\ TrashRow \in DOMAIN t
      /\ \A r, s \in DOMAIN t : \A f \in t[r] \cap t[s] : r = s
  BY DEF GoodTree
<1>1. u \in [DOMAIN t -> SUBSET Faxes] /\ u[TrashRow] = left
      /\ \A r \in DOMAIN t \ {TrashRow} : u[r] = t[r]
  BY <1>0
<1>2. \A r, s \in DOMAIN t : \A f \in u[r] \cap u[s] : r = s
  BY <1>0, <1>1
<1>3. Listed(u) = Listed(t) \ (t[TrashRow] \ left)
  <2>1. \A f \in Listed(u) : f \in Listed(t) \ (t[TrashRow] \ left)
    BY <1>0, <1>1 DEF Listed
  <2>2. \A f \in Listed(t) \ (t[TrashRow] \ left) : f \in Listed(u)
    BY <1>0, <1>1 DEF Listed
  <2> QED BY <2>1, <2>2
<1> QED BY <1>1, <1>2, <1>3, SameRows

LEMMA AddsFax ==
  ASSUME NEW t, GoodTree(t), NEW x \in Faxes \ Listed(t),
         NEW u \in [DOMAIN t -> SUBSET Faxes], u[BaseRow] = t[BaseRow] \cup {x},
         \A r \in DOMAIN t \ {BaseRow} : u[r] = t[r]
  PROVE  /\ GoodTree(u) /\ DOMAIN u = DOMAIN t /\ Listed(u) = Listed(t) \cup {x}
         /\ NamesRead(u) = NamesRead(t) /\ PathsOf(u) = PathsOf(t)
         /\ (NamesApart(t) => NamesApart(u))
<1>1. t \in [DOMAIN t -> SUBSET Faxes] /\ BaseRow \in DOMAIN t
      /\ \A r, s \in DOMAIN t : \A f \in t[r] \cap t[s] : r = s
  BY DEF GoodTree
<1>2. \A r \in DOMAIN t : x \notin t[r]
  BY DEF Listed
<1>3. \A r, s \in DOMAIN t : \A f \in u[r] \cap u[s] : r = s
  BY <1>1, <1>2
<1>4. Listed(u) = Listed(t) \cup {x}
  BY <1>1 DEF Listed
<1> QED BY <1>3, <1>4, SameRows

----------------------------------------------------------------------------
(* A folder that is moved. *)

(* Where the row r is when the folder of the row is at new.                *)
Hung(t, row, new, r) ==
  IF r \in Below(t, row) THEN new \o SubSeq(r, Len(row) + 1, Len(r)) ELSE r

HungAt(r, row, new, w) ==
  /\ w \in Rows /\ Len(w) = Len(new) + (Len(r) - Len(row))
  /\ Len(row) <= Len(r) /\ Len(row) \in Nat \ {0} /\ Len(r) \in Nat /\ Len(new) \in Nat \ {0}
  /\ \A i \in 1..Len(row) : r[i] = row[i]
  /\ \A i \in 1..Len(new) : w[i] = new[i]
  /\ \A j \in 1..(Len(r) - Len(row)) : w[Len(new) + j] = r[Len(row) + j]

LEMMA HungIs ==
  ASSUME NEW t, GoodTree(t), NEW row \in DOMAIN t, NEW new \in Rows,
         NEW r \in DOMAIN t, r \in Below(t, row), NEW w, w = Hung(t, row, new, r)
  PROVE  HungAt(r, row, new, w)
<1> DEFINE L == Len(row)
           M == Len(new)
           K == Len(r)
           v == SubSeq(r, L + 1, K)
<1>1. DOMAIN t \subseteq Rows
  BY DEF GoodTree
<1>2. r \in Seq(Cells) /\ row \in Seq(Cells) /\ new \in Seq(Cells) /\ r \in Rows /\ row \in Rows
      /\ new # <<>>
  BY <1>1 DEF Rows
<1>3. L \in Nat \ {0} /\ M \in Nat \ {0} /\ K \in Nat
  BY <1>1, <1>2, EmptySeq DEF Rows
<1>4. L <= K /\ \A i \in 1..L : r[i] = row[i]
  BY <1>2, BelowIs
<1>5. v \in Seq(Cells) /\ Len(v) = K - L /\ \A j \in 1..(K - L) : v[j] = r[L + j]
  <2>1. \A i \in (L + 1)..K : r[i] \in Cells
    <3>1. \A i \in (L + 1)..K : i \in 1..K
      BY <1>3
    <3> QED BY <1>2, <3>1, ElementOfSeq
  <2>2. L + 1 \in Int /\ K \in Int /\ K - (L + 1) + 1 = K - L
        /\ (L + 1 <= K \/ K - L = 0) /\ \A j \in 1..(K - L) : L + 1 + j - 1 = L + j
    BY <1>3, <1>4
  <2>3. v \in Seq(Cells)
    BY <2>1, <2>2, SubSeqProperties
  <2>4. Len(v) = IF L + 1 <= K THEN K - (L + 1) + 1 ELSE 0
    BY <2>1, <2>2, SubSeqProperties
  <2>5. Len(v) = K - L
    <3> HIDE DEF v, L, K
    <3> QED BY <1>3, <1>4, <2>4
  <2>6. \A j \in 1..(K - (L + 1) + 1) : v[j] = r[L + 1 + j - 1]
    BY <2>1, <2>2, SubSeqProperties
  <2>7. \A j \in 1..(K - L) : v[j] = r[L + j]
    <3> HIDE DEF v, L, K
    <3> QED BY <2>2, <2>6
  <2> QED BY <2>3, <2>5, <2>7
<1> HIDE DEF v
<1>7. w = new \o v
  BY DEF Hung, v
<1>6. w \in Seq(Cells) /\ Len(w) = M + (K - L)
      /\ \A i \in 1..(M + (K - L)) : w[i] = IF i <= M THEN new[i] ELSE v[i - M]
  <2>1. w \in Seq(Cells) /\ Len(w) = M + Len(v)
        /\ \A i \in 1..(M + Len(v)) : w[i] = IF i <= M THEN new[i] ELSE v[i - M]
    <3>1. /\ (new \o v) \in Seq(Cells) /\ Len(new \o v) = M + Len(v)
          /\ \A i \in 1..(M + Len(v)) : (new \o v)[i] = IF i <= M THEN new[i] ELSE v[i - M]
      BY <1>2, <1>5, ConcatProperties
    <3> QED BY <1>7, <3>1, Zenon
  <2> HIDE DEF K, L, M
  <2> QED BY <1>5, <2>1
<1>8. \A i \in 1..M : w[i] = new[i]
  <2>1. \A i \in 1..M : i \in 1..(M + (K - L)) /\ i <= M
    BY <1>3, <1>4
  <2> HIDE DEF M, K, L
  <2> QED BY <1>6, <2>1
<1>9. \A j \in 1..(K - L) : w[M + j] = r[L + j]
  <2>2. ASSUME NEW j \in 1..(K - L) PROVE w[M + j] = v[j]
    <3>1. \E i : i = M + j /\ i \in 1..(M + (K - L)) /\ ~(i <= M) /\ i - M = j
      BY <1>3, <1>4
    <3>2. PICK i : i = M + j /\ i \in 1..(M + (K - L)) /\ ~(i <= M) /\ i - M = j
      BY <3>1
    <3> HIDE DEF M, K, L
    <3>3. w[i] = v[j]
      BY <1>6, <3>2
    <3> QED BY <3>2, <3>3
  <2> HIDE DEF M, K, L
  <2> QED BY <1>5, <2>2
<1>10. w # <<>>
  BY <1>3, <1>4, <1>6
<1>11. w \in Rows
  BY <1>6, <1>10 DEF Rows
<1> QED BY <1>3, <1>4, <1>6, <1>8, <1>9, <1>11 DEF HungAt

(* move_folder() and move_child_folders_for_level(): the rows stay apart   *)
(* and hang on each other, because the folder goes where none of them is   *)
(* and not below itself.                                                   *)
LEMMA MovesTree ==
  ASSUME NEW t, GoodTree(t), NEW row \in DOMAIN t, NEW level \in Seq(Cells),
         level = <<>> \/ level \in DOMAIN t, ~IsPrefix(row, level),
         Permanent(row) => level = <<>>,
         NEW new, new = NewRow(DOMAIN t \ Below(t, row), level, RowName(row)),
         NEW u, u = Rehung(t, row, new)
  PROVE  /\ GoodTree(u) /\ Listed(u) = Listed(t) /\ NamesRead(u) = NamesRead(t)
         /\ NamesApart(t) => NamesApart(u)
<1> DEFINE D == DOMAIN t
           B == Below(t, row)
           to(r) == Hung(t, row, new, r)
           L == Len(row)
           M == Len(new)
<1>0. /\ t \in [D -> SUBSET Faxes] /\ D \subseteq Rows /\ IsFiniteSet(D)
      /\ Rooted(D) /\ BaseRow \in D /\ TrashRow \in D
      /\ \A r, s \in D : \A f \in t[r] \cap t[s] : r = s
  BY DEF GoodTree
<1>1. row \in Rows /\ row \in Seq(Cells) /\ L \in Nat \ {0} /\ RowName(row) \in RowNames
      /\ row[L] \in Cells /\ RowName(row) = row[L][1]
  <2>1. row \in Rows /\ row \in Seq(Cells) /\ row # <<>>
    BY <1>0 DEF Rows
  <2>2. L \in Nat \ {0} /\ Last(row) = row[L] /\ Last(row) \in Cells
    BY <2>1, FrontIs
  <2>3. RowName(row) \in RowNames
    BY <2>1, PathnameIs
  <2> QED BY <2>1, <2>2, <2>3 DEF RowName
<1>2. /\ new \notin D \ B /\ IsCopy(new, level, RowName(row))
      /\ Append(level, <<RowName(row), 1>>) \notin D \ B
           => new = Append(level, <<RowName(row), 1>>)
  <2> DEFINE R == D \ B
  <2>1. IsFiniteSet(R)
    BY <1>0, FS_Subset
  <2> HIDE DEF R
  <2>2. /\ NewRow(R, level, RowName(row)) \notin R
        /\ IsCopy(NewRow(R, level, RowName(row)), level, RowName(row))
        /\ Append(level, <<RowName(row), 1>>) \notin R
           => NewRow(R, level, RowName(row)) = Append(level, <<RowName(row), 1>>)
    <3>1. PICK label \in RowNames : label = RowName(row)
      BY <1>1
    <3>2. /\ NewRow(R, level, label) \notin R /\ IsCopy(NewRow(R, level, label), level, label)
          /\ Append(level, <<label, 1>>) \notin R
               => NewRow(R, level, label) = Append(level, <<label, 1>>)
      BY <2>1, NewRowIs
    <3> QED BY <3>1, <3>2
  <2> QED BY <2>2 DEF R
<1>3. PICK c \in Nat \ {0} : new = Append(level, <<RowName(row), c>>)
  BY <1>2 DEF IsCopy
<1>4. /\ new \in Rows /\ new \in Seq(Cells) /\ M = Len(level) + 1 /\ Len(level) \in Nat
      /\ new[M][1] = RowName(row) /\ \A i \in 1..Len(level) : new[i] = level[i]
  <2>1. <<RowName(row), c>> \in Cells
    BY <1>1 DEF Cells
  <2>2. PICK e \in Cells : e = <<RowName(row), c>>
    BY <2>1
  <2>3. new = Append(level, e) /\ e[1] = RowName(row)
    BY <1>3, <2>2
  <2>4. /\ Append(level, e) \in Seq(Cells) /\ Append(level, e) # <<>>
        /\ Len(Append(level, e)) = Len(level) + 1 /\ Append(level, e)[Len(level) + 1] = e
        /\ \A i \in 1..Len(level) : Append(level, e)[i] = level[i]
    BY AppendIs
  <2>5. /\ new \in Seq(Cells) /\ new # <<>> /\ M = Len(level) + 1 /\ new[Len(level) + 1] = e
        /\ \A i \in 1..Len(level) : new[i] = level[i]
    BY <2>3, <2>4, Zenon
  <2>6. new[M] = new[Len(level) + 1]
    BY <2>5, Zenon
  <2>7. new[M][1] = RowName(row)
    BY <2>3, <2>5, <2>6, Zenon
  <2>8. Len(level) \in Nat
    OBVIOUS
  <2>9. new \in Rows
    BY <2>5 DEF Rows
  <2> QED BY <2>5, <2>7, <2>8, <2>9, Zenon
<1> HIDE DEF D, B
<1>5. ASSUME NEW r \in D
      PROVE  r \in B <=> L <= Len(r) /\ \A n \in 1..L : row[n] = r[n]
  BY <1>1, <1>5, BelowIs DEF B, D
<1>6. ASSUME NEW r \in D, r \in B
      PROVE  /\ to(r) \in Rows /\ Len(to(r)) = M + (Len(r) - L) /\ L <= Len(r)
             /\ Len(r) \in Nat /\ M \in Nat \ {0}
             /\ \A i \in 1..L : r[i] = row[i]
             /\ \A i \in 1..M : to(r)[i] = new[i]
             /\ \A j \in 1..(Len(r) - L) : to(r)[M + j] = r[L + j]
  <2>0. PICK w : w = Hung(t, row, new, r)
    OBVIOUS
  <2>1. r \in DOMAIN t /\ r \in Below(t, row) /\ new \in Rows
    BY <1>4, <1>6 DEF D, B
  <2>2. HungAt(r, row, new, w)
    BY <2>0, <2>1, HungIs
  <2> QED BY <2>0, <2>2 DEF HungAt
<1>7. ASSUME NEW r \in D, r \notin B PROVE to(r) = r /\ to(r) \in Rows
  BY <1>0, <1>7 DEF Hung, B, D
<1> HIDE DEF to
<1>8. ASSUME NEW r \in D, r \notin B, NEW n \in 1..Len(r)
      PROVE  SubSeq(r, 1, n) \in D \ B
  <2>1. r \in Seq(Cells) /\ Len(r) \in Nat /\ n \in 0..Len(r) /\ SubSeq(r, 1, n) \in D
    BY <1>0, <1>8 DEF Rows, Rooted
  <2>2. Len(SubSeq(r, 1, n)) = n /\ \A i \in 1..n : SubSeq(r, 1, n)[i] = r[i]
    BY <2>1, FirstOf
  <2>3. SUFFICES ASSUME SubSeq(r, 1, n) \in B PROVE FALSE
    BY <2>1
  <2>4. L <= n /\ \A i \in 1..L : row[i] = SubSeq(r, 1, n)[i]
    BY <1>5, <2>1, <2>2, <2>3
  <2>5. L <= Len(r) /\ \A i \in 1..L : i \in 1..n
    BY <1>1, <2>1, <2>4
  <2>6. \A i \in 1..L : row[i] = r[i]
    BY <2>2, <2>4, <2>5
  <2> QED BY <1>5, <1>8, <2>5, <2>6
(* A row that the folder leaves is none below where it comes.              *)
<1>9. ASSUME NEW r \in D, r \notin B, NEW s \in D, s \in B, to(s) = r PROVE FALSE
  <2>1. r \in Rows /\ Len(r) = M + (Len(s) - L) /\ M \in Nat \ {0} /\ Len(s) \in Nat /\ L <= Len(s)
        /\ \A i \in 1..M : r[i] = new[i]
    BY <1>6, <1>9
  <2>2. M \in 1..Len(r) /\ M \in 0..Len(r)
    BY <1>1, <2>1
  <2>3. SubSeq(r, 1, M) \in D \ B
    BY <1>8, <1>9, <2>2
  <2>4. /\ SubSeq(r, 1, M) \in Seq(Cells) /\ Len(SubSeq(r, 1, M)) = M
        /\ \A i \in 1..M : SubSeq(r, 1, M)[i] = r[i]
    BY <2>1, <2>2, FirstOf DEF Rows
  <2>5. SubSeq(r, 1, M) = new
    BY <1>4, <2>1, <2>4, SeqEqual
  <2> QED BY <1>2, <2>3, <2>5
<1>10. ASSUME NEW r \in D, NEW s \in D, to(r) = to(s) PROVE r = s
  <2>1. CASE r \notin B /\ s \notin B
    BY <1>7, <1>10, <2>1
  <2>2. CASE r \notin B /\ s \in B
    BY <1>7, <1>9, <1>10, <2>2
  <2>3. CASE r \in B /\ s \notin B
    BY <1>7, <1>9, <1>10, <2>3
  <2>4. CASE r \in B /\ s \in B
    <3>1. /\ Len(to(r)) = M + (Len(r) - L) /\ L <= Len(r) /\ Len(r) \in Nat /\ M \in Nat
          /\ \A i \in 1..L : r[i] = row[i]
          /\ \A j \in 1..(Len(r) - L) : to(r)[M + j] = r[L + j]
      BY <1>6, <2>4
    <3>2. /\ Len(to(s)) = M + (Len(s) - L) /\ L <= Len(s) /\ Len(s) \in Nat
          /\ \A i \in 1..L : s[i] = row[i]
          /\ \A j \in 1..(Len(s) - L) : to(s)[M + j] = s[L + j]
      BY <1>6, <2>4
    <3>3. Len(r) = Len(s)
      <4>1. M + (Len(r) - L) = M + (Len(s) - L)
        BY <1>10, <3>1, <3>2
      <4> QED BY <1>1, <3>1, <3>2, <4>1
    <3>4. ASSUME NEW i \in 1..Len(r) PROVE r[i] = s[i]
      <4>1. CASE i \in 1..L
        BY <3>1, <3>2, <4>1
      <4>2. CASE i \notin 1..L
        <5> DEFINE j == i - L
        <5>1. j \in 1..(Len(r) - L) /\ L + j = i
          BY <1>1, <3>1, <4>2
        <5> HIDE DEF j
        <5>2. r[L + j] = s[L + j]
          BY <1>10, <3>1, <3>2, <3>3, <5>1
        <5> QED BY <5>1, <5>2
      <4> QED BY <4>1, <4>2
    <3>5. r \in Seq(Cells) /\ s \in Seq(Cells)
      BY <1>0 DEF Rows
    <3> QED BY <3>3, <3>4, <3>5, SeqEqual
  <2> QED BY <2>1, <2>2, <2>3, <2>4
<1> DEFINE E == {to(r) : r \in D}
<1>11. /\ DOMAIN u = E
       /\ u = [n \in E |-> u[n]]
       /\ \A r \in D : u[to(r)] = t[r]
  <2>1. u = [n \in E |-> t[CHOOSE r \in D : to(r) = n]]
    BY DEF Rehung, to, Hung, D
  <2>2. DOMAIN u = E /\ \A n \in E : u[n] = t[CHOOSE r \in D : to(r) = n]
    BY <2>1
  <2>3. u = [n \in E |-> u[n]]
    <3> HIDE DEF E
    <3> QED BY <2>1, <2>2
  <2>4. ASSUME NEW r \in D PROVE u[to(r)] = t[r]
    <3> DEFINE s == CHOOSE x \in D : to(x) = to(r)
    <3>1. s \in D /\ to(s) = to(r)
      OBVIOUS
    <3>2. u[to(r)] = t[s]
      BY <2>2
    <3> HIDE DEF s
    <3>3. s = r
      BY <1>10, <3>1
    <3> QED BY <3>2, <3>3
  <2> QED BY <2>2, <2>3, <2>4
<1>12. E \subseteq Rows
  BY <1>6, <1>7
<1>13. IsFiniteSet(E)
  <2> DEFINE g == [r \in D |-> to(r)]
  <2>1. g \in [D -> E] /\ \A y \in E : \E x \in D : g[x] = y
    OBVIOUS
  <2> HIDE DEF E, g
  <2> QED BY <1>0, <2>1, FiniteImage
<1>14. Rooted(E)
  <2> SUFFICES ASSUME NEW r \in D, NEW n \in 1..Len(to(r)) PROVE SubSeq(to(r), 1, n) \in E
    BY DEF Rooted
  <2>1. CASE r \notin B
    <3>1. to(r) = r
      BY <1>7, <2>1
    <3>2. SubSeq(r, 1, n) \in D \ B
      BY <1>8, <2>1, <3>1
    <3>3. to(SubSeq(r, 1, n)) = SubSeq(r, 1, n)
      BY <1>7, <3>2
    <3> QED BY <3>1, <3>2, <3>3
  <2>2. CASE r \in B
    <3> DEFINE w == SubSeq(to(r), 1, n)
    <3>1. /\ to(r) \in Rows /\ Len(to(r)) = M + (Len(r) - L) /\ L <= Len(r)
          /\ Len(r) \in Nat /\ M \in Nat \ {0}
          /\ \A i \in 1..L : r[i] = row[i]
          /\ \A i \in 1..M : to(r)[i] = new[i]
          /\ \A j \in 1..(Len(r) - L) : to(r)[M + j] = r[L + j]
      BY <1>6, <2>2
    <3>2. n \in Nat /\ 1 <= n /\ n <= Len(to(r)) /\ n \in 0..Len(to(r)) /\ to(r) \in Seq(Cells)
      BY <1>1, <3>1 DEF Rows
    <3>3. w \in Seq(Cells) /\ Len(w) = n /\ \A i \in 1..n : w[i] = to(r)[i]
      BY <3>2, FirstOf
    <3> HIDE DEF w
    <3>4. CASE n <= Len(level)
      <4>1. level \in D /\ n \in 1..Len(level) /\ n \in 0..Len(level)
        <5>1. level # <<>>
          BY <3>2, <3>4, EmptySeq
        <5> QED BY <1>4, <3>2, <3>4, <5>1 DEF D
      <4>2. level \notin B
        BY DEF B, Below
      <4>3. SubSeq(level, 1, n) \in D \ B
        BY <1>8, <4>1, <4>2
      <4>4. /\ SubSeq(level, 1, n) \in Seq(Cells) /\ Len(SubSeq(level, 1, n)) = n
            /\ \A i \in 1..n : SubSeq(level, 1, n)[i] = level[i]
        BY <4>1, FirstOf
      <4>5. \A i \in 1..n : i \in 1..Len(level) /\ i \in 1..M
        BY <1>4, <3>2, <3>4
      <4>6. \A i \in 1..n : w[i] = level[i]
        BY <1>4, <3>1, <3>3, <4>5
      <4>7. w = SubSeq(level, 1, n)
        BY <3>3, <4>4, <4>6, SeqEqual
      <4>8. to(w) = w /\ w \in D
        BY <1>7, <4>3, <4>7
      <4> QED BY <4>8 DEF w
    <3>5. CASE ~(n <= Len(level))
      <4> DEFINE k == L + (n - M)
                 s == SubSeq(r, 1, k)
      <4>1. n - M \in Nat /\ k \in 1..Len(r) /\ k \in 0..Len(r) /\ L <= k /\ k \in Nat /\ M <= n
            /\ k - L = n - M /\ M + (k - L) = n
        <5>1. M <= n /\ n \in Nat /\ M \in Nat /\ L \in Nat /\ L # 0
          BY <1>1, <1>4, <3>1, <3>2, <3>5
        <5>2. PICK K \in Nat : K = Len(r) /\ L <= K /\ n <= M + (K - L)
          BY <3>1, <3>2
        <5> HIDE DEF L, M
        <5> QED BY <5>1, <5>2
      <4>2. r \in Seq(Cells) /\ s \in D
        BY <1>0, <4>1 DEF Rows, Rooted
      <4>3. Len(s) = k /\ \A i \in 1..k : s[i] = r[i]
        BY <4>1, <4>2, FirstOf
      <4> HIDE DEF s
      <4>4. s \in B
        <5>1. \A i \in 1..L : i \in 1..k
          BY <1>1, <4>1
        <5>2. \A i \in 1..L : row[i] = s[i]
          BY <3>1, <4>3, <5>1
        <5> QED BY <1>5, <4>1, <4>2, <4>3, <5>2
      <4>5. /\ to(s) \in Rows /\ Len(to(s)) = M + (k - L)
            /\ \A i \in 1..M : to(s)[i] = new[i]
            /\ \A j \in 1..(k - L) : to(s)[M + j] = s[L + j]
        BY <1>6, <4>2, <4>3, <4>4
      <4>6. to(s) \in Seq(Cells) /\ Len(to(s)) = n
        BY <4>1, <4>5 DEF Rows
      <4>7. ASSUME NEW i \in 1..n PROVE w[i] = to(s)[i]
        <5>1. CASE i <= M
          <6>1. i \in 1..M
            BY <3>1, <5>1
          <6> QED BY <3>1, <3>3, <4>5, <6>1
        <5>2. CASE ~(i <= M)
          <6> DEFINE j == i - M
          <6>1. j \in 1..(k - L) /\ j \in 1..(Len(r) - L) /\ M + j = i /\ L + j \in 1..k
            BY <1>1, <3>1, <3>2, <4>1, <5>2
          <6> HIDE DEF j, k
          <6>2. w[i] = r[L + j]
            BY <3>1, <3>3, <6>1
          <6>3. to(s)[i] = s[L + j] /\ s[L + j] = r[L + j]
            BY <4>3, <4>5, <6>1
          <6> QED BY <6>2, <6>3
        <5> QED BY <5>1, <5>2
      <4>8. w = to(s)
        <5> HIDE DEF k
        <5> QED BY <3>3, <4>6, <4>7, SeqEqual
      <4> QED BY <4>2, <4>8 DEF w
    <3> QED BY <3>4, <3>5
  <2> QED BY <2>1, <2>2
<1>15. ASSUME NEW top \in {BaseRow, TrashRow} PROVE top \in E
  <2>1. top \in D /\ Len(top) = 1 /\ top \in Rows /\ top \in Seq(Cells)
    BY <1>0, <1>15, BaseAndTrash DEF Rows
  <2>2. CASE top \notin B
    BY <1>7, <2>1, <2>2
  <2>3. CASE top \in B
    <3>1. L = 1 /\ row[1] = top[1]
      BY <1>1, <1>5, <2>1, <2>3
    <3>2. row = top
      <4>1. \A i \in 1..1 : i = 1
        OBVIOUS
      <4> QED BY <1>1, <2>1, <3>1, <4>1, SeqEqual
    <3>3. level = <<>>
      BY <1>15, <3>2 DEF Permanent
    <3>4. PICK label : top = <<<<label, 1>>>>
      BY <1>15 DEF BaseRow, TrashRow
    <3>5. RowName(row) = label
      BY <3>2, <3>4 DEF RowName, Last
    <3>6. Append(level, <<RowName(row), 1>>) = top
      BY <3>3, <3>4, <3>5
    <3>7. new = top
      BY <1>2, <2>3, <3>6
    <3>8. to(row) = row
      <4>1. row \in D /\ row \in B
        BY <2>1, <2>3, <3>2
      <4>2. /\ to(row) \in Rows /\ Len(to(row)) = M + (L - L)
            /\ \A i \in 1..M : to(row)[i] = new[i]
        BY <1>6, <4>1
      <4>3. M = 1 /\ M + (L - L) = 1 /\ new = row
        BY <1>1, <2>1, <3>2, <3>7
      <4> QED BY <1>1, <3>1, <4>2, <4>3, SeqEqual DEF Rows
    <3> QED BY <2>1, <3>2, <3>8
  <2> QED BY <2>2, <2>3
<1>16. ASSUME NEW r \in D PROVE RowName(to(r)) = RowName(r)
  <2>1. CASE r \notin B
    BY <1>7, <2>1
  <2>2. CASE r \in B
    <3>1. /\ to(r) \in Rows /\ Len(to(r)) = M + (Len(r) - L) /\ L <= Len(r)
          /\ Len(r) \in Nat /\ M \in Nat \ {0}
          /\ \A i \in 1..L : r[i] = row[i]
          /\ \A i \in 1..M : to(r)[i] = new[i]
          /\ \A j \in 1..(Len(r) - L) : to(r)[M + j] = r[L + j]
      BY <1>6, <2>2
    <3>2. CASE Len(r) = L
      <4>1. Len(to(r)) = M /\ M \in 1..M /\ L \in 1..L
        BY <1>1, <3>1, <3>2
      <4>2. to(r)[Len(to(r))][1] = RowName(row) /\ r[Len(r)] = row[L]
        BY <1>4, <3>1, <3>2, <4>1
      <4> QED BY <1>1, <4>2 DEF RowName, Last
    <3>3. CASE Len(r) # L
      <4> DEFINE j == Len(r) - L
      <4>1. j \in 1..(Len(r) - L) /\ M + j = Len(to(r)) /\ L + j = Len(r)
        BY <1>1, <3>1, <3>3
      <4> HIDE DEF j
      <4>2. to(r)[Len(to(r))] = r[Len(r)]
        BY <3>1, <4>1
      <4> QED BY <4>2 DEF RowName, Last
    <3> QED BY <3>2, <3>3
  <2> QED BY <2>1, <2>2
<1>17. u \in [E -> SUBSET Faxes]
  <2>1. \A n \in E : u[n] \in SUBSET Faxes
    <3> SUFFICES ASSUME NEW r \in D PROVE u[to(r)] \in SUBSET Faxes
      OBVIOUS
    <3>1. u[to(r)] = t[r]
      BY <1>11
    <3>2. t[r] \in SUBSET Faxes
      BY <1>0
    <3> QED BY <3>1, <3>2
  <2>2. [n \in E |-> u[n]] \in [E -> SUBSET Faxes]
    <3> HIDE DEF E
    <3> QED BY <2>1
  <2> HIDE DEF E
  <2> QED BY <1>11, <2>2, Zenon
<1>18. \A n, m \in E : \A f \in u[n] \cap u[m] : n = m
  <2> SUFFICES ASSUME NEW r \in D, NEW s \in D, NEW f \in u[to(r)] \cap u[to(s)]
               PROVE  to(r) = to(s)
    OBVIOUS
  <2>1. u[to(r)] = t[r] /\ u[to(s)] = t[s]
    BY <1>11
  <2>2. f \in t[r] \cap t[s]
    BY <2>1
  <2> QED BY <1>0, <2>2
<1>19. GoodTree(u)
  <2> HIDE DEF E
  <2> QED BY <1>11, <1>12, <1>13, <1>14, <1>15, <1>17, <1>18 DEF GoodTree
<1>20. Listed(u) = Listed(t)
  <2>1. Listed(u) = UNION {u[n] : n \in E} /\ Listed(t) = UNION {t[r] : r \in D}
    BY <1>11 DEF Listed, D
  <2>2. {u[n] : n \in E} = {t[r] : r \in D}
    <3>1. \A r \in D : u[to(r)] = t[r]
      BY <1>11
    <3>2. \A r \in D : t[r] \in {u[n] : n \in E}
      <4> TAKE r \in D
      <4>1. to(r) \in E
        OBVIOUS
      <4> HIDE DEF E
      <4> QED BY <3>1, <4>1
    <3>3. \A n \in E : u[n] \in {t[r] : r \in D}
      BY <3>1
    <3> HIDE DEF E
    <3> QED BY <3>2, <3>3
  <2> QED BY <2>1, <2>2
<1>21. NamesRead(u) = NamesRead(t)
  <2>1. NamesRead(u) = {RowName(to(r)) : r \in D}
    BY <1>11 DEF NamesRead
  <2>2. {RowName(to(r)) : r \in D} = {RowName(r) : r \in D}
    BY <1>16
  <2> QED BY <2>1, <2>2 DEF NamesRead, D
<1>22. NamesApart(t) => NamesApart(u)
  <2> SUFFICES ASSUME NamesApart(t), NEW r \in D, NEW s \in D, RowName(to(r)) = RowName(to(s))
               PROVE  to(r) = to(s)
    BY <1>11 DEF NamesApart
  <2>1. RowName(r) = RowName(s)
    BY <1>16
  <2>2. r = s
    BY <2>1 DEF NamesApart, D
  <2> QED BY <2>2
<1> QED BY <1>19, <1>20, <1>21, <1>22

----------------------------------------------------------------------------
(* The invariant. *)

FoldersTypes ==
  /\ listOpen \in BOOLEAN /\ unsaved \in BOOLEAN /\ torn \in BOOLEAN
  /\ doomed \subseteq Faxes /\ folderSet \subseteq RowNames
  /\ folderFaults \in [crashes : Nat, failures : Nat]
  /\ DiskTypes(paths, pathList)

(* The faxes of the tree are on the disk, and of those on the disk the tree *)
(* misses only deleted ones.                                               *)
Follows(t, ps, gone) ==
  GoodTree(t) /\ Listed(t) \subseteq DOMAIN ps /\ DOMAIN ps \ gone \subseteq Listed(t)

TreeGood ==
  /\ listOpen => Follows(tree, paths, doomed)
  /\ ~listOpen => tree = <<>>

(* No save was cut short and no directory of a deleted fax is left.        *)
Intact == ~torn /\ folderFaults.failures = 0

(* What is on the disk is this tree.                                       *)
SavedAs(t, ps, lists) ==
  /\ PathsOf(t) = NamedPaths(ps, lists)
  /\ \A r \in DOMAIN t : \A f \in t[r] : FolderOfFax(ps, f) = Pathname(r)

NamesKept == listOpen => NamesApart(tree) /\ folderSet = NamesRead(tree)

DiskSound ==
  /\ DOMAIN paths \cap doomed = {}
  /\ LastsApart(NamedPaths(paths, pathList))
  /\ listOpen /\ ~unsaved => SavedAs(tree, paths, pathList)

FoldersInv == FoldersTypes /\ TreeGood /\ (Intact => NamesKept /\ DiskSound)

----------------------------------------------------------------------------
(* Lemmas of the steps. *)

LEMMA NamesAre ==
  ASSUME NEW t, GoodTree(t) PROVE NamesRead(t) \subseteq RowNames
<1>1. DOMAIN t \subseteq Rows
  BY DEF GoodTree
<1> QED BY <1>1, PathnameIs DEF NamesRead

(* is_valid_drop_path(), which compares path names: a folder does not go   *)
(* into itself or below.                                                   *)
LEMMA DropsAside ==
  ASSUME NEW t, GoodTree(t), NEW row \in DOMAIN t, NEW dest \in DOMAIN t,
         NEW level, level = dest \/ level = Front(dest),
         is_valid_drop_path(Pathname(row), Append(Pathname(level), RowName(row)))
  PROVE  /\ level \in Seq(Cells) /\ ~IsPrefix(row, level)
         /\ level = <<>> \/ level \in DOMAIN t
<1>1. row \in Rows /\ dest \in Rows /\ Rooted(DOMAIN t)
  BY DEF GoodTree
<1>2. row \in Seq(Cells) /\ dest \in Seq(Cells) /\ row # <<>> /\ dest # <<>>
  BY <1>1 DEF Rows
<1>3. level \in Seq(Cells) /\ (level = <<>> \/ level \in DOMAIN t)
  <2>1. CASE level = dest
    BY <1>2, <2>1
  <2>2. CASE level = Front(dest)
    <3>1. Len(dest) \in Nat \ {0} /\ Front(dest) = SubSeq(dest, 1, Len(dest) - 1)
          /\ Front(dest) \in Seq(Cells) /\ Len(Front(dest)) = Len(dest) - 1
      BY <1>2, FrontIs
    <3>2. CASE Len(dest) = 1
      <4>1. Len(Front(dest)) = 0
        BY <3>1, <3>2
      <4>2. Front(dest) = <<>>
        BY <3>1, <4>1, EmptySeq
      <4> QED BY <2>2, <3>1, <4>2
    <3>3. CASE Len(dest) # 1
      <4>1. Len(dest) - 1 \in 1..Len(dest)
        BY <3>1, <3>3
      <4>2. SubSeq(dest, 1, Len(dest) - 1) \in DOMAIN t
        BY <1>1, <4>1 DEF Rooted
      <4> QED BY <2>2, <3>1, <4>2, Zenon
    <3> QED BY <3>2, <3>3
  <2> QED BY <2>1, <2>2
<1>4. ASSUME IsPrefix(row, level) PROVE FALSE
  <2> DEFINE label == RowName(row)
  <2>1. Len(row) <= Len(level) /\ (\A n \in 1..Len(row) : row[n] = level[n])
        /\ Len(row) \in Nat \ {0} /\ Len(level) \in Nat
    BY <1>2, <1>3, <1>4, PrefixIs, FrontIs
  <2>2. level # <<>>
    BY <2>1
  <2>3. level \in Rows
    BY <1>3, <2>2 DEF Rows
  <2>4. PICK p : p = Pathname(row)
    OBVIOUS
  <2>5. PICK l : l = Pathname(level)
    OBVIOUS
  <2>6. p \in Seq(RowNames) /\ p # <<>> /\ Len(p) = Len(row) /\ (\A i \in 1..Len(row) : p[i] = row[i][1])
        /\ label \in RowNames
    BY <1>1, <2>4, PathnameIs DEF Paths
  <2>7. l \in Seq(RowNames) /\ Len(l) = Len(level) /\ \A i \in 1..Len(level) : l[i] = level[i][1]
    BY <2>3, <2>5, PathnameIs DEF Paths
  <2>8. PICK q : q = Append(l, label)
    OBVIOUS
  <2> HIDE DEF label
  <2>9. /\ Append(l, label) \in Seq(RowNames) /\ Len(Append(l, label)) = Len(l) + 1
        /\ \A i \in 1..Len(l) : Append(l, label)[i] = l[i]
    BY <2>6, <2>7, AppendIs
  <2>10. q \in Seq(RowNames) /\ Len(q) = Len(l) + 1 /\ \A i \in 1..Len(l) : q[i] = l[i]
    BY <2>8, <2>9, Zenon
  <2>11. /\ Len(p) \in Nat \ {0} /\ Len(q) \in Nat /\ Len(p) < Len(q) /\ Len(p) - 1 \in 0..Len(q)
         /\ Len(p) \in 1..Len(p) /\ \A i \in 1..Len(p) : i \in 1..Len(row) /\ i \in 1..Len(l)
    BY <2>1, <2>6, <2>7, <2>10
  <2>12. \A i \in 1..Len(p) : p[i] = q[i]
    BY <2>1, <2>6, <2>7, <2>10, <2>11
  <2>13. Front(p) = SubSeq(p, 1, Len(p) - 1) /\ Front(p) \in Seq(RowNames)
         /\ Len(Front(p)) = Len(p) - 1 /\ Last(p) = p[Len(p)]
    BY <2>6, FrontIs
  <2>14. /\ SubSeq(q, 1, Len(p) - 1) \in Seq(RowNames) /\ Len(SubSeq(q, 1, Len(p) - 1)) = Len(p) - 1
         /\ \A i \in 1..(Len(p) - 1) : SubSeq(q, 1, Len(p) - 1)[i] = q[i]
    BY <2>10, <2>11, FirstOf
  <2>15. \A i \in 1..(Len(p) - 1) : SubSeq(p, 1, Len(p) - 1)[i] = p[i] /\ i \in 1..Len(p)
    <3>1. Len(p) - 1 \in 0..Len(p) /\ \A i \in 1..(Len(p) - 1) : i \in 1..Len(p)
      BY <2>11
    <3> QED BY <2>6, <3>1, FirstOf
  <2>16. Front(p) = SubSeq(q, 1, Len(p) - 1)
    BY <2>12, <2>13, <2>14, <2>15, SeqEqual
  <2>17. BeginsPath(p, q)
    <3>1. Last(p) = q[Len(p)]
      BY <2>11, <2>12, <2>13
    <3>2. Len(p) <= Len(q)
      BY <2>11
    <3> QED BY <2>11, <2>16, <3>1, <3>2 DEF BeginsPath
  <2>18. ~BeginsPath(p, q)
    BY <2>4, <2>5, <2>8 DEF is_valid_drop_path, label
  <2> QED BY <2>17, <2>18
<1> QED BY <1>3, <1>4

(* A save of a tree that follows the disk.                                 *)
LEMMA SaveStep ==
  ASSUME NEW t, NEW ps, NEW lists, NEW gone, DiskTypes(ps, lists), Follows(t, ps, gone),
         NEW ws, ws = PathsWritten(t, ps, Listed(t)), NEW named, named = PathsOf(t)
  PROVE  /\ DiskTypes(ws, named) /\ Follows(t, ws, gone) /\ DOMAIN ws = DOMAIN ps
         /\ NamesApart(t) /\ DOMAIN ps \cap gone = {} =>
              LastsApart(NamedPaths(ws, named)) /\ SavedAs(t, ws, named)
<1>1. GoodTree(t) /\ Listed(t) \subseteq DOMAIN ps /\ DOMAIN ps \ gone \subseteq Listed(t)
  BY DEF Follows
<1>2. /\ DiskTypes(ws, named) /\ DOMAIN ws = DOMAIN ps
      /\ NamesApart(t) => LastsApart(named)
      /\ DOMAIN ps = Listed(t) =>
           /\ NamedPaths(ws, named) = named
           /\ \A r \in DOMAIN t : \A f \in t[r] : FolderOfFax(ws, f) = Pathname(r)
  BY <1>1, SavesDisk
<1>3. DOMAIN ps \cap gone = {} => DOMAIN ps = Listed(t)
  BY <1>1
<1>4. Follows(t, ws, gone)
  BY <1>1, <1>2 DEF Follows
<1>5. ASSUME NamesApart(t), DOMAIN ps \cap gone = {}
      PROVE  LastsApart(NamedPaths(ws, named)) /\ SavedAs(t, ws, named)
  <2>1. NamedPaths(ws, named) = named /\ LastsApart(named)
        /\ \A r \in DOMAIN t : \A f \in t[r] : FolderOfFax(ws, f) = Pathname(r)
    BY <1>2, <1>3, <1>5
  <2> QED BY <2>1 DEF SavedAs
<1> QED BY <1>2, <1>4, <1>5

LEMMA SaveInv ==
  ASSUME NEW t, NEW ps, NEW open \in BOOLEAN, FoldersInv, Saves(t, ps),
         listOpen' = open, tree' = (IF open THEN t ELSE <<>>),
         DiskTypes(ps, pathList), Follows(t, ps, doomed'), doomed' \subseteq Faxes,
         folderSet' \subseteq RowNames, folderFaults' \in [crashes : Nat, failures : Nat],
         Intact' => /\ NamesApart(t) /\ DOMAIN ps \cap doomed' = {}
                    /\ open => folderSet' = NamesRead(t)
  PROVE  FoldersInv'
<1>1. /\ pathList' = PathsOf(t) /\ paths' = PathsWritten(t, ps, Listed(t))
      /\ unsaved' = FALSE /\ torn' = torn /\ torn \in BOOLEAN
  BY DEF Saves, PathsOf, FoldersInv, FoldersTypes
<1>2. /\ DiskTypes(paths', pathList') /\ Follows(t, paths', doomed') /\ DOMAIN paths' = DOMAIN ps
      /\ NamesApart(t) /\ DOMAIN ps \cap doomed' = {} =>
           LastsApart(NamedPaths(paths', pathList')) /\ SavedAs(t, paths', pathList')
  BY <1>1, SaveStep
<1>3. FoldersTypes'
  BY <1>1, <1>2 DEF FoldersTypes
<1>4. TreeGood'
  BY <1>2 DEF TreeGood
<1>5. ASSUME Intact' PROVE NamesKept' /\ DiskSound'
  BY <1>2, <1>5 DEF NamesKept, DiskSound
<1> QED BY <1>3, <1>4, <1>5 DEF FoldersInv

LEMMA DieInv ==
  ASSUME NEW t, NEW ps, FoldersInv, DiesSaving(t, ps), listOpen' = FALSE,
         GoodTree(t), DiskTypes(ps, pathList), doomed' \subseteq Faxes, folderSet' \subseteq RowNames
  PROVE  FoldersInv'
<1>1. /\ pathList' = {} /\ tree' = <<>> /\ unsaved' = FALSE /\ torn' = TRUE
      /\ folderFaults' = [folderFaults EXCEPT !.crashes = @ + 1]
  BY DEF DiesSaving
<1>2. PICK fs \in SUBSET Listed(t) : \E cut :
        paths' = [f \in DOMAIN ps |-> IF f \in cut THEN <<>> ELSE PathsWritten(t, ps, fs)[f]]
  BY DEF DiesSaving
<1>3. PICK cut :
        paths' = [f \in DOMAIN ps |-> IF f \in cut THEN <<>> ELSE PathsWritten(t, ps, fs)[f]]
  BY <1>2
<1>4. DiskTypes(paths', {})
  <2>1. paths' = CutShort(t, ps, fs, cut)
    BY <1>3 DEF CutShort
  <2>2. DiskTypes(CutShort(t, ps, fs, cut), {})
    BY CutDisk
  <2> QED BY <2>1, <2>2
<1>5. folderFaults' \in [crashes : Nat, failures : Nat]
  BY <1>1 DEF FoldersInv, FoldersTypes
<1>6. FoldersTypes' /\ TreeGood' /\ ~Intact'
  BY <1>1, <1>4, <1>5 DEF FoldersTypes, TreeGood, Intact
<1> QED BY <1>6 DEF FoldersInv

(* A save of a changed tree when nothing failed.                           *)
LEMMA WriteInv ==
  ASSUME NEW t, NEW open \in BOOLEAN, FoldersInv, WritesPath(t, paths, open),
         Follows(t, paths, doomed), doomed' = doomed, folderSet' \subseteq RowNames,
         Intact => NamesApart(t) /\ (open => folderSet' = NamesRead(t))
  PROVE  FoldersInv'
<1>1. /\ DiskTypes(paths, pathList) /\ doomed \subseteq Faxes
      /\ folderFaults \in [crashes : Nat, failures : Nat]
      /\ Intact => DOMAIN paths \cap doomed = {}
  BY DEF FoldersInv, FoldersTypes, DiskSound
<1>2. CASE /\ Saves(t, paths) /\ folderFaults' = folderFaults
           /\ listOpen' = open /\ tree' = (IF open THEN t ELSE <<>>)
  <2>1. Intact' => Intact
    BY <1>2 DEF Intact, Saves
  <2>2. Follows(t, paths, doomed') /\ doomed' \subseteq Faxes
        /\ folderFaults' \in [crashes : Nat, failures : Nat]
    BY <1>1, <1>2
  <2>3. Intact' => /\ NamesApart(t) /\ DOMAIN paths \cap doomed' = {}
                   /\ open => folderSet' = NamesRead(t)
    BY <1>1, <2>1
  <2> QED BY <1>1, <1>2, <2>2, <2>3, SaveInv
<1>3. CASE DiesSaving(t, paths) /\ listOpen' = FALSE
  BY <1>1, <1>3, DieInv DEF Follows
<1> QED BY <1>2, <1>3 DEF WritesPath

----------------------------------------------------------------------------
(* The steps. *)

LEMMA OpensListInv ==
  ASSUME FoldersInv, OpensList PROVE FoldersInv'
<1>1. /\ FoldersTypes /\ DiskTypes(paths, pathList)
      /\ Intact => /\ DOMAIN paths \cap doomed = {}
                   /\ LastsApart(NamedPaths(paths, pathList))
  BY DEF FoldersInv, FoldersTypes, DiskSound
<1>2. PICK t : t = Populated(paths, pathList)
  OBVIOUS
<1>3. /\ GoodTree(t) /\ Listed(t) = DOMAIN paths
      /\ PathsOf(t) = NamedPaths(paths, pathList)
      /\ \A r \in DOMAIN t : \A f \in t[r] : Pathname(r) = FolderOfFax(paths, f)
      /\ LastsApart(NamedPaths(paths, pathList)) => NamesApart(t)
  <2>1. PICK ps, lists : ps = paths /\ lists = pathList
    OBVIOUS
  <2>2. DiskTypes(ps, lists) /\ t = Populated(ps, lists)
    BY <1>1, <1>2, <2>1
  <2>3. /\ GoodTree(t) /\ Listed(t) = DOMAIN ps
        /\ PathsOf(t) = NamedPaths(ps, lists)
        /\ \A r \in DOMAIN t : \A f \in t[r] : Pathname(r) = FolderOfFax(ps, f)
        /\ LastsApart(NamedPaths(ps, lists)) => NamesApart(t)
    BY <2>2, ReadsGoodTree
  <2> QED BY <2>1, <2>3
<1>4. /\ listOpen' = TRUE /\ tree' = t /\ folderSet' = NamesRead(t) /\ unsaved' = FALSE
      /\ paths' = paths /\ pathList' = pathList /\ torn' = torn /\ doomed' = doomed
      /\ folderFaults' = folderFaults
  BY <1>2 DEF OpensList
<1>5. NamesRead(t) \subseteq RowNames
  BY <1>3, NamesAre
<1>6. FoldersTypes'
  BY <1>1, <1>4, <1>5 DEF FoldersTypes
<1>7. TreeGood'
  BY <1>3, <1>4 DEF TreeGood, Follows
<1>8. ASSUME Intact' PROVE NamesKept' /\ DiskSound'
  <2>1. Intact
    BY <1>4, <1>8 DEF Intact
  <2>2. SavedAs(t, paths, pathList)
    BY <1>3 DEF SavedAs
  <2> QED BY <1>1, <1>3, <1>4, <2>1, <2>2 DEF NamesKept, DiskSound
<1> QED BY <1>6, <1>7, <1>8 DEF FoldersInv

(* A fax that has no Path leaves the folders that the disk names.          *)
LEMMA NewOnDisk ==
  ASSUME NEW ps, NEW lists, DiskTypes(ps, lists), NEW x \in Faxes \ DOMAIN ps,
         NEW ws, ws = [g \in DOMAIN ps \cup {x} |-> IF g = x THEN <<>> ELSE ps[g]]
  PROVE  /\ DiskTypes(ws, lists) /\ DOMAIN ws = DOMAIN ps \cup {x}
         /\ NamedPaths(ws, lists) = NamedPaths(ps, lists)
         /\ FolderOfFax(ws, x) = <<Base>>
         /\ \A f \in DOMAIN ps : FolderOfFax(ws, f) = FolderOfFax(ps, f)
<1>1. /\ DOMAIN ws = DOMAIN ps \cup {x} /\ ws[x] = <<>>
      /\ \A f \in DOMAIN ps : ws[f] = ps[f]
  OBVIOUS
<1>2. DiskTypes(ws, lists)
  <2>1. ws \in [DOMAIN ws -> Seq(RowNames)]
    <3>1. \A f \in DOMAIN ps : ps[f] \in Seq(RowNames)
      BY DEF DiskTypes
    <3>2. <<>> \in Seq(RowNames)
      OBVIOUS
    <3> QED BY <3>1, <3>2
  <2>2. IsFiniteSet(DOMAIN ps \cup {x})
    BY FS_AddElement DEF DiskTypes
  <2>3. DOMAIN ws \subseteq Faxes /\ lists \subseteq Paths /\ IsFiniteSet(lists)
    BY <1>1 DEF DiskTypes
  <2> QED BY <1>1, <2>1, <2>2, <2>3 DEF DiskTypes
<1>3. NamedPaths(ws, lists) = NamedPaths(ps, lists)
  <2> DEFINE A == (lists \cup {ps[f] : f \in DOMAIN ps} \cup {<<Base>>, <<Trash>>}) \ {<<>>}
             B == (lists \cup {ws[f] : f \in DOMAIN ws} \cup {<<Base>>, <<Trash>>}) \ {<<>>}
  <2>1. \A p \in A : p \in B
    BY <1>1
  <2>2. \A p \in B : p \in A
    BY <1>1
  <2>3. A = B
    <3> HIDE DEF A, B
    <3> QED BY <2>1, <2>2
  <2>4. NamedPaths(ps, lists) = UNION {{SubSeq(p, 1, n) : n \in 1..Len(p)} : p \in A}
        /\ NamedPaths(ws, lists) = UNION {{SubSeq(p, 1, n) : n \in 1..Len(p)} : p \in B}
    BY DEF NamedPaths
  <2> HIDE DEF A, B
  <2> QED BY <2>3, <2>4
<1> QED BY <1>1, <1>2, <1>3 DEF FolderOfFax

LEMMA NewFaxInv ==
  ASSUME FoldersInv, NewFax PROVE FoldersInv'
<1>1. /\ FoldersTypes /\ DiskTypes(paths, pathList) /\ doomed \subseteq Faxes
      /\ listOpen => Follows(tree, paths, doomed)
      /\ ~listOpen => tree = <<>>
      /\ Intact => NamesKept /\ DiskSound
      /\ listOpen \in BOOLEAN
  BY DEF FoldersInv, FoldersTypes, TreeGood
<1>2. PICK x \in Faxes \ (DOMAIN paths \cup doomed) :
        /\ paths' = [g \in DOMAIN paths \cup {x} |-> IF g = x THEN <<>> ELSE paths[g]]
        /\ tree' = IF listOpen THEN [tree EXCEPT ![BaseRow] = @ \cup {x}] ELSE tree
  BY DEF NewFax
<1>3. /\ listOpen' = listOpen /\ folderSet' = folderSet /\ pathList' = pathList
      /\ unsaved' = unsaved /\ torn' = torn /\ doomed' = doomed /\ folderFaults' = folderFaults
  BY DEF NewFax
<1>4. /\ DiskTypes(paths', pathList) /\ DOMAIN paths' = DOMAIN paths \cup {x}
      /\ NamedPaths(paths', pathList) = NamedPaths(paths, pathList)
      /\ FolderOfFax(paths', x) = <<Base>>
      /\ \A f \in DOMAIN paths : FolderOfFax(paths', f) = FolderOfFax(paths, f)
  <2>1. PICK ps, lists, ws : ps = paths /\ lists = pathList /\ ws = paths'
    OBVIOUS
  <2>2. DiskTypes(ps, lists) /\ x \in Faxes \ DOMAIN ps
    BY <1>1, <1>2, <2>1
  <2>3. ws = [g \in DOMAIN ps \cup {x} |-> IF g = x THEN <<>> ELSE ps[g]]
    BY <1>2, <2>1, Zenon
  <2>4. /\ DiskTypes(ws, lists) /\ DOMAIN ws = DOMAIN ps \cup {x}
        /\ NamedPaths(ws, lists) = NamedPaths(ps, lists)
        /\ FolderOfFax(ws, x) = <<Base>>
        /\ \A f \in DOMAIN ps : FolderOfFax(ws, f) = FolderOfFax(ps, f)
    BY <2>2, <2>3, NewOnDisk
  <2> QED BY <2>1, <2>4
<1>5. FoldersTypes'
  BY <1>1, <1>3, <1>4 DEF FoldersTypes
<1>6. Intact' => Intact
  BY <1>3 DEF Intact
<1>7. CASE ~listOpen
  <2>1. tree' = <<>>
    BY <1>1, <1>2, <1>7
  <2>2. TreeGood'
    BY <1>3, <1>7, <2>1 DEF TreeGood
  <2>3. ASSUME Intact' PROVE NamesKept' /\ DiskSound'
    <3>1. DOMAIN paths \cap doomed = {} /\ LastsApart(NamedPaths(paths, pathList))
      BY <1>1, <1>6, <2>3 DEF DiskSound
    <3>2. DOMAIN paths' \cap doomed = {}
      BY <1>2, <1>4, <3>1
    <3> QED BY <1>3, <1>4, <1>7, <3>1, <3>2 DEF NamesKept, DiskSound
  <2> QED BY <1>5, <2>2, <2>3 DEF FoldersInv
<1>8. CASE listOpen
  <2>1. GoodTree(tree) /\ Listed(tree) \subseteq DOMAIN paths
        /\ DOMAIN paths \ doomed \subseteq Listed(tree)
    BY <1>1, <1>8 DEF Follows
  <2>2. x \in Faxes \ Listed(tree)
    BY <1>2, <2>1
  <2>3. /\ tree' \in [DOMAIN tree -> SUBSET Faxes] /\ tree'[BaseRow] = tree[BaseRow] \cup {x}
        /\ \A r \in DOMAIN tree \ {BaseRow} : tree'[r] = tree[r]
    BY <1>2, <1>8, <2>1 DEF GoodTree
  <2>4. /\ GoodTree(tree') /\ DOMAIN tree' = DOMAIN tree /\ Listed(tree') = Listed(tree) \cup {x}
        /\ NamesRead(tree') = NamesRead(tree) /\ PathsOf(tree') = PathsOf(tree)
        /\ (NamesApart(tree) => NamesApart(tree'))
    <3>1. PICK t, u : t = tree /\ u = tree'
      OBVIOUS
    <3>2. /\ GoodTree(t) /\ x \in Faxes \ Listed(t) /\ u \in [DOMAIN t -> SUBSET Faxes]
          /\ u[BaseRow] = t[BaseRow] \cup {x} /\ \A r \in DOMAIN t \ {BaseRow} : u[r] = t[r]
      BY <2>1, <2>2, <2>3, <3>1
    <3>3. /\ GoodTree(u) /\ DOMAIN u = DOMAIN t /\ Listed(u) = Listed(t) \cup {x}
          /\ NamesRead(u) = NamesRead(t) /\ PathsOf(u) = PathsOf(t)
          /\ (NamesApart(t) => NamesApart(u))
      BY <3>2, AddsFax
    <3> QED BY <3>1, <3>3
  <2>5. TreeGood'
    BY <1>3, <1>4, <1>8, <2>1, <2>4 DEF TreeGood, Follows
  <2>6. ASSUME Intact' PROVE NamesKept' /\ DiskSound'
    <3>1. /\ DOMAIN paths \cap doomed = {} /\ LastsApart(NamedPaths(paths, pathList))
          /\ NamesApart(tree) /\ folderSet = NamesRead(tree)
          /\ ~unsaved => SavedAs(tree, paths, pathList)
      BY <1>1, <1>6, <1>8, <2>6 DEF DiskSound, NamesKept
    <3>2. DOMAIN paths' \cap doomed = {}
      BY <1>2, <1>4, <3>1
    <3>3. ASSUME ~unsaved PROVE SavedAs(tree', paths', pathList)
      <4>1. PathsOf(tree) = NamedPaths(paths, pathList)
            /\ \A r \in DOMAIN tree : \A f \in tree[r] : FolderOfFax(paths, f) = Pathname(r)
        BY <3>1, <3>3 DEF SavedAs
      <4>2. Pathname(BaseRow) = <<Base>>
        BY DEF BaseRow, Pathname
      <4>3. ASSUME NEW r \in DOMAIN tree, NEW f \in tree'[r]
            PROVE  FolderOfFax(paths', f) = Pathname(r)
        <5>1. CASE f = x
          <6>1. r = BaseRow
            <7>1. x \notin tree[r]
              BY <2>2 DEF Listed
            <7> QED BY <2>3, <4>3, <5>1, <7>1
          <6> QED BY <1>4, <4>2, <5>1, <6>1
        <5>2. CASE f # x
          <6>1. f \in tree[r]
            BY <2>3, <4>3, <5>2
          <6>2. f \in DOMAIN paths
            BY <2>1, <6>1 DEF Listed
          <6> QED BY <1>4, <4>1, <6>1, <6>2
        <5> QED BY <5>1, <5>2
      <4>4. PathsOf(tree') = NamedPaths(paths', pathList)
        BY <1>4, <2>4, <4>1
      <4> QED BY <2>4, <4>3, <4>4 DEF SavedAs
    <3> QED BY <1>3, <1>4, <2>4, <3>1, <3>2, <3>3 DEF NamesKept, DiskSound
  <2> QED BY <1>5, <2>5, <2>6 DEF FoldersInv
<1> QED BY <1>7, <1>8

LEMMA WritesInv ==
  ASSUME FoldersInv, TimerSaves \/ ClosesList PROVE FoldersInv'
<1>1. PICK open \in BOOLEAN : WritesPath(tree, paths, open)
  BY DEF TimerSaves, ClosesList
<1>2. listOpen /\ folderSet' = folderSet /\ doomed' = doomed
  BY DEF TimerSaves, ClosesList
<1>3. /\ Follows(tree, paths, doomed) /\ folderSet \subseteq RowNames
      /\ Intact => NamesApart(tree) /\ folderSet = NamesRead(tree)
  BY <1>2 DEF FoldersInv, FoldersTypes, TreeGood, NamesKept
<1>4. PICK t : t = tree
  OBVIOUS
<1>5. /\ WritesPath(t, paths, open) /\ Follows(t, paths, doomed)
      /\ Intact => NamesApart(t) /\ (open => folderSet' = NamesRead(t))
  BY <1>1, <1>2, <1>3, <1>4
<1> QED BY <1>2, <1>3, <1>5, WriteInv

LEMMA CrashesInv ==
  ASSUME FoldersInv, ListCrashes PROVE FoldersInv'
<1>1. /\ listOpen' = FALSE /\ tree' = <<>> /\ unsaved' = FALSE
      /\ folderFaults' = [folderFaults EXCEPT !.crashes = @ + 1]
      /\ folderSet' = folderSet /\ paths' = paths /\ pathList' = pathList /\ torn' = torn
      /\ doomed' = doomed
  BY DEF ListCrashes
<1>2. /\ FoldersTypes /\ folderFaults \in [crashes : Nat, failures : Nat]
      /\ Intact => /\ DOMAIN paths \cap doomed = {}
                   /\ LastsApart(NamedPaths(paths, pathList))
  BY DEF FoldersInv, FoldersTypes, DiskSound
<1>3. folderFaults' \in [crashes : Nat, failures : Nat] /\ folderFaults'.failures = folderFaults.failures
  BY <1>1, <1>2
<1>4. FoldersTypes' /\ TreeGood'
  BY <1>1, <1>2, <1>3 DEF FoldersTypes, TreeGood
<1>5. Intact' => Intact
  BY <1>1, <1>3 DEF Intact
<1>6. Intact' => NamesKept' /\ DiskSound'
  BY <1>1, <1>2, <1>5 DEF NamesKept, DiskSound
<1> QED BY <1>4, <1>6 DEF FoldersInv

LEMMA MakesFolderInv ==
  ASSUME FoldersInv, MakesFolder PROVE FoldersInv'
<1>1. PICK n \in FolderNames \ folderSet :
        /\ LET row == NewRow(DOMAIN tree, <<>>, n)
           IN WritesPath([r \in DOMAIN tree \cup {row} |-> IF r = row THEN {} ELSE tree[r]],
                         paths, TRUE)
        /\ folderSet' = folderSet \cup {n}
  BY DEF MakesFolder
<1>2. listOpen /\ doomed' = doomed
  BY DEF MakesFolder
<1>3. /\ Follows(tree, paths, doomed) /\ folderSet \subseteq RowNames
      /\ Intact => NamesApart(tree) /\ folderSet = NamesRead(tree)
  BY <1>2 DEF FoldersInv, FoldersTypes, TreeGood, NamesKept
<1>4. PICK t : t = tree
  OBVIOUS
<1>5. PICK row : row = NewRow(DOMAIN t, <<>>, n)
  OBVIOUS
<1>6. PICK u : u = [r \in DOMAIN t \cup {row} |-> IF r = row THEN {} ELSE t[r]]
  OBVIOUS
<1>7. WritesPath(u, paths, TRUE)
  BY <1>1, <1>4, <1>5, <1>6
<1>8. GoodTree(t) /\ Listed(t) \subseteq DOMAIN paths /\ DOMAIN paths \ doomed \subseteq Listed(t)
  BY <1>3, <1>4 DEF Follows
<1>9. /\ GoodTree(u) /\ Listed(u) = Listed(t)
      /\ NamesRead(u) = NamesRead(t) \cup {n}
      /\ NamesApart(t) /\ n \notin NamesRead(t) => NamesApart(u)
  BY <1>5, <1>6, <1>8, AddsRow
<1>10. Follows(u, paths, doomed)
  BY <1>8, <1>9 DEF Follows
<1>11. folderSet' \subseteq RowNames
  BY <1>1, <1>3 DEF RowNames
<1>12. Intact => NamesApart(u) /\ (TRUE => folderSet' = NamesRead(u))
  BY <1>1, <1>3, <1>4, <1>9
<1> QED BY <1>2, <1>7, <1>10, <1>11, <1>12, WriteInv

LEMMA DeletesFolderInv ==
  ASSUME FoldersInv, DeletesFolder PROVE FoldersInv'
<1>1. PICK row \in DOMAIN tree :
        /\ ~Permanent(row) /\ FolderEmpty(tree, row)
        /\ WritesPath([r \in DOMAIN tree \ {row} |-> tree[r]], paths, TRUE)
        /\ folderSet' = folderSet \ {RowName(row)}
  BY DEF DeletesFolder
<1>2. listOpen /\ doomed' = doomed
  BY DEF DeletesFolder
<1>3. /\ Follows(tree, paths, doomed) /\ folderSet \subseteq RowNames
      /\ Intact => NamesApart(tree) /\ folderSet = NamesRead(tree)
  BY <1>2 DEF FoldersInv, FoldersTypes, TreeGood, NamesKept
<1>4. PICK t : t = tree
  OBVIOUS
<1>5. PICK u : u = [r \in DOMAIN t \ {row} |-> t[r]]
  OBVIOUS
<1>6. WritesPath(u, paths, TRUE)
  BY <1>1, <1>4, <1>5
<1>7. GoodTree(t) /\ Listed(t) \subseteq DOMAIN paths /\ DOMAIN paths \ doomed \subseteq Listed(t)
  BY <1>3, <1>4 DEF Follows
<1>8. row \in DOMAIN t /\ ~Permanent(row) /\ FolderEmpty(t, row)
  BY <1>1, <1>4
<1>9. /\ GoodTree(u) /\ Listed(u) = Listed(t)
      /\ NamesApart(t) => NamesRead(u) = NamesRead(t) \ {RowName(row)} /\ NamesApart(u)
  BY <1>5, <1>7, <1>8, DropsRow
<1>10. Follows(u, paths, doomed)
  BY <1>7, <1>9 DEF Follows
<1>11. folderSet' \subseteq RowNames
  BY <1>1, <1>3
<1>12. Intact => NamesApart(u) /\ (TRUE => folderSet' = NamesRead(u))
  BY <1>1, <1>3, <1>4, <1>9
<1> QED BY <1>2, <1>6, <1>10, <1>11, <1>12, WriteInv

(* A change of the tree that is not saved yet.                             *)
LEMMA ChangeInv ==
  ASSUME FoldersInv, NEW t, t = tree, NEW u, tree' = u, listOpen, unsaved' = TRUE,
         GoodTree(u), Listed(u) = Listed(t), NamesRead(u) = NamesRead(t),
         NamesApart(t) => NamesApart(u),
         UNCHANGED <<listOpen, folderSet, paths, pathList, torn, doomed, folderFaults>>
  PROVE  FoldersInv'
<1>1. FoldersTypes' /\ TreeGood' /\ (Intact' => Intact)
  BY DEF FoldersInv, FoldersTypes, TreeGood, Follows, Intact
<1>2. ASSUME Intact' PROVE NamesKept' /\ DiskSound'
  <2>1. NamesKept /\ DiskSound
    BY <1>1, <1>2 DEF FoldersInv
  <2> QED BY <2>1 DEF NamesKept, DiskSound
<1> QED BY <1>1, <1>2 DEF FoldersInv

LEMMA MovesFolderInv ==
  ASSUME FoldersInv, MovesFolder PROVE FoldersInv'
<1>1. /\ listOpen /\ unsaved' = TRUE
      /\ UNCHANGED <<listOpen, folderSet, paths, pathList, torn, doomed, folderFaults>>
  BY DEF MovesFolder
<1>2. PICK t : t = tree
  OBVIOUS
<1>3. GoodTree(t)
  BY <1>1, <1>2 DEF FoldersInv, TreeGood, Follows
<1>4. PICK row, dest, level, new :
        /\ row \in DOMAIN t /\ dest \in DOMAIN t
        /\ level = dest \/ level = Front(dest)
        /\ is_valid_drop_path(Pathname(row), Append(Pathname(level), RowName(row)))
        /\ Permanent(row) => level = <<>>
        /\ new = NewRow(DOMAIN t \ Below(t, row), level, RowName(row))
        /\ tree' = Rehung(t, row, new)
  <2>1. PICK row \in DOMAIN tree, dest \in DOMAIN tree, into \in BOOLEAN :
          LET level == IF into THEN dest ELSE Front(dest)
              label  == RowName(row)
          IN /\ is_valid_drop_path(Pathname(row), Append(Pathname(level), label))
             /\ Permanent(row) => level = <<>>
             /\ tree' = Rehung(tree, row, NewRow(DOMAIN tree \ Below(tree, row), level, label))
    BY DEF MovesFolder
  <2>2. PICK level : level = IF into THEN dest ELSE Front(dest)
    OBVIOUS
  <2>3. PICK new : new = NewRow(DOMAIN tree \ Below(tree, row), level, RowName(row))
    OBVIOUS
  <2>4. level = dest \/ level = Front(dest)
    BY <2>2
  <2>5. /\ is_valid_drop_path(Pathname(row), Append(Pathname(level), RowName(row)))
        /\ Permanent(row) => level = <<>>
        /\ tree' = Rehung(tree, row, new)
    BY <2>1, <2>2, <2>3
  <2> QED BY <1>2, <2>3, <2>4, <2>5
<1>5. /\ level \in Seq(Cells) /\ ~IsPrefix(row, level)
      /\ level = <<>> \/ level \in DOMAIN t
  BY <1>3, <1>4, DropsAside
<1>6. PICK u : u = Rehung(t, row, new)
  OBVIOUS
<1>7. /\ GoodTree(u) /\ Listed(u) = Listed(t) /\ NamesRead(u) = NamesRead(t)
      /\ NamesApart(t) => NamesApart(u)
  BY <1>3, <1>4, <1>5, <1>6, MovesTree
<1>8. tree' = u
  BY <1>4, <1>6
<1> QED BY <1>1, <1>2, <1>7, <1>8, ChangeInv

LEMMA MovesFaxesInv ==
  ASSUME FoldersInv, MovesFaxes PROVE FoldersInv'
<1>1. /\ listOpen /\ unsaved' = TRUE
      /\ UNCHANGED <<listOpen, folderSet, paths, pathList, torn, doomed, folderFaults>>
  BY DEF MovesFaxes
<1>2. PICK t : t = tree
  OBVIOUS
<1>3. GoodTree(t)
  BY <1>1, <1>2 DEF FoldersInv, TreeGood, Follows
<1>4. PICK row \in DOMAIN t : \E dest \in DOMAIN t \ {row}, fs \in SUBSET t[row] :
        tree' = FaxesMoved(t, row, dest, fs)
  BY <1>2 DEF MovesFaxes
<1>5. PICK dest \in DOMAIN t \ {row}, fs \in SUBSET t[row] :
        tree' = FaxesMoved(t, row, dest, fs)
  BY <1>4
<1>6. PICK u : u = FaxesMoved(t, row, dest, fs)
  OBVIOUS
<1>7. /\ GoodTree(u) /\ Listed(u) = Listed(t) /\ NamesRead(u) = NamesRead(t)
      /\ NamesApart(t) => NamesApart(u)
  BY <1>3, <1>6, MovesGood
<1>8. tree' = u
  BY <1>5, <1>6
<1> QED BY <1>1, <1>2, <1>7, <1>8, ChangeInv

(* What is left of the directories of deleted faxes can still be read.     *)
LeftOf(ws, ps, fs, stayed) ==
  /\ DOMAIN ws = (DOMAIN ps \ fs) \cup stayed
  /\ stayed = {} => \A f \in DOMAIN ws : ws[f] = ps[f]

LEMMA RemovedIs ==
  ASSUME NEW ps, NEW lists, DiskTypes(ps, lists), NEW fs \in SUBSET DOMAIN ps,
         NEW closed \in SUBSET fs, NEW stuck \in SUBSET fs,
         NEW ws, ws = Removed(ps, fs, closed, stuck)
  PROVE  DiskTypes(ws, lists) /\ LeftOf(ws, ps, fs, closed \cup stuck)
<1>1. /\ DOMAIN ws = (DOMAIN ps \ fs) \cup closed \cup stuck
      /\ \A f \in DOMAIN ws : ws[f] = IF f \in stuck THEN <<>> ELSE ps[f]
      /\ ws = [f \in (DOMAIN ps \ fs) \cup closed \cup stuck |-> IF f \in stuck THEN <<>> ELSE ps[f]]
  BY DEF Removed
<1>2. DOMAIN ws \subseteq DOMAIN ps
  BY <1>1
<1>3. ps \in [DOMAIN ps -> Seq(RowNames)] /\ DOMAIN ps \subseteq Faxes /\ IsFiniteSet(DOMAIN ps)
      /\ lists \subseteq Paths /\ IsFiniteSet(lists)
  BY DEF DiskTypes
<1>4. IsFiniteSet(DOMAIN ws)
  BY <1>2, <1>3, FS_Subset
<1>5. \A f \in DOMAIN ws : ws[f] \in Seq(RowNames)
  <2>1. <<>> \in Seq(RowNames)
    OBVIOUS
  <2>2. \A f \in DOMAIN ps : ps[f] \in Seq(RowNames)
    BY <1>3
  <2> QED BY <1>1, <1>2, <2>1, <2>2
<1>6. ws \in [DOMAIN ws -> Seq(RowNames)]
  <2>1. ws = [f \in DOMAIN ws |-> ws[f]]
    BY DEF Removed
  <2>2. [f \in DOMAIN ws |-> ws[f]] \in [DOMAIN ws -> Seq(RowNames)]
    BY <1>5
  <2> QED BY <2>1, <2>2, Zenon
<1>7. DOMAIN ws \subseteq Faxes
  BY <1>2, <1>3
<1>8. LeftOf(ws, ps, fs, closed \cup stuck)
  BY <1>1 DEF LeftOf
<1> QED BY <1>3, <1>4, <1>6, <1>7, <1>8 DEF DiskTypes

LEMMA FewerPaths ==
  ASSUME NEW ps, NEW ws, NEW lists, DOMAIN ws \subseteq DOMAIN ps,
         \A f \in DOMAIN ws : ws[f] = ps[f]
  PROVE  /\ NamedPaths(ws, lists) \subseteq NamedPaths(ps, lists)
         /\ \A f \in DOMAIN ws : FolderOfFax(ws, f) = FolderOfFax(ps, f)
BY DEF NamedPaths, FolderOfFax

(* Faxes that are in the trash on the disk are none that name a folder.    *)
LEMMA TrashNamesNone ==
  ASSUME NEW ps, NEW ws, NEW lists, DiskTypes(ps, lists), DOMAIN ws \subseteq DOMAIN ps,
         \A f \in DOMAIN ws : ws[f] = ps[f],
         \A f \in DOMAIN ps \ DOMAIN ws : FolderOfFax(ps, f) = <<Trash>>
  PROVE  NamedPaths(ws, lists) = NamedPaths(ps, lists)
<1> DEFINE A == (lists \cup {ps[f] : f \in DOMAIN ps} \cup {<<Base>>, <<Trash>>}) \ {<<>>}
           B == (lists \cup {ws[f] : f \in DOMAIN ws} \cup {<<Base>>, <<Trash>>}) \ {<<>>}
<1>1. \A f \in DOMAIN ps \ DOMAIN ws : ps[f] = <<Trash>> \/ ps[f] = <<>>
  BY DEF FolderOfFax
<1>2. \A p \in A : p \in B
  BY <1>1
<1>3. \A p \in B : p \in A
  OBVIOUS
<1>4. A = B
  <2> HIDE DEF A, B
  <2> QED BY <1>2, <1>3
<1>5. NamedPaths(ps, lists) = UNION {{SubSeq(p, 1, n) : n \in 1..Len(p)} : p \in A}
      /\ NamedPaths(ws, lists) = UNION {{SubSeq(p, 1, n) : n \in 1..Len(p)} : p \in B}
  BY DEF NamedPaths
<1> HIDE DEF A, B
<1> QED BY <1>4, <1>5

LEMMA NoneFailed ==
  ASSUME NEW S, IsFiniteSet(S), NEW k \in Nat, k + Cardinality(S) = 0
  PROVE  k = 0 /\ S = {}
<1>1. Cardinality(S) \in Nat
  BY FS_CardinalityType
<1>2. Cardinality(S) = 0 /\ k = 0
  BY <1>1
<1> QED BY <1>2, FS_EmptySet

(* Deleting some faxes of the trash, of the tree and of the disk.          *)
LEMMA TrashStep ==
  ASSUME FoldersInv, listOpen, NEW t, t = tree, NEW ps, ps = paths,
         NEW fs \in SUBSET t[TrashRow], NEW closed \in SUBSET fs, NEW stuck \in SUBSET fs,
         NEW ws, ws = Removed(ps, fs, closed, stuck), doomed' = doomed \cup fs
  PROVE  /\ DiskTypes(ws, pathList) /\ doomed' \subseteq Faxes
         /\ LeftOf(ws, ps, fs, closed \cup stuck) /\ IsFiniteSet(closed \cup stuck)
         /\ Follows(t, ps, doomed) /\ fs \subseteq DOMAIN ps
<1>1. DiskTypes(ps, pathList) /\ Follows(t, ps, doomed) /\ doomed \subseteq Faxes
  BY DEF FoldersInv, FoldersTypes, TreeGood
<1>2. GoodTree(t) /\ Listed(t) \subseteq DOMAIN ps /\ DOMAIN ps \ doomed \subseteq Listed(t)
  BY <1>1 DEF Follows
<1>3. fs \subseteq Listed(t)
  <2>1. TrashRow \in DOMAIN t
    BY <1>2 DEF GoodTree
  <2> QED BY <2>1 DEF Listed
<1>4. fs \in SUBSET DOMAIN ps /\ DOMAIN ps \subseteq Faxes /\ IsFiniteSet(DOMAIN ps)
  BY <1>1, <1>2, <1>3 DEF DiskTypes
<1>5. PICK lists : lists = pathList
  OBVIOUS
<1>6. DiskTypes(ps, lists)
  BY <1>1, <1>5
<1>7. DiskTypes(ws, lists) /\ LeftOf(ws, ps, fs, closed \cup stuck)
  <2>1. fs \in SUBSET DOMAIN ps
    BY <1>4
  <2>2. closed \in SUBSET fs /\ stuck \in SUBSET fs
    OBVIOUS
  <2> QED BY <1>6, <2>1, <2>2, RemovedIs
<1>8. IsFiniteSet(closed \cup stuck)
  <2>1. closed \cup stuck \subseteq DOMAIN ps
    BY <1>4
  <2> QED BY <1>4, <2>1, FS_Subset
<1>9. doomed' \subseteq Faxes
  BY <1>1, <1>4
<1> QED BY <1>1, <1>4, <1>5, <1>7, <1>8, <1>9

LEMMA EmptiesTrashInv ==
  ASSUME FoldersInv, EmptiesTrash PROVE FoldersInv'
<1>1. PICK t, ps : t = tree /\ ps = paths
  OBVIOUS
<1>2. PICK fs : fs = t[TrashRow]
  OBVIOUS
<1>3. PICK closed \in SUBSET fs, stuck \in SUBSET fs :
        /\ paths' = Removed(ps, fs, closed, stuck)
        /\ folderFaults' = [folderFaults EXCEPT !.failures = @ + Cardinality(closed \cup stuck)]
  BY <1>1, <1>2 DEF EmptiesTrash, Failing
<1>4. /\ listOpen /\ doomed' = doomed \cup fs /\ tree' = [t EXCEPT ![TrashRow] = {}]
      /\ listOpen' = listOpen /\ folderSet' = folderSet /\ pathList' = pathList
      /\ unsaved' = unsaved /\ torn' = torn
  BY <1>1, <1>2 DEF EmptiesTrash
<1>5. PICK ws : ws = paths'
  OBVIOUS
<1>6. ws = Removed(ps, fs, closed, stuck) /\ fs \in SUBSET t[TrashRow]
  BY <1>2, <1>3, <1>5
<1>0. /\ DiskTypes(ws, pathList) /\ doomed' \subseteq Faxes
      /\ LeftOf(ws, ps, fs, closed \cup stuck) /\ IsFiniteSet(closed \cup stuck)
      /\ Follows(t, ps, doomed) /\ fs \subseteq DOMAIN ps
  BY <1>1, <1>4, <1>6, TrashStep
<1>7. /\ DiskTypes(ws, pathList) /\ doomed' \subseteq Faxes
      /\ DOMAIN ws = (DOMAIN ps \ fs) \cup closed \cup stuck
      /\ GoodTree(t) /\ Listed(t) \subseteq DOMAIN ps /\ fs \subseteq DOMAIN ps
      /\ DOMAIN ps \ doomed \subseteq Listed(t)
      /\ IsFiniteSet(closed \cup stuck)
      /\ closed \cup stuck = {} => \A f \in DOMAIN ws : ws[f] = ps[f]
  BY <1>0 DEF Follows, LeftOf
<1>8. PICK u : u = [t EXCEPT ![TrashRow] = {}]
  OBVIOUS
<1>9. /\ GoodTree(u) /\ DOMAIN u = DOMAIN t /\ Listed(u) = Listed(t) \ fs
      /\ NamesRead(u) = NamesRead(t) /\ PathsOf(u) = PathsOf(t)
      /\ (NamesApart(t) => NamesApart(u))
  <2>1. PICK left : left = {}
    OBVIOUS
  <2>2. left \in SUBSET t[TrashRow] /\ u = [t EXCEPT ![TrashRow] = left]
    BY <1>8, <2>1
  <2>3. /\ GoodTree(u) /\ DOMAIN u = DOMAIN t
        /\ Listed(u) = Listed(t) \ (t[TrashRow] \ left)
        /\ NamesRead(u) = NamesRead(t) /\ PathsOf(u) = PathsOf(t)
        /\ (NamesApart(t) => NamesApart(u))
    BY <1>7, <2>2, EmptiesGood
  <2> QED BY <1>2, <2>1, <2>3
<1>10. Follows(u, ws, doomed')
  BY <1>4, <1>7, <1>9 DEF Follows
<1>11. /\ folderFaults \in [crashes : Nat, failures : Nat] /\ FoldersTypes
       /\ Intact => NamesKept /\ DiskSound
  BY DEF FoldersInv, FoldersTypes
<1>12. PICK k \in Nat : k = folderFaults.failures
  BY <1>11
<1>13. Cardinality(closed \cup stuck) \in Nat
  BY <1>7, FS_CardinalityType
<1>14. PICK c \in Nat : c = Cardinality(closed \cup stuck)
  BY <1>13
<1>15. folderFaults' \in [crashes : Nat, failures : Nat] /\ folderFaults'.failures = k + c
  <2>1. folderFaults' = [folderFaults EXCEPT !.failures = @ + c]
    BY <1>3, <1>14
  <2> QED BY <1>11, <1>12, <2>1
<1>16. FoldersTypes'
  BY <1>4, <1>5, <1>7, <1>11, <1>15 DEF FoldersTypes
<1>17. TreeGood'
  BY <1>4, <1>5, <1>8, <1>10 DEF TreeGood
<1>18. ASSUME Intact' PROVE NamesKept' /\ DiskSound'
  <2>1. k = 0 /\ closed \cup stuck = {}
    <3>1. k + Cardinality(closed \cup stuck) = 0
      BY <1>14, <1>15, <1>18 DEF Intact
    <3> QED BY <1>7, <3>1, NoneFailed
  <2>2. Intact
    BY <1>4, <1>12, <1>18, <2>1 DEF Intact
  <2>3. /\ NamesApart(t) /\ folderSet = NamesRead(t) /\ DOMAIN ps \cap doomed = {}
        /\ LastsApart(NamedPaths(ps, pathList))
        /\ ~unsaved => SavedAs(t, ps, pathList)
    BY <1>1, <1>4, <1>11, <2>2 DEF NamesKept, DiskSound
  <2>4. DOMAIN ws \subseteq DOMAIN ps /\ DOMAIN ws = DOMAIN ps \ fs
        /\ \A f \in DOMAIN ws : ws[f] = ps[f]
    BY <1>7, <2>1
  <2>5. DOMAIN ws \cap doomed' = {}
    BY <1>4, <2>3, <2>4
  <2>6. /\ NamedPaths(ws, pathList) \subseteq NamedPaths(ps, pathList)
        /\ \A f \in DOMAIN ws : FolderOfFax(ws, f) = FolderOfFax(ps, f)
    BY <2>4, FewerPaths
  <2>7. LastsApart(NamedPaths(ws, pathList))
    BY <2>3, <2>6 DEF LastsApart
  <2>8. ASSUME ~unsaved PROVE SavedAs(u, ws, pathList)
    <3>1. PathsOf(t) = NamedPaths(ps, pathList)
          /\ \A r \in DOMAIN t : \A f \in t[r] : FolderOfFax(ps, f) = Pathname(r)
      BY <2>3, <2>8 DEF SavedAs
    <3>2. Pathname(TrashRow) = <<Trash>> /\ TrashRow \in DOMAIN t
      BY <1>7 DEF TrashRow, Pathname, GoodTree
    <3>3. \A f \in DOMAIN ps \ DOMAIN ws : FolderOfFax(ps, f) = <<Trash>>
      BY <1>2, <2>4, <3>1, <3>2
    <3>4. DiskTypes(ps, pathList)
      BY <1>1, <1>11 DEF FoldersTypes
    <3>5. NamedPaths(ws, pathList) = NamedPaths(ps, pathList)
      BY <2>4, <3>3, <3>4, TrashNamesNone
    <3>6. PathsOf(u) = NamedPaths(ws, pathList)
      BY <1>9, <3>1, <3>5
    <3>7. ASSUME NEW r \in DOMAIN u, NEW f \in u[r] PROVE FolderOfFax(ws, f) = Pathname(r)
      <4>1. f \in t[r] /\ f \notin fs
        <5>1. f \in Listed(u)
          BY <3>7 DEF Listed
        <5>2. f \in t[r]
          BY <1>8, <1>9, <3>2, <3>7
        <5> QED BY <1>9, <5>1, <5>2
      <4>2. f \in DOMAIN ws
        BY <1>7, <1>9, <2>4, <4>1 DEF Listed
      <4> QED BY <1>9, <2>6, <3>1, <4>1, <4>2
    <3> QED BY <3>6, <3>7 DEF SavedAs
  <2> QED BY <1>4, <1>5, <1>8, <1>9, <2>3, <2>5, <2>7, <2>8 DEF NamesKept, DiskSound
<1> QED BY <1>16, <1>17, <1>18 DEF FoldersInv

LEMMA DeletesFaxesInv ==
  ASSUME FoldersInv, DeletesFaxes PROVE FoldersInv'
<1>1. PICK t, ps : t = tree /\ ps = paths
  OBVIOUS
<1>2. PICK fs \in SUBSET t[TrashRow] : \E closed \in SUBSET fs, stuck \in SUBSET fs :
        /\ doomed' = doomed \cup fs
        /\ LET u  == [t EXCEPT ![TrashRow] = (@ \ fs) \cup closed \cup stuck]
               ws == Removed(ps, fs, closed, stuck)
           IN \/ /\ Saves(u, ws) /\ tree' = u /\ UNCHANGED listOpen
                 /\ folderFaults' = [folderFaults EXCEPT
                                       !.failures = @ + Cardinality(closed \cup stuck)]
              \/ DiesSaving(u, ws) /\ listOpen' = FALSE
  BY <1>1 DEF DeletesFaxes, Failing
<1>3. PICK closed \in SUBSET fs, stuck \in SUBSET fs :
        /\ doomed' = doomed \cup fs
        /\ LET u  == [t EXCEPT ![TrashRow] = (@ \ fs) \cup closed \cup stuck]
               ws == Removed(ps, fs, closed, stuck)
           IN \/ /\ Saves(u, ws) /\ tree' = u /\ UNCHANGED listOpen
                 /\ folderFaults' = [folderFaults EXCEPT
                                       !.failures = @ + Cardinality(closed \cup stuck)]
              \/ DiesSaving(u, ws) /\ listOpen' = FALSE
  BY <1>2
<1>4. listOpen /\ folderSet' = folderSet
  BY DEF DeletesFaxes
<1>5. PICK u, ws : /\ u = [t EXCEPT ![TrashRow] = (@ \ fs) \cup closed \cup stuck]
                   /\ ws = Removed(ps, fs, closed, stuck)
  OBVIOUS
<1>6. /\ DiskTypes(ws, pathList) /\ doomed' \subseteq Faxes
      /\ LeftOf(ws, ps, fs, closed \cup stuck) /\ IsFiniteSet(closed \cup stuck)
      /\ Follows(t, ps, doomed) /\ fs \subseteq DOMAIN ps
  BY <1>1, <1>3, <1>4, <1>5, TrashStep
<1>7. /\ GoodTree(t) /\ Listed(t) \subseteq DOMAIN ps /\ DOMAIN ps \ doomed \subseteq Listed(t)
      /\ DOMAIN ws = (DOMAIN ps \ fs) \cup closed \cup stuck
      /\ closed \cup stuck = {} => \A f \in DOMAIN ws : ws[f] = ps[f]
  BY <1>6 DEF Follows, LeftOf
<1>8. /\ GoodTree(u) /\ DOMAIN u = DOMAIN t /\ Listed(u) = Listed(t) \ (fs \ (closed \cup stuck))
      /\ NamesRead(u) = NamesRead(t) /\ (NamesApart(t) => NamesApart(u))
  <2>1. PICK left : left = (t[TrashRow] \ fs) \cup closed \cup stuck
    OBVIOUS
  <2>2. left \in SUBSET t[TrashRow] /\ u = [t EXCEPT ![TrashRow] = left]
    BY <1>5, <2>1
  <2>3. /\ GoodTree(u) /\ DOMAIN u = DOMAIN t
        /\ Listed(u) = Listed(t) \ (t[TrashRow] \ left)
        /\ NamesRead(u) = NamesRead(t) /\ (NamesApart(t) => NamesApart(u))
    BY <1>7, <2>2, EmptiesGood
  <2>4. t[TrashRow] \ left = fs \ (closed \cup stuck)
    BY <2>1
  <2> QED BY <2>3, <2>4
<1>9. Follows(u, ws, doomed')
  <2>1. Listed(u) \subseteq DOMAIN ws
    BY <1>7, <1>8
  <2>2. DOMAIN ws \ doomed' \subseteq Listed(u)
    BY <1>3, <1>7, <1>8
  <2> QED BY <1>8, <2>1, <2>2 DEF Follows
<1>10. /\ folderFaults \in [crashes : Nat, failures : Nat] /\ folderSet \subseteq RowNames
       /\ Intact => NamesKept /\ DiskSound
       /\ listOpen \in BOOLEAN
  BY DEF FoldersInv, FoldersTypes
<1>11. CASE DiesSaving(u, ws) /\ listOpen' = FALSE
  BY <1>4, <1>6, <1>8, <1>10, <1>11, DieInv
<1>12. CASE /\ Saves(u, ws) /\ tree' = u /\ listOpen' = listOpen
            /\ folderFaults' = [folderFaults EXCEPT
                                  !.failures = @ + Cardinality(closed \cup stuck)]
  <2>1. Cardinality(closed \cup stuck) \in Nat
    BY <1>6, FS_CardinalityType
  <2>2. PICK k \in Nat, c \in Nat : k = folderFaults.failures /\ c = Cardinality(closed \cup stuck)
    BY <1>10, <2>1
  <2>3. folderFaults' \in [crashes : Nat, failures : Nat] /\ folderFaults'.failures = k + c
    <3>1. folderFaults' = [folderFaults EXCEPT !.failures = @ + c]
      BY <1>12, <2>2
    <3> QED BY <1>10, <2>2, <3>1
  <2>4. torn' = torn
    BY <1>12 DEF Saves
  <2>5. ASSUME Intact' PROVE NamesApart(u) /\ DOMAIN ws \cap doomed' = {} /\ folderSet' = NamesRead(u)
    <3>1. k = 0 /\ closed \cup stuck = {}
      <4>1. k + Cardinality(closed \cup stuck) = 0
        BY <2>2, <2>3, <2>5 DEF Intact
      <4> QED BY <1>6, <4>1, NoneFailed
    <3>2. Intact
      BY <2>2, <2>4, <2>5, <3>1 DEF Intact
    <3>3. NamesApart(t) /\ folderSet = NamesRead(t) /\ DOMAIN ps \cap doomed = {}
      BY <1>1, <1>4, <1>10, <3>2 DEF NamesKept, DiskSound
    <3> QED BY <1>3, <1>4, <1>7, <1>8, <3>1, <3>3
  <2>6. listOpen' = TRUE /\ TRUE \in BOOLEAN /\ tree' = (IF TRUE THEN u ELSE <<>>)
    BY <1>4, <1>10, <1>12
  <2>7. folderSet' \subseteq RowNames
    BY <1>4, <1>10
  <2> QED BY <1>6, <1>9, <1>12, <2>3, <2>5, <2>6, <2>7, SaveInv
<1> QED BY <1>3, <1>5, <1>11, <1>12

THEOREM FoldersInvHolds == SpecFolders => []FoldersInv
<1>1. InitFolders => FoldersInv
  <2> SUFFICES ASSUME InitFolders PROVE FoldersInv
    OBVIOUS
  <2>1. /\ listOpen = FALSE /\ tree = <<>> /\ folderSet = {} /\ paths = <<>> /\ pathList = {}
        /\ unsaved = FALSE /\ torn = FALSE /\ doomed = {}
        /\ folderFaults = [crashes |-> 0, failures |-> 0]
    BY DEF InitFolders
  <2>2. DiskTypes(paths, pathList) /\ DOMAIN paths = {}
    <3>1. DOMAIN <<>> = {} /\ <<>> = [f \in {} |-> <<>>]
      OBVIOUS
    <3>2. <<>> \in [{} -> Seq(RowNames)]
      BY <3>1
    <3> QED BY <2>1, <3>1, <3>2, FS_EmptySet DEF DiskTypes
  <2>3. FoldersTypes /\ TreeGood /\ NamesKept
    BY <2>1, <2>2 DEF FoldersTypes, TreeGood, NamesKept
  <2>4. LastsApart(NamedPaths(paths, pathList))
    <3>1. NamedPaths(paths, pathList) \subseteq {<<Base>>, <<Trash>>}
      <4>1. {paths[f] : f \in DOMAIN paths} = {}
        BY <2>2
      <4>2. \A x, n : n \in 1..Len(<<x>>) => SubSeq(<<x>>, 1, n) = <<x>>
        <5> TAKE x, n
        <5>1. Len(<<x>>) = 1 /\ <<x>> \in Seq({x})
          OBVIOUS
        <5>2. SubSeq(<<x>>, 1, 1) = <<x>>
          BY <5>1, SubSeqFull
        <5>3. n \in 1..1 => n = 1
          OBVIOUS
        <5> QED BY <5>1, <5>2, <5>3
      <4>3. \A p \in NamedPaths(paths, pathList) :
              \E q \in {<<Base>>, <<Trash>>} : \E n \in 1..Len(q) : p = SubSeq(q, 1, n)
        BY <2>1, <4>1 DEF NamedPaths
      <4> QED BY <4>2, <4>3
    <3>2. Last(<<Base>>) = Base /\ Last(<<Trash>>) = Trash /\ Base # Trash
      BY FolderAssumption DEF Last
    <3> QED BY <3>1, <3>2 DEF LastsApart
  <2>5. DiskSound
    BY <2>1, <2>4 DEF DiskSound
  <2> QED BY <2>3, <2>5 DEF FoldersInv
<1>2. FoldersInv /\ [NextFolders]_foldersVars => FoldersInv'
  <2> SUFFICES ASSUME FoldersInv, [NextFolders]_foldersVars PROVE FoldersInv'
    OBVIOUS
  <2>1. CASE NextFolders
    BY <2>1, OpensListInv, NewFaxInv, WritesInv, CrashesInv, MakesFolderInv, DeletesFolderInv,
       MovesFolderInv, MovesFaxesInv, DeletesFaxesInv, EmptiesTrashInv DEF NextFolders
  <2>2. CASE UNCHANGED foldersVars
    BY <2>2 DEF foldersVars, FoldersInv, FoldersTypes, TreeGood, Intact, NamesKept, DiskSound
  <2> QED BY <2>1, <2>2
<1> QED BY <1>1, <1>2, PTL DEF SpecFolders

(* Every fax that is stored and that nobody deleted is in one folder of    *)
(* the tree, whose rows hang on each other and have names of their own,    *)
(* after any moves, failures and crashes.                                  *)
THEOREM FoldersAreSound == SpecFolders => []FoldersSound
<1>1. FoldersInv => FoldersSound
  <2> SUFFICES ASSUME FoldersInv PROVE FoldersSound
    OBVIOUS
  <2>1. /\ FoldersTypes /\ TreeGood /\ (Intact => NamesKept)
    BY DEF FoldersInv
  <2>2. listOpen => /\ GoodTree(tree) /\ Listed(tree) \subseteq DOMAIN paths
                    /\ DOMAIN paths \ doomed \subseteq Listed(tree)
    BY <2>1 DEF TreeGood, Follows
  <2>3. FoldersTypeOK
    <3>1. DOMAIN paths \subseteq Faxes /\ folderSet \subseteq FolderNames \cup {Base, Trash}
          /\ doomed \subseteq Faxes /\ listOpen \in BOOLEAN /\ unsaved \in BOOLEAN /\ torn \in BOOLEAN
      BY <2>1 DEF FoldersTypes, DiskTypes, RowNames
    <3>2. CASE listOpen
      <4>1. BaseRow \in DOMAIN tree
        BY <2>2, <3>2 DEF GoodTree
      <4>2. DOMAIN <<>> = {}
        OBVIOUS
      <4>3. tree # <<>>
        BY <4>1, <4>2
      <4> QED BY <2>2, <3>1, <3>2, <4>3 DEF FoldersTypeOK
    <3>3. CASE ~listOpen
      <4>1. tree = <<>> /\ DOMAIN <<>> = {}
        BY <2>1, <3>3 DEF TreeGood
      <4>2. Listed(tree) = {}
        BY <4>1 DEF Listed
      <4> QED BY <3>1, <3>3, <4>1, <4>2 DEF FoldersTypeOK
    <3> QED BY <3>2, <3>3
  <2>4. FaxesListed
    <3> SUFFICES ASSUME listOpen, NEW f \in DOMAIN paths \ doomed
                 PROVE  Cardinality({r \in DOMAIN tree : f \in tree[r]}) = 1
      BY DEF FaxesListed
    <3>1. PICK t : t = tree
      OBVIOUS
    <3>2. GoodTree(t) /\ f \in Listed(t)
      BY <2>2, <3>1
    <3>3. PICK s \in DOMAIN t : f \in t[s]
      BY <3>2, HasRow
    <3>4. {r \in DOMAIN t : f \in t[r]} = {s}
      BY <3>2, <3>3 DEF GoodTree
    <3> QED BY <3>1, <3>4, FS_Singleton
  <2>5. TreeIsRooted
    BY <2>2 DEF TreeIsRooted, GoodTree, Rooted
  <2>6. FolderNamesUnique
    BY <2>1 DEF FolderNamesUnique, Intact, NamesKept, NamesApart
  <2> QED BY <2>3, <2>4, <2>5, <2>6 DEF FoldersSound
<1> QED BY <1>1, FoldersInvHolds, PTL

(* A tree that was saved is what populate_fax_list() makes of the disk.    *)
THEOREM SavedFoldersAreRestored == SpecFolders => []SavedIsRestored
<1>1. FoldersInv => SavedIsRestored
  <2> SUFFICES ASSUME FoldersInv, listOpen, ~unsaved, ~torn, folderFaults.failures = 0
               PROVE  Layout(Populated(paths, pathList)) = Layout(tree)
    BY DEF SavedIsRestored
  <2>1. PICK t, ps, lists : t = tree /\ ps = paths /\ lists = pathList
    OBVIOUS
  <2>2. /\ DiskTypes(ps, lists) /\ GoodTree(t) /\ Listed(t) \subseteq DOMAIN ps
        /\ DOMAIN ps \ doomed \subseteq Listed(t) /\ DOMAIN ps \cap doomed = {}
        /\ SavedAs(t, ps, lists)
    BY <2>1 DEF FoldersInv, FoldersTypes, TreeGood, Follows, Intact, DiskSound
  <2>3. PICK u : u = Populated(ps, lists)
    OBVIOUS
  <2>4. /\ GoodTree(u) /\ Listed(u) = DOMAIN ps
        /\ PathsOf(u) = NamedPaths(ps, lists)
        /\ \A r \in DOMAIN u : \A f \in u[r] : Pathname(r) = FolderOfFax(ps, f)
    BY <2>2, <2>3, ReadsGoodTree
  <2>5. /\ PathsOf(t) = NamedPaths(ps, lists) /\ Listed(t) = DOMAIN ps
        /\ \A r \in DOMAIN t : \A f \in t[r] : FolderOfFax(ps, f) = Pathname(r)
    BY <2>2 DEF SavedAs
  <2>6. \A f \in DOMAIN ps : /\ Pathname(RowWith(u, f)) = FolderOfFax(ps, f)
                             /\ Pathname(RowWith(t, f)) = FolderOfFax(ps, f)
    BY <2>2, <2>4, <2>5, HasRow
  <2>7. {<<Pathname(RowWith(u, f)), f>> : f \in Listed(u)}
          = {<<Pathname(RowWith(t, f)), f>> : f \in Listed(t)}
    BY <2>4, <2>5, <2>6
  <2>8. PathsOf(u) = PathsOf(t)
    BY <2>4, <2>5
  <2>9. Layout(u) = Layout(t)
    BY <2>7, <2>8 DEF Layout, PathsOf
  <2> QED BY <2>1, <2>3, <2>9
<1> QED BY <1>1, FoldersInvHolds, PTL

----------------------------------------------------------------------------
(***************************************************************************)
(* For any number of faxes, jobs and failures: a print manager lives as    *)
(* long as something holds it and is deleted once, and a temporary file is *)
(* there as long as it is needed and no longer.  The argument is that a    *)
(* manager is in the queue once, or with one thread, or on its own, so     *)
(* that its count is the sum of these, and that the file of a manager is   *)
(* that of the one job that holds or held it.                              *)
(***************************************************************************)

Places  == {"pop", "parms", "make", "write", "viewer", "set", "print", "drop", "done", "stray"}
HoldsAt == {"parms", "make", "write", "set", "print", "drop", "stray"}

JobRec == [pc : Places, way : {"dialog", "command", "view"}, fax : PrintedFaxes, mgr : Nat,
           pages : Nat, made : Nat, cut : BOOLEAN]
Mgr == [refs : Int, ready : BOOLEAN, file : Nat,
        at : {"idle", "notified", "dialog", "printing", "stray"}]

PrintTypes ==
  /\ jobs \in Seq(JobRec) /\ queue \in Seq(Nat) /\ listUp \in BOOLEAN
  /\ onDisk \in [PrintedFaxes -> SUBSET Whole]
  /\ DOMAIN managers \subseteq 1..Len(jobs) /\ (\A m \in DOMAIN managers : managers[m] \in Mgr)
  /\ DOMAIN temps \subseteq 1..Len(jobs) /\ viewFiles \subseteq 1..Len(jobs)

InQueue(m)  == \E k \in 1..Len(queue) : queue[k] = m
Holds(n, m) == jobs[n].mgr = m /\ jobs[n].pc \in HoldsAt
Held(m)     == \E n \in 1..Len(jobs) : Holds(n, m)
Busy(m)     == managers[m].at # "idle"

HasFile(n) == n \in DOMAIN temps

(* A job of the GTK+ dialog has a manager from the queue to its end. *)
JobManaged(n) ==
  /\ jobs[n].mgr \in DOMAIN managers \cup {None}
  /\ jobs[n].pc = "pop" => jobs[n].way = "dialog" /\ jobs[n].mgr = None
  /\ jobs[n].pc \in {"make", "set", "print", "drop", "stray"} => jobs[n].way = "dialog"
  /\ jobs[n].pc = "viewer" => jobs[n].way = "view"
  /\ jobs[n].pc = "write" => jobs[n].way \in {"dialog", "view"}
  /\ jobs[n].way # "dialog" => jobs[n].mgr = None
  /\ jobs[n].way = "dialog" /\ jobs[n].pc \in {"parms", "make", "write", "set", "print", "drop"} =>
       jobs[n].mgr # None
  /\ jobs[n].pc \in HoldsAt \ {"drop"} /\ jobs[n].mgr # None => ~Busy(jobs[n].mgr)
  /\ jobs[n].pc = "print" => managers[jobs[n].mgr].file = n

(* The file of a job while its thread needs it, and after. *)
JobFiled(n) ==
  /\ jobs[n].pc \in {"set", "print"} => HasFile(n)
  /\ jobs[n].pc = "write" /\ jobs[n].way = "dialog" => n \in DOMAIN temps
  /\ n \in DOMAIN temps /\ jobs[n].way = "view" => n \in viewFiles
  /\ n \in viewFiles => jobs[n].way = "view"
  /\ n \in DOMAIN temps => \/ jobs[n].way = "view"
                           \/ jobs[n].pc \in {"write", "set", "print", "stray"}
                           \/ \E m \in DOMAIN managers : managers[m].file = n /\ Busy(m)

(* The file of a manager is that of its job; a manager that is at work has *)
(* the file, and neither the queue nor a thread that could use it.         *)
MgrFiled(m) ==
  /\ managers[m].file # None =>
       /\ managers[m].file \in 1..Len(jobs)
       /\ jobs[managers[m].file].mgr = m
       /\ jobs[managers[m].file].pc \in {"print", "drop", "done"}
  /\ Busy(m) =>
       /\ managers[m].file # None /\ jobs[managers[m].file].pc \in {"drop", "done"}
       /\ HasFile(managers[m].file) /\ ~InQueue(m)

Count(m) == (IF InQueue(m) THEN 1 ELSE 0) + (IF Held(m) THEN 1 ELSE 0) + (IF Busy(m) THEN 1 ELSE 0)

MgrCounted(m) ==
  /\ managers[m].ready <=> ~Busy(m)
  /\ InQueue(m) => ~Held(m)
  /\ managers[m].refs = Count(m)

QueueApart ==
  /\ \A k \in 1..Len(queue) : queue[k] \in DOMAIN managers
  /\ \A j, k \in 1..Len(queue) : queue[j] = queue[k] => j = k

OneHolder ==
  \A n, k \in 1..Len(jobs) : Holds(n, jobs[n].mgr) /\ Holds(k, jobs[n].mgr) /\ jobs[n].mgr # None => n = k

Popping == {n \in 1..Len(jobs) : jobs[n].pc = "pop"}

PopsQueued == listUp => Len(queue) = Cardinality(Popping)

IInv ==
  /\ PrintTypes
  /\ \A n \in 1..Len(jobs) : JobManaged(n) /\ JobFiled(n)
  /\ \A m \in DOMAIN managers : MgrFiled(m) /\ MgrCounted(m)
  /\ QueueApart /\ OneHolder /\ PopsQueued

----------------------------------------------------------------------------
(* What the steps are made of *)

LEMMA JobChanged ==
  ASSUME PrintTypes, NEW n \in 1..Len(jobs), NEW r \in JobRec, jobs' = [jobs EXCEPT ![n] = r]
  PROVE  /\ jobs' \in Seq(JobRec) /\ Len(jobs') = Len(jobs) /\ jobs'[n] = r /\ Len(jobs) \in Nat
         /\ \A k \in 1..Len(jobs) : k # n => jobs'[k] = jobs[k]
  BY DEF PrintTypes

LEMMA JobAdded ==
  ASSUME PrintTypes, NEW r \in JobRec, jobs' = Append(jobs, r)
  PROVE  /\ jobs' \in Seq(JobRec) /\ Len(jobs') = Len(jobs) + 1 /\ jobs'[Len(jobs) + 1] = r /\ Len(jobs) \in Nat
         /\ \A k \in 1..Len(jobs) : jobs'[k] = jobs[k]
  BY AppendProperties DEF PrintTypes

LEMMA MgrChanged ==
  ASSUME NEW ms, \A m \in DOMAIN ms : ms[m] \in Mgr, NEW m \in DOMAIN ms, NEW x \in Mgr,
         NEW new, new = [ms EXCEPT ![m] = x]
  PROVE  /\ DOMAIN new = DOMAIN ms /\ new[m] = x /\ (\A k \in DOMAIN new : new[k] \in Mgr)
         /\ \A k \in DOMAIN ms : k # m => new[k] = ms[k]
  OBVIOUS

LEMMA Unrefs ==
  ASSUME NEW ms, \A m \in DOMAIN ms : ms[m] \in Mgr, NEW m \in DOMAIN ms
  PROVE  \E x \in Mgr : /\ unref(ms, m) = [ms EXCEPT ![m] = x]
                        /\ x.refs = ms[m].refs - 1 /\ x.ready = ms[m].ready
                        /\ x.file = ms[m].file /\ x.at = ms[m].at
<1> DEFINE x == [ms[m] EXCEPT !.refs = ms[m].refs - 1]
<1>1. x \in Mgr /\ x.refs = ms[m].refs - 1 /\ x.ready = ms[m].ready
      /\ x.file = ms[m].file /\ x.at = ms[m].at
  BY DEF Mgr
<1>2. unref(ms, m) = [ms EXCEPT ![m] = x]
  BY DEF unref
<1> HIDE DEF x
<1> QED BY <1>1, <1>2

(* clean_up() and what goes with it, in the managers. *)
LEMMA Idles ==
  ASSUME NEW ms, \A m \in DOMAIN ms : ms[m] \in Mgr, NEW m \in DOMAIN ms
  PROVE  \E x \in Mgr : /\ unref(Idle(ms, m), m) = [ms EXCEPT ![m] = x]
                        /\ x.refs = ms[m].refs - 1 /\ x.ready = TRUE
                        /\ x.file = ms[m].file /\ x.at = "idle"
<1> DEFINE y == [ms[m] EXCEPT !.ready = TRUE, !.at = "idle"]
           i == [ms EXCEPT ![m] = y]
<1>1. y \in Mgr /\ y.refs = ms[m].refs /\ y.ready = TRUE /\ y.file = ms[m].file /\ y.at = "idle"
  BY DEF Mgr
<1>2. Idle(ms, m) = i
  BY DEF Idle
<1> HIDE DEF y
<1>3. DOMAIN i = DOMAIN ms /\ i[m] = y /\ (\A k \in DOMAIN i : i[k] \in Mgr)
  BY <1>1
<1>4. PICK x \in Mgr : unref(i, m) = [i EXCEPT ![m] = x]
        /\ x.refs = i[m].refs - 1 /\ x.ready = i[m].ready /\ x.file = i[m].file /\ x.at = i[m].at
  BY <1>3, Unrefs
<1>5. [i EXCEPT ![m] = x] = [ms EXCEPT ![m] = x]
  OBVIOUS
<1> QED BY <1>1, <1>2, <1>3, <1>4, <1>5

LEMMA PoppingFinite ==
  ASSUME PrintTypes
  PROVE  IsFiniteSet(Popping) /\ Cardinality(Popping) \in Nat
<1>1. IsFiniteSet(1..Len(jobs))
  BY FS_Interval DEF PrintTypes
<1>2. IsFiniteSet(Popping)
  BY <1>1, FS_Subset DEF Popping
<1> QED BY <1>2, FS_CardinalityType

(* What is dropped from the front of a queue without repetition. *)
LEMMA Dequeued ==
  ASSUME NEW q \in Seq(Nat), q # <<>>, \A j, k \in 1..Len(q) : q[j] = q[k] => j = k
  PROVE  /\ Tail(q) \in Seq(Nat) /\ Len(Tail(q)) = Len(q) - 1 /\ Len(q) \in Nat \ {0} /\ Head(q) = q[1]
         /\ \A k \in 1..Len(Tail(q)) : Tail(q)[k] = q[k + 1] /\ k + 1 \in 1..Len(q)
         /\ \A j, k \in 1..Len(Tail(q)) : Tail(q)[j] = Tail(q)[k] => j = k
         /\ \A m : (\E k \in 1..Len(Tail(q)) : Tail(q)[k] = m) <=> (\E k \in 1..Len(q) : q[k] = m) /\ m # Head(q)
<1>1. /\ Tail(q) \in Seq(Nat) /\ Len(Tail(q)) = Len(q) - 1 /\ Len(q) \in Nat \ {0} /\ Head(q) = q[1]
      /\ \A k \in 1..Len(Tail(q)) : Tail(q)[k] = q[k + 1] /\ k + 1 \in 1..Len(q)
  BY EmptySeq, HeadTailProperties
<1>2. \A j, k \in 1..Len(Tail(q)) : Tail(q)[j] = Tail(q)[k] => j = k
  <2>1. ASSUME NEW j \in 1..Len(Tail(q)), NEW k \in 1..Len(Tail(q)), Tail(q)[j] = Tail(q)[k] PROVE j = k
    <3>1. j + 1 = k + 1
      BY <1>1, <2>1
    <3> QED BY <1>1, <3>1
  <2> QED BY <2>1
<1>3. ASSUME NEW m
      PROVE  (\E k \in 1..Len(Tail(q)) : Tail(q)[k] = m) <=> (\E k \in 1..Len(q) : q[k] = m) /\ m # Head(q)
  <2>1. ASSUME NEW k \in 1..Len(Tail(q)), Tail(q)[k] = m PROVE (\E j \in 1..Len(q) : q[j] = m) /\ m # Head(q)
    <3>1. k + 1 \in 1..Len(q) /\ q[k + 1] = m /\ k + 1 # 1 /\ 1 \in 1..Len(q)
      BY <1>1, <2>1
    <3> QED BY <1>1, <3>1
  <2>2. ASSUME NEW k \in 1..Len(q), q[k] = m, m # Head(q) PROVE \E j \in 1..Len(Tail(q)) : Tail(q)[j] = m
    <3>1. k # 1 /\ k - 1 \in 1..Len(Tail(q))
      BY <1>1, <2>2
    <3>2. Tail(q)[k - 1] = q[(k - 1) + 1] /\ (k - 1) + 1 = k
      BY <1>1, <3>1
    <3> QED BY <2>2, <3>1, <3>2
  <2> QED BY <2>1, <2>2
<1> QED BY <1>1, <1>2, <1>3

LEMMA Enqueued ==
  ASSUME NEW q \in Seq(Nat), NEW n \in Nat
  PROVE  /\ Append(q, n) \in Seq(Nat) /\ Len(Append(q, n)) = Len(q) + 1 /\ Len(q) \in Nat
         /\ Append(q, n)[Len(q) + 1] = n /\ \A k \in 1..Len(q) : Append(q, n)[k] = q[k]
         /\ \A m : (\E k \in 1..Len(Append(q, n)) : Append(q, n)[k] = m) <=> (\E k \in 1..Len(q) : q[k] = m) \/ m = n
  BY AppendProperties

----------------------------------------------------------------------------
(* The steps of a thread that leave the managers alone *)

(* A thread that keeps its manager, or has none, and may have written its file. *)
LEMMA MovesOn ==
  ASSUME IInv, NEW n \in 1..Len(jobs), NEW r \in JobRec, jobs' = [jobs EXCEPT ![n] = r],
         r.mgr = jobs[n].mgr, r.way = jobs[n].way, r.pc # "pop",
         jobs[n].pc \notin {"print", "drop", "done"}, listUp => jobs[n].pc # "pop",
         jobs[n].mgr # None => (jobs[n].pc \in HoldsAt /\ r.pc \in HoldsAt),
         UNCHANGED <<listUp, onDisk, queue, managers, viewFiles>>,
         DOMAIN temps \subseteq DOMAIN temps', DOMAIN temps' \subseteq DOMAIN temps \cup {n},
         \A k \in DOMAIN temps : k # n => temps'[k] = temps[k],
         JobManaged(n)', JobFiled(n)'
  PROVE  IInv'
<1>1. /\ jobs' \in Seq(JobRec) /\ Len(jobs') = Len(jobs) /\ jobs'[n] = r /\ Len(jobs) \in Nat
      /\ \A k \in 1..Len(jobs) : k # n => jobs'[k] = jobs[k]
  BY JobChanged DEF IInv
<1>2. PrintTypes'
  BY <1>1 DEF IInv, PrintTypes
<1>3. ASSUME NEW k \in 1..Len(jobs'), k # n PROVE JobManaged(k)'
  BY <1>1, <1>3 DEF IInv, JobManaged, Busy
<1>4. ASSUME NEW k \in 1..Len(jobs'), k # n PROVE JobFiled(k)'
  BY <1>1, <1>4 DEF IInv, JobFiled, Busy, HasFile
<1>5. \A k \in 1..Len(jobs'), m \in DOMAIN managers : Holds(k, m)' <=> Holds(k, m)
  BY <1>1 DEF Holds, IInv, PrintTypes, None
<1>6. ASSUME NEW m \in DOMAIN managers' PROVE MgrFiled(m)'
  <2>1. managers[m].file # n \/ managers[m].file = None
    BY <1>6 DEF IInv, MgrFiled
  <2> QED BY <1>1, <1>6, <2>1 DEF IInv, MgrFiled, Busy, HasFile, InQueue
<1>7. ASSUME NEW m \in DOMAIN managers' PROVE MgrCounted(m)'
  <2>1. Held(m)' <=> Held(m)
    BY <1>1, <1>5, <1>7 DEF Held
  <2> QED BY <1>7, <2>1 DEF IInv, MgrCounted, Count, Busy, InQueue
<1>8. QueueApart'
  BY DEF IInv, QueueApart
<1>9. OneHolder'
  BY <1>1 DEF IInv, OneHolder, Holds
<1>10. PopsQueued'
  <2>1. CASE listUp
    <3>1. Popping' = Popping
      BY <1>1, <2>1 DEF Popping
    <3> QED BY <2>1, <3>1 DEF IInv, PopsQueued
  <2> QED BY <2>1 DEF PopsQueued
<1> QED BY <1>2, <1>3, <1>4, <1>6, <1>7, <1>8, <1>9, <1>10 DEF IInv

LEMMA Goes ==
  ASSUME PrintTypes, NEW n \in 1..Len(jobs), NEW place \in Places, Goto(n, place)
  PROVE  \E r \in JobRec : /\ jobs' = [jobs EXCEPT ![n] = r] /\ r.pc = place
                           /\ r.way = jobs[n].way /\ r.mgr = jobs[n].mgr
                           /\ r.pages = jobs[n].pages /\ r.fax = jobs[n].fax
                           /\ r.made = jobs[n].made /\ r.cut = jobs[n].cut
<1> DEFINE r == [jobs[n] EXCEPT !.pc = place]
<1>1. jobs[n] \in JobRec
  BY DEF PrintTypes
<1>2. r \in JobRec /\ r.pc = place /\ r.way = jobs[n].way /\ r.mgr = jobs[n].mgr
      /\ r.pages = jobs[n].pages /\ r.fax = jobs[n].fax
      /\ r.made = jobs[n].made /\ r.cut = jobs[n].cut
  BY <1>1 DEF JobRec
<1>3. jobs' = [jobs EXCEPT ![n] = r]
  BY DEF Goto
<1> HIDE DEF r
<1> QED BY <1>2, <1>3

LEMMA FindsPagesKeeps ==
  ASSUME IInv, NEW n \in 1..Len(jobs), FindsPages(n)
  PROVE  IInv'
<1> DEFINE place == CASE jobs[n].way = "dialog" -> "make"
                      [] jobs[n].way = "command" -> "done"
                      [] jobs[n].way = "view" -> "write"
           one   == [jobs[n] EXCEPT !.pages = jobs[n].pages + 1]
<1>1. jobs[n] \in JobRec /\ PrintTypes /\ JobManaged(n) /\ JobFiled(n) /\ jobs[n].pc = "parms"
      /\ UNCHANGED <<listUp, onDisk, queue, managers, temps, viewFiles>>
  BY DEF IInv, PrintTypes, FindsPages, At
<1>2. place \in {"make", "done", "write"} /\ place \in Places
      /\ (place = "make" <=> jobs[n].way = "dialog") /\ (place = "write" <=> jobs[n].way = "view")
  BY <1>1 DEF JobRec, Places
<1>3. PICK r \in JobRec : /\ jobs' = [jobs EXCEPT ![n] = r] /\ r.pc \in {"parms", place}
                          /\ r.way = jobs[n].way /\ r.mgr = jobs[n].mgr
  <2>1. CASE jobs' = [jobs EXCEPT ![n] = [@ EXCEPT !.pages = jobs[n].pages + 1]]
    <3>1. one \in JobRec /\ one.pc = "parms" /\ one.way = jobs[n].way /\ one.mgr = jobs[n].mgr
      BY <1>1 DEF JobRec
    <3>2. jobs' = [jobs EXCEPT ![n] = one]
      BY <2>1
    <3> HIDE DEF one
    <3> QED BY <3>1, <3>2
  <2>2. CASE Goto(n, place)
    <3> HIDE DEF place
    <3> QED BY <1>1, <1>2, <2>2, Goes
  <2> QED BY <2>1, <2>2 DEF FindsPages
<1> HIDE DEF place, one
<1>4. jobs'[n] = r
  BY <1>1, <1>3 DEF PrintTypes
<1>5. JobManaged(n)'
  BY <1>1, <1>2, <1>3, <1>4 DEF JobManaged, Busy, HoldsAt
<1>6. JobFiled(n)'
  BY <1>1, <1>2, <1>3, <1>4 DEF JobFiled, Busy, HasFile
<1>7. jobs[n].mgr # None => jobs[n].way = "dialog"
  BY <1>1 DEF JobManaged
<1> QED BY <1>1, <1>2, <1>3, <1>5, <1>6, <1>7, MovesOn DEF HoldsAt

LEMMA MakesPageKeeps ==
  ASSUME IInv, NEW n \in 1..Len(jobs), MakesPage(n)
  PROVE  IInv'
<1>1. jobs[n] \in JobRec /\ PrintTypes /\ JobManaged(n) /\ JobFiled(n) /\ jobs[n].pc = "write"
      /\ UNCHANGED <<listUp, onDisk, queue, managers, viewFiles>>
  BY DEF IInv, PrintTypes, MakesPage, At
<1>2. PICK lost \in BOOLEAN : Makes(n, lost)
  BY DEF MakesPage
<1>9. PICK c \in BOOLEAN : c = (jobs[n].cut \/ lost)
  OBVIOUS
<1>10. PICK k \in Nat : k = jobs[n].made + 1
  BY <1>1 DEF JobRec
<1> DEFINE more == [jobs[n] EXCEPT !.made = k, !.cut = c]
<1>3. more \in JobRec /\ more.pc = "write" /\ more.way = jobs[n].way /\ more.mgr = jobs[n].mgr
  BY ONLY <1>1, k \in Nat, c \in BOOLEAN DEF JobRec
<1>4. jobs' = [jobs EXCEPT ![n] = more]
  BY <1>2, <1>9, <1>10 DEF Makes
<1> HIDE DEF more
<1>5. jobs'[n] = more
  BY <1>1, <1>4 DEF PrintTypes
<1>6. DOMAIN temps' = DOMAIN temps /\ \A j \in DOMAIN temps : j # n => temps'[j] = temps[j]
  BY DEF MakesPage, With
<1>7. JobManaged(n)'
  BY <1>1, <1>3, <1>5 DEF JobManaged, Busy, HoldsAt
<1>8. JobFiled(n)'
  BY <1>1, <1>3, <1>5, <1>6 DEF JobFiled, Busy, HasFile
<1> QED BY <1>1, <1>3, <1>4, <1>6, <1>7, <1>8, MovesOn DEF HoldsAt

LEMMA EndsFileKeeps ==
  ASSUME IInv, NEW n \in 1..Len(jobs), EndsFile(n)
  PROVE  IInv'
<1> DEFINE place == IF jobs[n].way = "view" THEN "viewer" ELSE "set"
           last  == [jobs[n] EXCEPT !.pc = place, !.cut = TRUE]
<1>1. place \in Places /\ place \in {"viewer", "set"} /\ (place = "viewer" <=> jobs[n].way = "view")
  BY DEF Places
<1>2. jobs[n] \in JobRec /\ PrintTypes /\ JobManaged(n) /\ JobFiled(n) /\ jobs[n].pc = "write"
      /\ UNCHANGED <<listUp, onDisk, queue, managers, temps, viewFiles>>
  BY DEF IInv, PrintTypes, EndsFile, At
<1>3. PICK r \in JobRec : /\ jobs' = [jobs EXCEPT ![n] = r] /\ r.pc = place
                          /\ r.way = jobs[n].way /\ r.mgr = jobs[n].mgr
  <2>1. CASE Goto(n, place)
    <3> HIDE DEF place
    <3> QED BY <1>1, <1>2, <2>1, Goes
  <2>2. CASE jobs' = [jobs EXCEPT ![n] = [@ EXCEPT !.pc = place, !.cut = TRUE]]
    <3>1. last \in JobRec /\ last.pc = place /\ last.way = jobs[n].way /\ last.mgr = jobs[n].mgr
      BY <1>1, <1>2 DEF JobRec
    <3>2. jobs' = [jobs EXCEPT ![n] = last]
      BY <2>2
    <3> HIDE DEF place, last
    <3> QED BY <3>1, <3>2
  <2> QED BY <2>1, <2>2 DEF EndsFile
<1> HIDE DEF place, last
<1>4. jobs'[n] = r
  BY <1>2, <1>3 DEF PrintTypes
<1>5. JobManaged(n)'
  BY <1>1, <1>2, <1>3, <1>4 DEF JobManaged, Busy, HoldsAt
<1>6. JobFiled(n)'
  BY <1>1, <1>2, <1>3, <1>4 DEF JobManaged, JobFiled, Busy, HasFile
<1>7. jobs[n].mgr # None => place = "set"
  BY <1>1, <1>2 DEF JobManaged
<1> QED BY <1>1, <1>2, <1>3, <1>5, <1>6, <1>7, MovesOn DEF HoldsAt

LEMMA StartsViewerKeeps ==
  ASSUME IInv, NEW n \in 1..Len(jobs), StartsViewer(n)
  PROVE  IInv'
<1>1. /\ Goto(n, "done") /\ jobs[n].pc = "viewer" /\ JobManaged(n) /\ JobFiled(n) /\ PrintTypes
      /\ UNCHANGED <<listUp, onDisk, queue, managers, temps, viewFiles>>
  BY DEF StartsViewer, At, IInv
<1>2. PICK r \in JobRec : /\ jobs' = [jobs EXCEPT ![n] = r] /\ r.pc = "done"
                          /\ r.way = jobs[n].way /\ r.mgr = jobs[n].mgr
  BY <1>1, Goes DEF Places
<1>3. jobs'[n] = r
  BY <1>1, <1>2 DEF PrintTypes
<1>4. JobManaged(n)' /\ JobFiled(n)' /\ jobs[n].mgr = None
  BY <1>1, <1>2, <1>3 DEF JobManaged, JobFiled, Busy, HasFile, HoldsAt
<1> QED BY <1>1, <1>2, <1>4, MovesOn

(* A thread whose dialog is gone. *)
LEMMA StraysKeep ==
  ASSUME IInv, NEW n \in 1..Len(jobs), ~listUp, jobs[n].pc \in {"pop", "make"}, Goto(n, "stray"),
         UNCHANGED <<listUp, onDisk, queue, managers, temps, viewFiles>>
  PROVE  IInv'
<1>1. JobManaged(n) /\ JobFiled(n) /\ PrintTypes
  BY DEF IInv
<1>2. PICK r \in JobRec : /\ jobs' = [jobs EXCEPT ![n] = r] /\ r.pc = "stray"
                          /\ r.way = jobs[n].way /\ r.mgr = jobs[n].mgr
  BY <1>1, Goes DEF Places
<1>3. jobs'[n] = r
  BY <1>1, <1>2 DEF PrintTypes
<1>4. JobManaged(n)' /\ JobFiled(n)' /\ (jobs[n].mgr # None => jobs[n].pc = "make")
  BY <1>1, <1>2, <1>3 DEF JobManaged, JobFiled, Busy, HasFile, HoldsAt
<1> QED BY <1>1, <1>2, <1>4, MovesOn DEF HoldsAt

----------------------------------------------------------------------------
(* The steps of a manager in the main loop *)

(* A manager at work stays at work. *)
LEMMA StaysBusy ==
  ASSUME IInv, NEW m \in DOMAIN managers, Busy(m), NEW x \in Mgr, managers' = [managers EXCEPT ![m] = x],
         x.at # "idle", x.refs = managers[m].refs, x.ready = managers[m].ready, x.file = managers[m].file,
         UNCHANGED <<listUp, onDisk, jobs, queue, temps, viewFiles>>
  PROVE  IInv'
<1>1. /\ DOMAIN managers' = DOMAIN managers /\ managers'[m] = x
      /\ (\A k \in DOMAIN managers' : managers'[k] \in Mgr)
      /\ \A k \in DOMAIN managers : k # m => managers'[k] = managers[k]
  BY MgrChanged DEF IInv, PrintTypes
<1>2. PrintTypes'
  BY <1>1 DEF IInv, PrintTypes
<1>3. \A k \in DOMAIN managers : (Busy(k)' <=> Busy(k)) /\ managers'[k].file = managers[k].file
        /\ managers'[k].refs = managers[k].refs /\ managers'[k].ready = managers[k].ready
  BY <1>1 DEF Busy
<1>4. ASSUME NEW n \in 1..Len(jobs') PROVE JobManaged(n)'
  <2>1. JobManaged(n) /\ n \in 1..Len(jobs)
    BY <1>4 DEF IInv
  <2>2. jobs[n].mgr # None => jobs[n].mgr \in DOMAIN managers
    BY <2>1 DEF JobManaged
  <2>3. jobs[n].pc = "print" => jobs[n].mgr # None
    BY <2>1 DEF JobManaged
  <2> QED BY <1>1, <1>3, <2>1, <2>2, <2>3 DEF JobManaged
<1>5. ASSUME NEW n \in 1..Len(jobs') PROVE JobFiled(n)'
  BY <1>1, <1>3, <1>5 DEF IInv, JobFiled, HasFile
<1>6. ASSUME NEW k \in DOMAIN managers' PROVE MgrFiled(k)' /\ MgrCounted(k)'
  <2>1. k \in DOMAIN managers /\ MgrFiled(k) /\ MgrCounted(k)
    BY <1>1, <1>6 DEF IInv
  <2>2. MgrFiled(k)'
    BY <1>3, <2>1 DEF MgrFiled, HasFile, InQueue
  <2>3. MgrCounted(k)'
    BY <1>3, <2>1 DEF MgrCounted, Count, InQueue, Held, Holds
  <2> QED BY <2>2, <2>3
<1>7. QueueApart' /\ OneHolder' /\ PopsQueued'
  BY <1>1 DEF IInv, QueueApart, OneHolder, Holds, PopsQueued, Popping
<1> QED BY <1>2, <1>4, <1>5, <1>6, <1>7 DEF IInv

(* A manager is done: its file goes, and its hold of itself. *)
LEMMA CleansUpKeeps ==
  ASSUME IInv, NEW m \in DOMAIN managers, Busy(m), CleansUp(m),
         UNCHANGED <<listUp, onDisk, jobs, queue, viewFiles>>
  PROVE  IInv'
<1>1. PICK x \in Mgr : /\ managers' = [managers EXCEPT ![m] = x]
                       /\ x.refs = managers[m].refs - 1 /\ x.ready = TRUE
                       /\ x.file = managers[m].file /\ x.at = "idle"
  BY Idles DEF CleansUp, IInv, PrintTypes
<1>2. /\ DOMAIN managers' = DOMAIN managers /\ managers'[m] = x
      /\ (\A k \in DOMAIN managers' : managers'[k] \in Mgr)
      /\ \A k \in DOMAIN managers : k # m => managers'[k] = managers[k]
  BY <1>1, MgrChanged DEF IInv, PrintTypes
<1> DEFINE file == managers[m].file
<1>3. /\ DOMAIN temps' = DOMAIN temps \ {file}
      /\ \A k \in DOMAIN temps : k # file => temps'[k] = temps[k]
  BY DEF CleansUp, Without
<1>4. PrintTypes'
  BY <1>2, <1>3 DEF IInv, PrintTypes
<1>5. /\ MgrFiled(m) /\ MgrCounted(m) /\ file \in 1..Len(jobs) /\ jobs[file].mgr = m
      /\ jobs[file].pc \in {"drop", "done"}
  BY DEF IInv, MgrFiled
<1>6. m # None /\ jobs[file].way = "dialog"
  <2>1. m # None
    BY DEF IInv, PrintTypes, None
  <2>2. JobManaged(file)
    BY <1>5 DEF IInv
  <2>3. jobs[file] \in JobRec
    BY <1>5 DEF IInv, PrintTypes
  <2> QED BY <1>5, <2>1, <2>2, <2>3 DEF JobManaged
<1> HIDE DEF file
<1>7. \A k \in DOMAIN managers : /\ k # m => (Busy(k)' <=> Busy(k))
                                 /\ managers'[k].file = managers[k].file
  BY <1>1, <1>2 DEF Busy
<1>8. ~Busy(m)'
  BY <1>1, <1>2 DEF Busy
<1>9. ASSUME NEW n \in 1..Len(jobs') PROVE JobManaged(n)'
  <2>1. JobManaged(n) /\ n \in 1..Len(jobs)
    BY <1>9 DEF IInv
  <2>2. jobs[n].mgr # None => jobs[n].mgr \in DOMAIN managers
    BY <2>1 DEF JobManaged
  <2>3. jobs[n].pc = "print" => jobs[n].mgr # None
    BY <2>1 DEF JobManaged
  <2> QED BY <1>2, <1>7, <1>8, <2>1, <2>2, <2>3 DEF JobManaged
<1>10. ASSUME NEW n \in 1..Len(jobs') PROVE JobFiled(n)'
  <2>1. JobFiled(n) /\ n \in 1..Len(jobs)
    BY <1>10 DEF IInv
  <2>2. CASE n = file
    BY <1>3, <1>5, <1>6, <2>1, <2>2 DEF JobFiled
  <2>3. CASE n # file
    <3>1. n \in DOMAIN temps' <=> n \in DOMAIN temps
      BY <1>3, <2>3
    <3>2. HasFile(n)' <=> HasFile(n)
      BY <1>3, <2>3, <3>1 DEF HasFile
    <3>3. (\E k \in DOMAIN managers : managers[k].file = n /\ Busy(k))
            => \E k \in DOMAIN managers' : managers'[k].file = n /\ Busy(k)'
      <4>1. ASSUME NEW k \in DOMAIN managers, managers[k].file = n, Busy(k)
            PROVE  k \in DOMAIN managers' /\ managers'[k].file = n /\ Busy(k)'
        BY <1>2, <1>7, <2>3, <4>1 DEF file
      <4> QED BY <4>1
    <3> QED BY <2>1, <3>1, <3>2, <3>3 DEF JobFiled
  <2> QED BY <2>2, <2>3
<1>11. ASSUME NEW k \in DOMAIN managers' PROVE MgrFiled(k)'
  <2>1. k \in DOMAIN managers /\ MgrFiled(k)
    BY <1>2, <1>11 DEF IInv
  <2>2. CASE k = m
    BY <1>7, <1>8, <2>1, <2>2 DEF MgrFiled
  <2>3. CASE k # m
    <3>1. Busy(k) => managers[k].file # file
      BY <1>5, <2>1, <2>3 DEF MgrFiled
    <3>2. Busy(k) => (HasFile(managers[k].file) => HasFile(managers[k].file)')
      BY <1>2, <1>3, <2>1, <2>3, <3>1 DEF HasFile
    <3> QED BY <1>2, <1>7, <2>1, <2>3, <3>2 DEF MgrFiled, InQueue
  <2> QED BY <2>2, <2>3
<1>12. ASSUME NEW k \in DOMAIN managers' PROVE MgrCounted(k)'
  <2>1. k \in DOMAIN managers /\ MgrCounted(k) /\ (InQueue(k)' <=> InQueue(k)) /\ (Held(k)' <=> Held(k))
    BY <1>2, <1>12 DEF IInv, InQueue, Held, Holds
  <2>2. CASE k = m
    BY <1>1, <1>2, <1>8, <2>1, <2>2 DEF MgrCounted, Count
  <2>3. CASE k # m
    BY <1>2, <1>7, <2>1, <2>3 DEF MgrCounted, Count
  <2> QED BY <2>2, <2>3
<1>13. QueueApart' /\ OneHolder' /\ PopsQueued'
  BY <1>2 DEF IInv, QueueApart, OneHolder, Holds, PopsQueued, Popping
<1> QED BY <1>4, <1>9, <1>10, <1>11, <1>12, <1>13 DEF IInv

LEMMA ManagerStepsKeep ==
  ASSUME IInv, NEW m \in DOMAIN managers, ManagerSteps(m)
  PROVE  IInv'
<1>1. managers[m] \in Mgr /\ MgrFiled(m)
  BY DEF IInv, PrintTypes
<1>2. ASSUME Busy(m), NEW place \in {"dialog", "printing", "stray"},
             managers' = [managers EXCEPT ![m] = [@ EXCEPT !.at = place]],
             UNCHANGED <<listUp, onDisk, jobs, queue, temps, viewFiles>>
      PROVE  IInv'
  <2> DEFINE x == [managers[m] EXCEPT !.at = place]
  <2>1. x \in Mgr /\ x.at # "idle" /\ x.refs = managers[m].refs /\ x.ready = managers[m].ready
        /\ x.file = managers[m].file
    BY <1>1 DEF Mgr
  <2>2. managers' = [managers EXCEPT ![m] = x]
    BY <1>2
  <2> HIDE DEF x
  <2> QED BY <1>2, <2>1, <2>2, StaysBusy
<1>3. CASE ShowsDialog(m)
  <2>1. Busy(m) /\ managers[m].file # None
    BY <1>1, <1>3 DEF ShowsDialog, Busy, MgrFiled
  <2> QED BY <1>2, <1>3, <2>1 DEF ShowsDialog
<1>4. CASE Rejected(m)
  <2>1. Busy(m)
    BY <1>4 DEF Rejected, Busy
  <2> QED BY <1>4, <2>1, CleansUpKeeps DEF Rejected, Cancelled
<1>5. CASE Accepted(m)
  <2>1. Busy(m)
    BY <1>5 DEF Accepted, Busy
  <2> QED BY <1>2, <1>5, <2>1, CleansUpKeeps DEF Accepted
<1>6. CASE JobCompletes(m)
  <2>1. Busy(m)
    BY <1>6 DEF JobCompletes, Busy
  <2> QED BY <1>6, <2>1, CleansUpKeeps DEF JobCompletes
<1> QED BY <1>3, <1>4, <1>5, <1>6 DEF ManagerSteps

----------------------------------------------------------------------------
(* The steps of a thread and the manager it holds *)

LEMMA HolderMoves ==
  ASSUME IInv, NEW n \in 1..Len(jobs), jobs[n].pc \in HoldsAt, jobs[n].mgr # None,
         NEW r \in JobRec, jobs' = [jobs EXCEPT ![n] = r],
         r.way = jobs[n].way, r.mgr = jobs[n].mgr, r.pages = jobs[n].pages, r.pc # "pop",
         NEW x \in Mgr, managers' = [managers EXCEPT ![jobs[n].mgr] = x],
         Busy(jobs[n].mgr) => x.at # "idle" /\ x.file = managers[jobs[n].mgr].file,
         UNCHANGED <<listUp, onDisk, queue, temps, viewFiles>>,
         JobManaged(n)', JobFiled(n)', MgrFiled(jobs[n].mgr)', MgrCounted(jobs[n].mgr)'
  PROVE  IInv'
<1> DEFINE m == jobs[n].mgr
<1>1. m \in DOMAIN managers
  BY DEF IInv, JobManaged
<1>2. /\ jobs' \in Seq(JobRec) /\ Len(jobs') = Len(jobs) /\ jobs'[n] = r /\ Len(jobs) \in Nat
      /\ \A k \in 1..Len(jobs) : k # n => jobs'[k] = jobs[k]
  BY JobChanged DEF IInv
<1>3. /\ DOMAIN managers' = DOMAIN managers /\ managers'[m] = x
      /\ (\A k \in DOMAIN managers' : managers'[k] \in Mgr)
      /\ \A k \in DOMAIN managers : k # m => managers'[k] = managers[k]
  BY <1>1, MgrChanged DEF IInv, PrintTypes
<1>4. Holds(n, m) /\ \A k \in 1..Len(jobs) : k # n => ~Holds(k, m)
  BY DEF IInv, OneHolder, Holds
<1> HIDE DEF m
<1>5. m = jobs[n].mgr
  BY DEF m
<1>6. PrintTypes'
  BY <1>2, <1>3 DEF IInv, PrintTypes
<1>7. ASSUME NEW k \in 1..Len(jobs'), k # n PROVE JobManaged(k)'
  <2>1. JobManaged(k) /\ k \in 1..Len(jobs) /\ jobs'[k] = jobs[k]
    BY <1>2, <1>7 DEF IInv
  <2>2. jobs[k].pc \in HoldsAt /\ jobs[k].mgr # None =>
          jobs[k].mgr \in DOMAIN managers /\ managers'[jobs[k].mgr] = managers[jobs[k].mgr]
    BY <1>2, <1>3, <1>4, <1>7, <2>1 DEF Holds, JobManaged
  <2>3. jobs[k].pc = "print" => jobs[k].mgr # None /\ jobs[k].pc \in HoldsAt
    BY <2>1 DEF JobManaged, HoldsAt
  <2> QED BY <1>3, <2>1, <2>2, <2>3 DEF JobManaged, Busy
<1>8. ASSUME NEW k \in 1..Len(jobs'), k # n PROVE JobFiled(k)'
  <2>1. JobFiled(k) /\ k \in 1..Len(jobs) /\ jobs'[k] = jobs[k]
    BY <1>2, <1>8 DEF IInv
  <2>2. (\E j \in DOMAIN managers : managers[j].file = k /\ Busy(j))
            => \E j \in DOMAIN managers' : managers'[j].file = k /\ Busy(j)'
    <3>1. ASSUME NEW j \in DOMAIN managers, managers[j].file = k, Busy(j)
          PROVE  j \in DOMAIN managers' /\ managers'[j].file = k /\ Busy(j)'
      BY <1>3, <1>5, <3>1 DEF Busy
    <3> QED BY <3>1
  <2> QED BY <2>1, <2>2 DEF JobFiled, HasFile
<1>9. ASSUME NEW k \in DOMAIN managers', k # m PROVE MgrFiled(k)'
  <2>1. k \in DOMAIN managers /\ MgrFiled(k) /\ managers'[k] = managers[k]
    BY <1>3, <1>9 DEF IInv
  <2>2. managers[k].file # n \/ managers[k].file = None
    BY <1>5, <1>9, <2>1 DEF MgrFiled
  <2> QED BY <1>2, <2>1, <2>2 DEF MgrFiled, Busy, HasFile, InQueue
<1>10. ASSUME NEW k \in DOMAIN managers', k # m PROVE MgrCounted(k)'
  <2>1. k \in DOMAIN managers /\ MgrCounted(k) /\ managers'[k] = managers[k]
    BY <1>3, <1>10 DEF IInv
  <2>2. Held(k)' <=> Held(k)
    BY <1>2, <1>5, <1>10 DEF Held, Holds
  <2> QED BY <2>1, <2>2 DEF MgrCounted, Count, Busy, InQueue
<1>11. QueueApart'
  BY <1>3 DEF IInv, QueueApart
<1>12. OneHolder'
  BY <1>2 DEF IInv, OneHolder, Holds
<1>13. PopsQueued'
  <2>1. Popping' = Popping
    BY <1>2 DEF Popping, HoldsAt
  <2> QED BY <2>1 DEF IInv, PopsQueued
<1> QED BY <1>3, <1>5, <1>6, <1>7, <1>8, <1>9, <1>10, <1>11, <1>12, <1>13 DEF IInv

(* What holds of a manager that a thread holds. *)
LEMMA OfHolder ==
  ASSUME IInv, NEW n \in 1..Len(jobs), jobs[n].pc \in HoldsAt, jobs[n].mgr # None
  PROVE  /\ jobs[n].mgr \in DOMAIN managers /\ managers[jobs[n].mgr] \in Mgr /\ jobs[n].mgr \in 1..Len(jobs)
         /\ Held(jobs[n].mgr) /\ ~InQueue(jobs[n].mgr)
         /\ (\A k \in 1..Len(jobs) : k # n => ~Holds(k, jobs[n].mgr))
         /\ MgrFiled(jobs[n].mgr) /\ MgrCounted(jobs[n].mgr) /\ JobManaged(n) /\ JobFiled(n) /\ PrintTypes
<1>1. JobManaged(n) /\ JobFiled(n) /\ PrintTypes
  BY DEF IInv
<1>2. jobs[n].mgr \in DOMAIN managers
  BY <1>1 DEF JobManaged
<1>3. managers[jobs[n].mgr] \in Mgr /\ jobs[n].mgr \in 1..Len(jobs)
  BY <1>1, <1>2 DEF PrintTypes
<1>4. Held(jobs[n].mgr) /\ \A k \in 1..Len(jobs) : k # n => ~Holds(k, jobs[n].mgr)
  BY DEF Held, Holds, IInv, OneHolder
<1>5. MgrFiled(jobs[n].mgr) /\ MgrCounted(jobs[n].mgr)
  BY <1>2 DEF IInv
<1>6. ~InQueue(jobs[n].mgr)
  BY <1>4, <1>5 DEF MgrCounted
<1> QED BY <1>1, <1>2, <1>3, <1>4, <1>5, <1>6

(* print_fax_thread() lets its manager go. *)
LEMMA LetsGo ==
  ASSUME IInv, NEW n \in 1..Len(jobs), jobs[n].pc \in {"make", "drop"}, Goto(n, "done"),
         managers' = unref(managers, jobs[n].mgr),
         UNCHANGED <<listUp, onDisk, queue, temps, viewFiles>>
  PROVE  IInv'
<1> DEFINE m == jobs[n].mgr
<1>1. jobs[n].pc \in HoldsAt /\ m # None /\ PrintTypes
  BY DEF IInv, JobManaged, HoldsAt
<1>2. /\ m \in DOMAIN managers /\ managers[m] \in Mgr /\ Held(m) /\ ~InQueue(m)
      /\ (\A k \in 1..Len(jobs) : k # n => ~Holds(k, m))
      /\ MgrFiled(m) /\ MgrCounted(m) /\ JobManaged(n) /\ JobFiled(n)
  BY <1>1, OfHolder
<1>3. PICK r \in JobRec : /\ jobs' = [jobs EXCEPT ![n] = r] /\ r.pc = "done"
                          /\ r.way = jobs[n].way /\ r.mgr = m /\ r.pages = jobs[n].pages
  BY <1>1, Goes DEF Places
<1>4. PICK x \in Mgr : /\ managers' = [managers EXCEPT ![m] = x]
                       /\ x.refs = managers[m].refs - 1 /\ x.ready = managers[m].ready
                       /\ x.file = managers[m].file /\ x.at = managers[m].at
  <2>1. \A k \in DOMAIN managers : managers[k] \in Mgr
    BY <1>1 DEF PrintTypes
  <2>2. m \in DOMAIN managers
    BY <1>2
  <2>3. \A k \in DOMAIN managers : \E x \in Mgr :
          /\ unref(managers, k) = [managers EXCEPT ![k] = x]
          /\ x.refs = managers[k].refs - 1 /\ x.ready = managers[k].ready
          /\ x.file = managers[k].file /\ x.at = managers[k].at
    BY <2>1, Unrefs
  <2> QED BY <2>2, <2>3
<1>5. /\ jobs'[n] = r /\ Len(jobs') = Len(jobs) /\ \A k \in 1..Len(jobs) : k # n => jobs'[k] = jobs[k]
  BY <1>1, <1>3, JobChanged
<1>6. /\ managers'[m] = x /\ DOMAIN managers' = DOMAIN managers
      /\ \A k \in DOMAIN managers : k # m => managers'[k] = managers[k]
  BY <1>2, <1>4
<1>7. m = jobs[n].mgr /\ m' = m
  BY <1>3, <1>5
<1> HIDE DEF m
<1>8. \A k \in DOMAIN managers : (Busy(k)' <=> Busy(k)) /\ managers'[k].file = managers[k].file
  BY <1>4, <1>6 DEF Busy
<1>9. JobManaged(n)'
  BY <1>2, <1>3, <1>5, <1>6 DEF JobManaged, HoldsAt
<1>10. JobFiled(n)'
  BY <1>2, <1>3, <1>5, <1>6, <1>7, <1>8 DEF JobFiled, JobManaged
<1>11. MgrFiled(m)'
  BY <1>2, <1>3, <1>5, <1>6, <1>7, <1>8 DEF MgrFiled, HasFile, InQueue
<1>12. MgrCounted(m)'
  <2>1. ~Held(m)'
    BY <1>2, <1>3, <1>5, <1>7 DEF Held, Holds, HoldsAt
  <2>2. InQueue(m)' <=> InQueue(m)
    BY <1>7 DEF InQueue
  <2> QED BY <1>2, <1>4, <1>6, <1>7, <1>8, <2>1, <2>2 DEF MgrCounted, Count
<1>13. Busy(m) => x.at # "idle" /\ x.file = managers[m].file
  BY <1>4 DEF Busy
<1> QED BY <1>1, <1>3, <1>4, <1>7, <1>9, <1>10, <1>11, <1>12, <1>13, HolderMoves DEF m

(* print() of a manager that is ready. *)
LEMMA Owns ==
  ASSUME NEW ms, \A m \in DOMAIN ms : ms[m] \in Mgr, NEW m \in DOMAIN ms
  PROVE  \E x \in Mgr :
           /\ Owned([ms EXCEPT ![m] = [@ EXCEPT !.ready = FALSE, !.at = "notified"]], m) = [ms EXCEPT ![m] = x]
           /\ x.refs = ms[m].refs + 1 /\ x.ready = FALSE
           /\ x.file = ms[m].file /\ x.at = "notified"
<1> DEFINE y == [ms[m] EXCEPT !.ready = FALSE, !.at = "notified"]
           i == [ms EXCEPT ![m] = y]
<1>1. y \in Mgr /\ y.refs = ms[m].refs /\ y.ready = FALSE /\ y.file = ms[m].file /\ y.at = "notified"
  BY DEF Mgr
<1>2. [ms EXCEPT ![m] = [@ EXCEPT !.ready = FALSE, !.at = "notified"]] = i
  OBVIOUS
<1> DEFINE x == [y EXCEPT !.refs = y.refs + 1]
<1> HIDE DEF y
<1>3. x \in Mgr /\ x.refs = ms[m].refs + 1 /\ x.ready = FALSE /\ x.file = ms[m].file /\ x.at = "notified"
  BY <1>1 DEF Mgr
<1>4. i[m] = y
  OBVIOUS
<1>5. Owned(i, m) = [i EXCEPT ![m] = x]
  BY <1>4 DEF Owned, ref
<1> HIDE DEF x
<1>6. [i EXCEPT ![m] = x] = [ms EXCEPT ![m] = x]
  OBVIOUS
<1> HIDE DEF i
<1> QED BY <1>2, <1>3, <1>5, <1>6

LEMMA SetsFilenameKeeps ==
  ASSUME IInv, NEW n \in 1..Len(jobs), SetsFilename(n)
  PROVE  IInv'
<1> DEFINE m == jobs[n].mgr
           x == [managers[m] EXCEPT !.file = n]
<1>1. jobs[n].pc = "set" /\ Goto(n, "print") /\ UNCHANGED <<listUp, onDisk, queue, temps, viewFiles>>
  BY DEF SetsFilename, At
<1>2. jobs[n].pc \in HoldsAt /\ m # None /\ PrintTypes
  BY <1>1 DEF IInv, JobManaged, HoldsAt
<1>3. /\ m \in DOMAIN managers /\ managers[m] \in Mgr /\ Held(m) /\ ~InQueue(m)
      /\ (\A k \in 1..Len(jobs) : k # n => ~Holds(k, m))
      /\ MgrFiled(m) /\ MgrCounted(m) /\ JobManaged(n) /\ JobFiled(n)
  BY <1>2, OfHolder
<1>4. PICK r \in JobRec : /\ jobs' = [jobs EXCEPT ![n] = r] /\ r.pc = "print"
                          /\ r.way = jobs[n].way /\ r.mgr = m /\ r.pages = jobs[n].pages
  BY <1>1, <1>2, Goes DEF Places
<1>5. ~Busy(m) /\ managers[m].ready
  BY <1>1, <1>2, <1>3 DEF JobManaged, MgrCounted, HoldsAt
<1>6. managers' = [managers EXCEPT ![m] = x]
  BY <1>5 DEF SetsFilename
<1>7. /\ x \in Mgr /\ x.refs = managers[m].refs /\ x.ready = managers[m].ready
      /\ x.file = n /\ x.at = managers[m].at
  BY <1>3 DEF Mgr
<1>8. /\ jobs'[n] = r /\ Len(jobs') = Len(jobs) /\ \A k \in 1..Len(jobs) : k # n => jobs'[k] = jobs[k]
  BY <1>2, <1>4, JobChanged
<1> HIDE DEF x
<1>9. /\ managers'[m] = x /\ DOMAIN managers' = DOMAIN managers
  BY <1>3, <1>6
<1>10. m = jobs[n].mgr /\ m' = m
  BY <1>4, <1>8
<1> HIDE DEF m
<1>11. ~Busy(m)'
  BY <1>5, <1>7, <1>9, <1>10 DEF Busy
<1>12. JobManaged(n)'
  BY <1>1, <1>3, <1>4, <1>7, <1>8, <1>9, <1>10, <1>11 DEF JobManaged, HoldsAt
<1>13. JobFiled(n)'
  BY <1>1, <1>3, <1>4, <1>8 DEF JobFiled, HasFile
<1>14. MgrFiled(m)'
  BY <1>4, <1>7, <1>8, <1>9, <1>10, <1>11 DEF MgrFiled
<1>15. MgrCounted(m)'
  <2>1. Held(m)'
    BY <1>4, <1>8, <1>10 DEF Held, Holds, HoldsAt
  <2>2. InQueue(m)' <=> InQueue(m)
    BY <1>1, <1>10 DEF InQueue
  <2> QED BY <1>3, <1>5, <1>7, <1>9, <1>10, <1>11, <2>1, <2>2 DEF MgrCounted, Count
<1> QED BY <1>1, <1>2, <1>4, <1>5, <1>6, <1>7, <1>12, <1>13, <1>14, <1>15, HolderMoves DEF m

LEMMA CallsPrintKeeps ==
  ASSUME IInv, NEW n \in 1..Len(jobs), CallsPrint(n)
  PROVE  IInv'
<1> DEFINE m == jobs[n].mgr
<1>1. jobs[n].pc = "print" /\ Goto(n, "drop") /\ UNCHANGED <<listUp, onDisk, queue, temps, viewFiles>>
  BY DEF CallsPrint, At
<1>2. jobs[n].pc \in HoldsAt /\ m # None /\ PrintTypes
  BY <1>1 DEF IInv, JobManaged, HoldsAt
<1>3. /\ m \in DOMAIN managers /\ managers[m] \in Mgr /\ Held(m) /\ ~InQueue(m)
      /\ (\A k \in 1..Len(jobs) : k # n => ~Holds(k, m))
      /\ MgrFiled(m) /\ MgrCounted(m) /\ JobManaged(n) /\ JobFiled(n)
  BY <1>2, OfHolder
<1>4. PICK r \in JobRec : /\ jobs' = [jobs EXCEPT ![n] = r] /\ r.pc = "drop"
                          /\ r.way = jobs[n].way /\ r.mgr = m /\ r.pages = jobs[n].pages
  BY <1>1, <1>2, Goes DEF Places
<1>5. ~Busy(m) /\ managers[m].ready /\ managers[m].file = n
  BY <1>1, <1>2, <1>3 DEF JobManaged, MgrCounted, HoldsAt
<1>6. PICK x \in Mgr : /\ managers' = [managers EXCEPT ![m] = x]
                       /\ x.refs = managers[m].refs + 1 /\ x.ready = FALSE /\ x.file = n /\ x.at = "notified"
  <2>1. \A k \in DOMAIN managers : managers[k] \in Mgr
    BY <1>2 DEF PrintTypes
  <2>2. \A k \in DOMAIN managers : \E x \in Mgr :
          /\ Owned([managers EXCEPT ![k] = [@ EXCEPT !.ready = FALSE, !.at = "notified"]], k) = [managers EXCEPT ![k] = x]
          /\ x.refs = managers[k].refs + 1 /\ x.ready = FALSE
          /\ x.file = managers[k].file /\ x.at = "notified"
    BY <2>1, Owns
  <2>3. managers' = Owned([managers EXCEPT ![m] = [@ EXCEPT !.ready = FALSE, !.at = "notified"]], m)
    BY <1>5 DEF CallsPrint
  <2>4. m \in DOMAIN managers
    BY <1>3
  <2> HIDE DEF m
  <2> QED BY <1>5, <2>2, <2>3, <2>4
<1>7. /\ jobs'[n] = r /\ Len(jobs') = Len(jobs) /\ \A k \in 1..Len(jobs) : k # n => jobs'[k] = jobs[k]
  BY <1>2, <1>4, JobChanged
<1>8. /\ managers'[m] = x /\ DOMAIN managers' = DOMAIN managers
      /\ \A k \in DOMAIN managers : k # m => managers'[k] = managers[k]
  BY <1>3, <1>6
<1>9. m = jobs[n].mgr /\ m' = m
  BY <1>4, <1>7
<1> HIDE DEF m
<1>10. Busy(m)'
  BY <1>6, <1>8, <1>9 DEF Busy
<1>11. JobManaged(n)'
  BY <1>1, <1>3, <1>4, <1>6, <1>7, <1>8, <1>9 DEF JobManaged, HoldsAt
<1>12. JobFiled(n)'
  <2>1. n \in DOMAIN temps => \E k \in DOMAIN managers' : managers'[k].file = n /\ Busy(k)'
    <3>1. m \in DOMAIN managers' /\ managers'[m].file = n
      BY <1>3, <1>6, <1>8
    <3> QED BY <3>1, <1>6, <1>8 DEF Busy
  <2> QED BY <1>1, <1>3, <1>4, <1>7, <2>1 DEF JobFiled
<1>13. MgrFiled(m)'
  BY <1>1, <1>3, <1>4, <1>6, <1>7, <1>8, <1>9, <1>10 DEF MgrFiled, JobFiled, HasFile, InQueue, None
<1>14. MgrCounted(m)'
  <2>1. Held(m)'
    BY <1>4, <1>7, <1>9 DEF Held, Holds, HoldsAt
  <2>2. InQueue(m)' <=> InQueue(m)
    BY <1>1, <1>9 DEF InQueue
  <2> QED BY <1>3, <1>5, <1>6, <1>8, <1>9, <1>10, <2>1, <2>2 DEF MgrCounted, Count
<1> QED BY <1>1, <1>2, <1>4, <1>5, <1>6, <1>11, <1>12, <1>13, <1>14, HolderMoves DEF m

LEMMA ThreadEndsKeeps ==
  ASSUME IInv, NEW n \in 1..Len(jobs), ThreadEnds(n)
  PROVE  IInv'
BY LetsGo DEF ThreadEnds, At

LEMMA MakesFileKeeps ==
  ASSUME IInv, NEW n \in 1..Len(jobs), MakesFile(n)
  PROVE  IInv'
<1>1. /\ jobs[n].pc = "make" /\ JobManaged(n) /\ JobFiled(n) /\ PrintTypes
      /\ UNCHANGED <<listUp, onDisk, viewFiles>>
  BY DEF MakesFile, At, IInv
<1>2. CASE ~listUp
  BY <1>1, <1>2, StraysKeep DEF MakesFile, UsesDialog
<1>3. ASSUME temps' = With(temps, n, {}), Goto(n, "write"), UNCHANGED <<queue, managers>>
      PROVE  IInv'
  <2>1. PICK r \in JobRec : /\ jobs' = [jobs EXCEPT ![n] = r] /\ r.pc = "write"
                            /\ r.way = jobs[n].way /\ r.mgr = jobs[n].mgr
    BY <1>1, <1>3, Goes DEF Places
  <2>2. jobs'[n] = r
    BY <1>1, <2>1 DEF PrintTypes
  <2>3. /\ DOMAIN temps' = DOMAIN temps \cup {n}
        /\ \A k \in DOMAIN temps : k # n => temps'[k] = temps[k]
    BY <1>3 DEF With
  <2>4. JobManaged(n)'
    BY <1>1, <1>3, <2>1, <2>2 DEF JobManaged, Busy, HoldsAt
  <2>5. JobFiled(n)'
    BY <1>1, <2>1, <2>2, <2>3 DEF JobFiled, JobManaged
  <2> QED BY <1>1, <1>3, <2>1, <2>3, <2>4, <2>5, MovesOn DEF HoldsAt
<1>4. ASSUME Goto(n, "done"), managers' = unref(managers, jobs[n].mgr), UNCHANGED <<queue, temps>>
      PROVE  IInv'
  BY <1>1, <1>4, LetsGo
<1> QED BY <1>2, <1>3, <1>4 DEF MakesFile, UsesDialog

(* A thread takes the manager at the front of the queue. *)
LEMMA PopsKeeps ==
  ASSUME IInv, NEW n \in 1..Len(jobs), Pops(n)
  PROVE  IInv'
<1>1. jobs[n].pc = "pop" /\ JobManaged(n) /\ JobFiled(n) /\ PrintTypes /\ UNCHANGED <<listUp, onDisk, viewFiles>>
  BY DEF Pops, At, IInv
<1>2. CASE ~listUp
  BY <1>1, <1>2, StraysKeep DEF Pops, UsesDialog
<1>3. CASE listUp
  <2> DEFINE m == Head(queue)
             r == [jobs[n] EXCEPT !.pc = "parms", !.mgr = m]
  <2>1. /\ jobs' = [jobs EXCEPT ![n] = r] /\ queue' = Tail(queue) /\ UNCHANGED <<managers, temps>>
    BY <1>3 DEF Pops, UsesDialog
  <2>2. /\ Cardinality(Popping \ {n}) = Cardinality(Popping) - 1 /\ Cardinality(Popping \ {n}) \in Nat
        /\ Cardinality(Popping) \in Nat
    <3>1. n \in Popping
      BY <1>1 DEF Popping
    <3> QED BY <1>1, <3>1, PoppingFinite, FS_RemoveElement, FS_CardinalityType
  <2>3. queue \in Seq(Nat) /\ queue # <<>>
    <3>1. Len(queue) # 0
      BY <1>3, <2>2 DEF IInv, PopsQueued
    <3> QED BY <1>1, <3>1, EmptySeq DEF PrintTypes
  <2>4. \A j, k \in 1..Len(queue) : queue[j] = queue[k] => j = k
    BY DEF IInv, QueueApart
  <2>5. /\ Tail(queue) \in Seq(Nat) /\ Len(Tail(queue)) = Len(queue) - 1 /\ Len(queue) \in Nat \ {0} /\ m = queue[1]
        /\ \A k \in 1..Len(Tail(queue)) : Tail(queue)[k] = queue[k + 1] /\ k + 1 \in 1..Len(queue)
        /\ \A j, k \in 1..Len(Tail(queue)) : Tail(queue)[j] = Tail(queue)[k] => j = k
        /\ \A i : (\E k \in 1..Len(Tail(queue)) : Tail(queue)[k] = i) <=> (\E k \in 1..Len(queue) : queue[k] = i) /\ i # m
    BY <2>3, <2>4, Dequeued
  <2>6. InQueue(m) /\ m \in DOMAIN managers
    <3>1. 1 \in 1..Len(queue) /\ queue[1] = m
      BY <2>5
    <3> QED BY <3>1 DEF InQueue, IInv, QueueApart
  <2>7. MgrFiled(m) /\ MgrCounted(m) /\ ~Busy(m) /\ ~Held(m) /\ m \in Nat /\ m # None
    <3>1. MgrFiled(m) /\ MgrCounted(m)
      BY <2>6 DEF IInv
    <3>2. m \in 1..Len(jobs) /\ Len(jobs) \in Nat
      BY <1>1, <2>6 DEF PrintTypes
    <3> QED BY <2>6, <3>1, <3>2 DEF MgrFiled, MgrCounted, None
  <2> HIDE DEF m
  <2>8. jobs[n] \in JobRec
    BY <1>1 DEF PrintTypes
  <2>9. r \in JobRec /\ r.pc = "parms" /\ r.mgr = m /\ r.way = jobs[n].way /\ r.pages = jobs[n].pages
    BY <2>7, <2>8 DEF JobRec, Places
  <2> HIDE DEF r
  <2>10. /\ jobs' \in Seq(JobRec) /\ Len(jobs') = Len(jobs) /\ jobs'[n] = r /\ Len(jobs) \in Nat
         /\ \A k \in 1..Len(jobs) : k # n => jobs'[k] = jobs[k]
    BY <1>1, <2>1, <2>9, JobChanged
  <2>11. PrintTypes'
    BY <1>1, <2>1, <2>5, <2>10 DEF PrintTypes
  <2>12. ASSUME NEW k \in 1..Len(jobs') PROVE JobManaged(k)'
    <3>1. CASE k = n
      BY <1>1, <2>1, <2>6, <2>7, <2>9, <2>10, <3>1 DEF JobManaged, Busy, HoldsAt
    <3>2. CASE k # n
      BY <2>1, <2>10, <2>12, <3>2 DEF IInv, JobManaged, Busy
    <3> QED BY <3>1, <3>2
  <2>13. ASSUME NEW k \in 1..Len(jobs') PROVE JobFiled(k)'
    <3>1. CASE k = n
      BY <1>1, <2>1, <2>9, <2>10, <3>1 DEF JobFiled, Busy
    <3>2. CASE k # n
      BY <1>1, <2>1, <2>10, <2>13, <3>2 DEF IInv, JobFiled, Busy, HasFile
    <3> QED BY <3>1, <3>2
  <2>14. \A k : InQueue(k)' <=> InQueue(k) /\ k # m
    BY <2>1, <2>5 DEF InQueue
  <2>15. ASSUME NEW k \in DOMAIN managers' PROVE MgrFiled(k)'
    <3>1. MgrFiled(k) /\ managers[k].file # n
      BY <1>1, <2>1, <2>15 DEF IInv, MgrFiled, None
    <3> QED BY <2>1, <2>10, <2>14, <3>1 DEF MgrFiled, Busy, HasFile
  <2>16. ASSUME NEW k \in DOMAIN managers' PROVE MgrCounted(k)'
    <3>1. MgrCounted(k) /\ k \in DOMAIN managers /\ (Busy(k)' <=> Busy(k)) /\ managers'[k] = managers[k]
      BY <2>1, <2>16 DEF IInv, Busy
    <3>2. CASE k = m
      <4>1. Held(k)' /\ ~InQueue(k)'
        <5>1. Holds(n, k)'
          BY <2>9, <2>10, <3>2 DEF Holds, HoldsAt
        <5> QED BY <2>10, <2>14, <3>2, <5>1 DEF Held
      <4> QED BY <2>6, <2>7, <3>1, <3>2, <4>1 DEF MgrCounted, Count
    <3>3. CASE k # m
      <4>1. Held(k)' <=> Held(k)
        BY <1>1, <2>9, <2>10, <3>3 DEF Held, Holds, HoldsAt
      <4> QED BY <2>14, <3>1, <3>3, <4>1 DEF MgrCounted, Count
    <3> QED BY <3>2, <3>3
  <2>17. QueueApart'
    BY <2>1, <2>5 DEF IInv, QueueApart
  <2>18. OneHolder'
    <3>1. \A k \in 1..Len(jobs) : ~Holds(k, m)
      BY <2>7 DEF Held
    <3>2. ASSUME NEW j \in 1..Len(jobs'), NEW k \in 1..Len(jobs'), Holds(j, jobs[j].mgr)', Holds(k, jobs[j].mgr)',
                 jobs'[j].mgr # None
          PROVE  j = k
      BY <2>9, <2>10, <3>1, <3>2 DEF IInv, OneHolder, Holds
    <3> QED BY <3>2 DEF OneHolder
  <2>19. PopsQueued'
    <3>1. Popping' = Popping \ {n}
      BY <2>9, <2>10 DEF Popping
    <3> QED BY <1>3, <2>1, <2>2, <2>5, <3>1 DEF IInv, PopsQueued
  <2> QED BY <2>11, <2>12, <2>13, <2>15, <2>16, <2>17, <2>18, <2>19 DEF IInv
<1> QED BY <1>2, <1>3

----------------------------------------------------------------------------
(* The buttons *)

Queued(m) == IF InQueue(m) THEN 1 ELSE 0

(* A job is new, and so are its manager and its file, if it has them; the *)
(* queue may have lost a manager, and the manager a reference with it.    *)
LEMMA JobStarts ==
  ASSUME IInv, NEW r \in JobRec, jobs' = Append(jobs, r), r.mgr = None,
         r.pc \in {"pop", "parms", "done"}, r.pc = "pop" => r.way = "dialog",
         r.pc = "parms" => r.way # "dialog",
         UNCHANGED <<listUp, onDisk>>,
         NEW n, n = Len(jobs) + 1,
         DOMAIN managers \subseteq DOMAIN managers', DOMAIN managers' \subseteq DOMAIN managers \cup {n},
         \A m \in DOMAIN managers' : managers'[m] \in Mgr,
         \A m \in DOMAIN managers : /\ managers'[m].file = managers[m].file
                                    /\ managers'[m].at = managers[m].at
                                    /\ managers'[m].ready = managers[m].ready
                                    /\ managers'[m].refs - Queued(m)' = managers[m].refs - Queued(m)
                                    /\ InQueue(m)' => InQueue(m),
         n \in DOMAIN managers' => /\ managers'[n].file = None /\ managers'[n].at = "idle" /\ managers'[n].ready
                                   /\ managers'[n].refs = Queued(n)',
         queue' \in Seq(Nat), QueueApart',
         listUp => Len(queue') = (IF r.pc = "pop" THEN Len(queue) + 1 ELSE Len(queue)),
         DOMAIN temps \subseteq DOMAIN temps', DOMAIN temps' \subseteq DOMAIN temps \cup {n},
         viewFiles \subseteq viewFiles', viewFiles' \subseteq viewFiles \cup {n},
         \A k \in DOMAIN temps : temps'[k] = temps[k],
         n \in DOMAIN temps' => n \in viewFiles', n \in viewFiles' => r.way = "view"
  PROVE  IInv'
<1>1. /\ jobs' \in Seq(JobRec) /\ Len(jobs') = n /\ jobs'[n] = r /\ Len(jobs) \in Nat
      /\ \A k \in 1..Len(jobs) : jobs'[k] = jobs[k]
  BY JobAdded DEF IInv
<1>2. /\ 1..Len(jobs') = 1..Len(jobs) \cup {n} /\ n \notin 1..Len(jobs) /\ n # None /\ n \in Nat
  BY <1>1 DEF None
<1>3. /\ n \notin DOMAIN managers /\ n \notin DOMAIN temps /\ n \notin viewFiles
  BY <1>2 DEF IInv, PrintTypes
<1>4. PrintTypes'
  BY <1>1, <1>2 DEF IInv, PrintTypes
<1>5. \A m \in DOMAIN managers : Busy(m)' <=> Busy(m)
  BY DEF Busy
<1>6. n \in DOMAIN managers' => ~Busy(n)'
  BY DEF Busy
<1>7. ASSUME NEW k \in 1..Len(jobs) PROVE JobManaged(k)' /\ JobFiled(k)'
  <2>1. JobManaged(k) /\ JobFiled(k) /\ jobs'[k] = jobs[k] /\ k # n
    BY <1>1, <1>2, <1>7 DEF IInv
  <2>2. jobs[k].pc = "print" => jobs[k].mgr # None
    BY <2>1 DEF JobManaged
  <2>3. JobManaged(k)'
    BY <1>5, <2>1, <2>2 DEF JobManaged
  <2>4. HasFile(k) => HasFile(k)'
    BY <2>1 DEF HasFile
  <2>5. (\E j \in DOMAIN managers : managers[j].file = k /\ Busy(j))
          => \E j \in DOMAIN managers' : managers'[j].file = k /\ Busy(j)'
    BY <1>5
  <2>6. (k \in DOMAIN temps' <=> k \in DOMAIN temps) /\ (k \in viewFiles' <=> k \in viewFiles)
    BY <2>1
  <2>7. JobFiled(k)'
    BY <2>1, <2>4, <2>5, <2>6 DEF JobFiled
  <2> QED BY <2>3, <2>7
<1>8. JobManaged(n)' /\ JobFiled(n)'
  BY <1>1, <1>3 DEF JobManaged, JobFiled
<1>9. ASSUME NEW m \in DOMAIN managers' PROVE MgrFiled(m)'
  <2>1. CASE m = n
    BY <1>6, <1>9, <2>1 DEF MgrFiled
  <2>2. CASE m # n
    <3>1. MgrFiled(m) /\ m \in DOMAIN managers /\ (Busy(m)' <=> Busy(m)) /\ managers'[m].file = managers[m].file
          /\ (InQueue(m)' => InQueue(m))
      BY <1>5, <1>9, <2>2 DEF IInv
    <3>2. managers[m].file # None => managers[m].file \in 1..Len(jobs') /\ jobs'[managers[m].file] = jobs[managers[m].file]
      BY <1>1, <1>2, <3>1 DEF MgrFiled
    <3>3. Busy(m) => (HasFile(managers[m].file) => HasFile(managers[m].file)')
      BY <3>1, <3>2 DEF HasFile, MgrFiled
    <3> QED BY <3>1, <3>2, <3>3 DEF MgrFiled
  <2> QED BY <2>1, <2>2
<1>10. \A m \in DOMAIN managers' : ~Holds(n, m)'
  BY <1>1, <1>3 DEF Holds, IInv, PrintTypes, None
<1>11. ASSUME NEW m \in DOMAIN managers' PROVE MgrCounted(m)'
  <2>1. Held(m)' <=> \E k \in 1..Len(jobs) : Holds(k, m)
    BY <1>1, <1>2, <1>10 DEF Held, Holds
  <2>2. CASE m = n
    <3>1. ~Held(m)'
      <4>1. \A k \in 1..Len(jobs) : jobs[k].mgr # n
        BY <1>2, <1>3 DEF IInv, JobManaged
      <4> QED BY <2>1, <2>2, <4>1 DEF Holds
    <3> QED BY <1>6, <2>2, <3>1 DEF MgrCounted, Count, Queued
  <2>3. CASE m # n
    <3>1. MgrCounted(m) /\ m \in DOMAIN managers /\ (Busy(m)' <=> Busy(m)) /\ (Held(m)' <=> Held(m))
          /\ managers[m] \in Mgr /\ managers'[m] \in Mgr
      BY <1>5, <2>1, <2>3 DEF IInv, Held, PrintTypes
    <3>2. managers'[m].refs - Queued(m)' = managers[m].refs - Queued(m)
          /\ managers[m].refs \in Int /\ managers'[m].refs \in Int
          /\ (InQueue(m)' => InQueue(m)) /\ managers'[m].ready = managers[m].ready
      BY <3>1 DEF Mgr
    <3> QED BY <3>1, <3>2 DEF MgrCounted, Count, Queued
  <2> QED BY <2>2, <2>3
<1>12. OneHolder'
  BY <1>1, <1>2 DEF IInv, OneHolder, Holds
<1>13. PopsQueued'
  <2>1. Popping' = IF r.pc = "pop" THEN Popping \cup {n} ELSE Popping
    BY <1>1, <1>2 DEF Popping
  <2>2. n \notin Popping
    BY <1>2 DEF Popping
  <2>3. Cardinality(Popping') = IF r.pc = "pop" THEN Cardinality(Popping) + 1 ELSE Cardinality(Popping)
    <3>1. IsFiniteSet(Popping)
      BY PoppingFinite DEF IInv
    <3> QED BY <2>1, <2>2, <3>1, FS_AddElement
  <2>4. listUp => Len(queue) = Cardinality(Popping)
    BY DEF IInv, PopsQueued
  <2> QED BY <2>3, <2>4 DEF PopsQueued
<1> QED BY <1>2, <1>4, <1>7, <1>8, <1>9, <1>11, <1>12, <1>13 DEF IInv

LEMMA PipesFaxKeeps ==
  ASSUME IInv, PipesFax
  PROVE  IInv'
<1>1. PICK r \in JobRec : jobs' = Append(jobs, r) /\ r.mgr = None /\ r.way = "command" /\ r.pc \in {"parms", "done"}
  <2>1. PICK f \in PrintedFaxes, place \in {"parms", "done"} : jobs' = Append(jobs, Job(place, "command", f))
    BY DEF PipesFax, Shown
  <2> DEFINE r == Job(place, "command", f)
  <2>2. r \in JobRec /\ r.mgr = None /\ r.way = "command" /\ r.pc = place
    BY DEF Job, JobRec, Places, None
  <2>3. jobs' = Append(jobs, r)
    BY <2>1
  <2> HIDE DEF r
  <2> QED BY <2>2, <2>3
<1>2. UNCHANGED <<listUp, onDisk, queue, managers, temps, viewFiles>>
  BY DEF PipesFax
<1>3. PrintTypes /\ QueueApart'
  BY <1>2 DEF IInv, QueueApart
<1>4. Len(jobs) + 1 \notin DOMAIN managers /\ Len(jobs) + 1 \notin DOMAIN temps /\ Len(jobs) + 1 \notin viewFiles
  BY <1>3 DEF PrintTypes
<1>5. \A m : (InQueue(m)' <=> InQueue(m)) /\ Queued(m)' = Queued(m)
  BY <1>2 DEF InQueue, Queued
<1>6. queue \in Seq(Nat) /\ \A m \in DOMAIN managers : managers[m] \in Mgr
  BY <1>3 DEF PrintTypes
<1> QED BY <1>1, <1>2, <1>3, <1>4, <1>5, <1>6, JobStarts

LEMMA ViewsFaxKeeps ==
  ASSUME IInv, ViewsFax
  PROVE  IInv'
<1> DEFINE n == Len(jobs) + 1
<1>1. PICK r \in JobRec : jobs' = Append(jobs, r) /\ r.mgr = None /\ r.way = "view" /\ r.pc \in {"parms", "done"}
  <2>1. PICK f \in PrintedFaxes, place \in {"parms", "done"} : jobs' = Append(jobs, Job(place, "view", f))
    BY DEF ViewsFax, Shown
  <2> DEFINE r == Job(place, "view", f)
  <2>2. r \in JobRec /\ r.mgr = None /\ r.way = "view" /\ r.pc = place
    BY DEF Job, JobRec, Places, None
  <2>3. jobs' = Append(jobs, r)
    BY <2>1
  <2> HIDE DEF r
  <2> QED BY <2>2, <2>3
<1>2. UNCHANGED <<listUp, onDisk, queue, managers>>
  BY DEF ViewsFax
<1>3. PrintTypes /\ QueueApart'
  BY <1>2 DEF IInv, QueueApart
<1>4. n \notin DOMAIN managers /\ n \notin DOMAIN temps /\ n \notin viewFiles
  BY <1>3 DEF PrintTypes
<1>5. \A m : (InQueue(m)' <=> InQueue(m)) /\ Queued(m)' = Queued(m)
  BY <1>2 DEF InQueue, Queued
<1>6. queue \in Seq(Nat) /\ \A m \in DOMAIN managers : managers[m] \in Mgr
  BY <1>3 DEF PrintTypes
<1>7. /\ DOMAIN temps \subseteq DOMAIN temps' /\ DOMAIN temps' \subseteq DOMAIN temps \cup {n}
      /\ viewFiles \subseteq viewFiles' /\ viewFiles' \subseteq viewFiles \cup {n}
      /\ \A k \in DOMAIN temps : temps'[k] = temps[k]
      /\ n \in DOMAIN temps' => n \in viewFiles'
  <2>1. CASE temps' = With(temps, n, {}) /\ viewFiles' = viewFiles \cup {n}
    BY <1>4, <2>1 DEF With
  <2>2. CASE UNCHANGED <<temps, viewFiles>>
    BY <1>4, <2>2
  <2> QED BY <2>1, <2>2 DEF ViewsFax
<1> QED BY <1>1, <1>2, <1>3, <1>4, <1>5, <1>6, <1>7, JobStarts

LEMMA PrintsFaxKeeps ==
  ASSUME IInv, PrintsFax
  PROVE  IInv'
<1>0. PICK n : n = Len(jobs) + 1
  OBVIOUS
<1> DEFINE q  == Append(queue, n)
           ms == With(managers, n, NewManager)
<1>1. PrintTypes /\ QueueApart /\ UNCHANGED <<listUp, onDisk, temps, viewFiles>>
  BY DEF IInv, PrintsFax
<1>2. n \in Nat /\ n # None /\ n \notin DOMAIN managers /\ n \notin DOMAIN temps /\ n \notin viewFiles
  BY <1>0, <1>1 DEF PrintTypes, None
<1>3. PICK r \in JobRec : /\ jobs' = Append(jobs, r) /\ r.mgr = None /\ r.way = "dialog"
                          /\ \/ r.pc = "pop" /\ queue' = q /\ managers' = ms
                             \/ r.pc = "done" /\ StartFails(q, ms)
  <2>1. PICK f \in PrintedFaxes, place \in {"pop", "done"} :
          /\ jobs' = Append(jobs, Job(place, "dialog", f))
          /\ \/ place = "pop" /\ queue' = q /\ managers' = ms
             \/ place = "done" /\ StartFails(q, ms)
    BY <1>0 DEF PrintsFax, Shown
  <2> DEFINE r == Job(place, "dialog", f)
  <2>2. r \in JobRec /\ r.mgr = None /\ r.way = "dialog" /\ r.pc = place
    BY DEF Job, JobRec, Places, None
  <2>3. jobs' = Append(jobs, r)
    BY <2>1
  <2> HIDE DEF r, q, ms
  <2> QED BY <2>1, <2>2, <2>3
<1>4. NewManager \in Mgr /\ NewManager.refs = 1 /\ NewManager.ready = TRUE /\ NewManager.file = None
      /\ NewManager.at = "idle"
  BY DEF NewManager, Mgr, None
<1>5. /\ DOMAIN ms = DOMAIN managers \cup {n} /\ ms[n] = NewManager
      /\ \A m \in DOMAIN managers : ms[m] = managers[m]
  BY <1>2 DEF With
<1>6. \A m \in DOMAIN ms : ms[m] \in Mgr
  BY <1>1, <1>4, <1>5 DEF PrintTypes
<1>7. /\ q \in Seq(Nat) /\ Len(q) = Len(queue) + 1 /\ Len(queue) \in Nat
      /\ q[Len(queue) + 1] = n /\ \A k \in 1..Len(queue) : q[k] = queue[k]
      /\ \A m : (\E k \in 1..Len(q) : q[k] = m) <=> InQueue(m) \/ m = n
  BY <1>1, <1>2, Enqueued DEF PrintTypes, InQueue
<1>8. \A k \in 1..Len(queue) : queue[k] \in DOMAIN managers /\ queue[k] # n
  BY <1>1, <1>2 DEF QueueApart
<1>9. \A j, k \in 1..Len(q) : q[j] = q[k] => j = k
  <2>1. 1..Len(q) = 1..Len(queue) \cup {Len(queue) + 1}
    BY <1>7
  <2> QED BY <1>1, <1>7, <1>8, <2>1 DEF QueueApart
<1>10. \A k \in 1..Len(q) : q[k] \in DOMAIN ms
  <2>1. 1..Len(q) = 1..Len(queue) \cup {Len(queue) + 1}
    BY <1>7
  <2> QED BY <1>5, <1>7, <1>8, <2>1
<1>11. ~InQueue(n)
  BY <1>8 DEF InQueue
<1> HIDE DEF q, ms
<1>12. CASE r.pc = "pop" /\ queue' = q /\ managers' = ms
  <2>1. QueueApart'
    BY <1>9, <1>10, <1>12 DEF QueueApart
  <2>2. \A m : InQueue(m)' <=> InQueue(m) \/ m = n
    BY <1>7, <1>12 DEF InQueue
  <2>3. Queued(n)' = 1 /\ \A m \in DOMAIN managers : Queued(m)' = Queued(m)
    BY <1>2, <2>2 DEF Queued
  <2>4. \A m \in DOMAIN managers : /\ managers'[m].file = managers[m].file
                                   /\ managers'[m].at = managers[m].at
                                   /\ managers'[m].ready = managers[m].ready
                                   /\ managers'[m].refs - Queued(m)' = managers[m].refs - Queued(m)
                                   /\ InQueue(m)' => InQueue(m)
    BY <1>2, <1>5, <1>12, <2>2, <2>3
  <2>5. /\ managers'[n].file = None /\ managers'[n].at = "idle" /\ managers'[n].ready
        /\ managers'[n].refs = Queued(n)'
    BY <1>4, <1>5, <1>12, <2>3
  <2> QED BY <1>0, <1>1, <1>2, <1>3, <1>5, <1>6, <1>7, <1>12, <2>1, <2>4, <2>5, JobStarts
<1>13. CASE r.pc = "done" /\ StartFails(q, ms)
  <2> DEFINE h == Head(q)
  <2>1. q # <<>>
    BY <1>7, EmptySeq
  <2>2. /\ Tail(q) \in Seq(Nat) /\ Len(Tail(q)) = Len(q) - 1 /\ Len(q) \in Nat \ {0} /\ h = q[1]
        /\ \A k \in 1..Len(Tail(q)) : Tail(q)[k] = q[k + 1] /\ k + 1 \in 1..Len(q)
        /\ \A j, k \in 1..Len(Tail(q)) : Tail(q)[j] = Tail(q)[k] => j = k
        /\ \A m : (\E k \in 1..Len(Tail(q)) : Tail(q)[k] = m) <=> (\E k \in 1..Len(q) : q[k] = m) /\ m # h
    BY <1>7, <1>9, <2>1, Dequeued
  <2>3. h \in DOMAIN ms /\ (InQueue(h) \/ h = n)
    <3>1. 1 \in 1..Len(q) /\ h = q[1]
      BY <2>2
    <3> QED BY <1>7, <1>10, <3>1
  <2>4. queue' = Tail(q) /\ managers' = unref(ms, h)
    BY <1>13 DEF StartFails
  <2> HIDE DEF h
  <2>5. PICK x \in Mgr : /\ unref(ms, h) = [ms EXCEPT ![h] = x]
                         /\ x.refs = ms[h].refs - 1 /\ x.ready = ms[h].ready
                         /\ x.file = ms[h].file /\ x.at = ms[h].at
    BY <1>6, <2>3, Unrefs
  <2>6. /\ DOMAIN managers' = DOMAIN ms /\ managers'[h] = x /\ (\A m \in DOMAIN managers' : managers'[m] \in Mgr)
        /\ \A m \in DOMAIN ms : m # h => managers'[m] = ms[m]
    BY <1>6, <2>3, <2>4, <2>5, MgrChanged
  <2>7. QueueApart'
    BY <1>10, <2>2, <2>4, <2>6 DEF QueueApart
  <2>8. \A m : InQueue(m)' <=> (InQueue(m) \/ m = n) /\ m # h
    BY <1>7, <2>2, <2>4 DEF InQueue
  <2>9. ASSUME NEW m \in DOMAIN managers
        PROVE  /\ managers'[m].file = managers[m].file
               /\ managers'[m].at = managers[m].at
               /\ managers'[m].ready = managers[m].ready
               /\ managers'[m].refs - Queued(m)' = managers[m].refs - Queued(m)
               /\ InQueue(m)' => InQueue(m)
    <3>1. m # n /\ ms[m] = managers[m] /\ m \in DOMAIN ms /\ managers[m].refs \in Int
      BY <1>1, <1>2, <1>5 DEF PrintTypes, Mgr
    <3>2. CASE m = h
      BY <2>3, <2>5, <2>6, <2>8, <3>1, <3>2 DEF Queued
    <3>3. CASE m # h
      BY <2>6, <2>8, <3>1, <3>3 DEF Queued
    <3> QED BY <3>2, <3>3
  <2>10. /\ managers'[n].file = None /\ managers'[n].at = "idle" /\ managers'[n].ready
         /\ managers'[n].refs = Queued(n)'
    <3>1. ms[n] = NewManager /\ n \in DOMAIN ms
      BY <1>5
    <3>2. CASE n = h
      BY <1>4, <2>5, <2>6, <2>8, <3>1, <3>2 DEF Queued
    <3>3. CASE n # h
      BY <1>4, <2>6, <2>8, <3>1, <3>3 DEF Queued
    <3> QED BY <3>2, <3>3
  <2>11. queue' \in Seq(Nat) /\ Len(queue') = Len(queue)
    BY <1>7, <2>2, <2>4
  <2> QED BY <1>0, <1>1, <1>2, <1>3, <1>5, <1>13, <2>6, <2>7, <2>9, <2>10, <2>11, JobStarts
<1> QED BY <1>3, <1>12, <1>13

----------------------------------------------------------------------------
(* The dialog and the faxes go *)

LEMMA ListClosesKeeps ==
  ASSUME IInv, ListCloses
  PROVE  IInv'
<1>1. /\ PrintTypes /\ UNCHANGED <<onDisk, jobs>> /\ listUp' = FALSE /\ viewFiles' = {} /\ queue' = <<>>
      /\ temps' = Without(temps, viewFiles)
  BY DEF ListCloses, IInv
<1>2. /\ DOMAIN managers' = DOMAIN managers
      /\ \A m \in DOMAIN managers : managers'[m] = IF InQueue(m) THEN unref(managers, m)[m] ELSE managers[m]
  BY DEF ListCloses, Contains, InQueue
<1>3. \A m \in DOMAIN managers : managers[m] \in Mgr
  BY <1>1 DEF PrintTypes
<1>4. ASSUME NEW m \in DOMAIN managers
      PROVE  /\ managers'[m] \in Mgr /\ managers'[m].ready = managers[m].ready
             /\ managers'[m].file = managers[m].file /\ managers'[m].at = managers[m].at
             /\ managers'[m].refs = managers[m].refs - Queued(m)
  <2>1. CASE InQueue(m)
    <3>1. PICK x \in Mgr : /\ unref(managers, m) = [managers EXCEPT ![m] = x]
                           /\ x.refs = managers[m].refs - 1 /\ x.ready = managers[m].ready
                           /\ x.file = managers[m].file /\ x.at = managers[m].at
      BY <1>3, Unrefs
    <3>2. managers'[m] = x
      BY <1>2, <1>4, <2>1, <3>1
    <3> QED BY <2>1, <3>1, <3>2 DEF Queued
  <2>2. CASE ~InQueue(m)
    <3>1. managers'[m] = managers[m] /\ managers[m] \in Mgr /\ managers[m].refs \in Int
      BY <1>2, <1>3, <2>2 DEF Mgr
    <3> QED BY <2>2, <3>1 DEF Queued
  <2> QED BY <2>1, <2>2
<1>5. /\ DOMAIN temps' = DOMAIN temps \ viewFiles
      /\ \A k \in DOMAIN temps' : temps'[k] = temps[k]
  BY <1>1 DEF Without
<1>6. queue' \in Seq(Nat) /\ Len(queue') = 0 /\ 1..0 = {}
  BY <1>1
<1>7. PrintTypes'
  BY <1>1, <1>2, <1>4, <1>5, <1>6 DEF PrintTypes
<1>8. \A m \in DOMAIN managers : Busy(m)' <=> Busy(m)
  BY <1>4 DEF Busy
<1>9. \A k \in 1..Len(jobs) : jobs[k].way = "dialog" => (k \in DOMAIN temps => k \in DOMAIN temps')
  BY <1>5 DEF IInv, JobFiled
<1>10. ASSUME NEW k \in 1..Len(jobs') PROVE JobManaged(k)' /\ JobFiled(k)'
  <2>1. JobManaged(k) /\ JobFiled(k) /\ k \in 1..Len(jobs)
    BY <1>1, <1>10 DEF IInv
  <2>2. jobs[k].pc = "print" => jobs[k].mgr # None
    BY <2>1 DEF JobManaged
  <2>3. JobManaged(k)'
    BY <1>1, <1>2, <1>4, <1>8, <2>1, <2>2 DEF JobManaged
  <2>4. jobs[k].way = "dialog" => (HasFile(k) => HasFile(k)')
    BY <1>1, <1>5, <1>9, <2>1 DEF HasFile
  <2>5. (\E j \in DOMAIN managers : managers[j].file = k /\ Busy(j))
          => \E j \in DOMAIN managers' : managers'[j].file = k /\ Busy(j)'
    BY <1>2, <1>4, <1>8
  <2>6. JobFiled(k)'
    BY <1>1, <1>5, <1>9, <2>1, <2>4, <2>5 DEF JobFiled, JobManaged
  <2> QED BY <2>3, <2>6
<1>11. \A m : ~InQueue(m)'
  BY <1>6 DEF InQueue
<1>12. ASSUME NEW m \in DOMAIN managers' PROVE MgrFiled(m)' /\ MgrCounted(m)'
  <2>1. MgrFiled(m) /\ MgrCounted(m) /\ m \in DOMAIN managers /\ m # None /\ managers[m] \in Mgr
    BY <1>1, <1>2, <1>3, <1>12 DEF IInv, PrintTypes, None
  <2>2. (Held(m)' <=> Held(m)) /\ (Busy(m)' <=> Busy(m))
    BY <1>1, <1>8, <2>1 DEF Held, Holds
  <2>3. managers[m].file # None => jobs[managers[m].file].way = "dialog" /\ managers[m].file \in 1..Len(jobs)
    <3>1. SUFFICES ASSUME managers[m].file # None
                   PROVE  jobs[managers[m].file].way = "dialog" /\ managers[m].file \in 1..Len(jobs)
      OBVIOUS
    <3>2. managers[m].file \in 1..Len(jobs) /\ jobs[managers[m].file].mgr = m
      BY <2>1, <3>1 DEF MgrFiled
    <3>3. JobManaged(managers[m].file) /\ jobs[managers[m].file] \in JobRec
      BY <1>1, <3>2 DEF IInv, PrintTypes
    <3> QED BY <2>1, <3>2, <3>3 DEF JobManaged
  <2>4. managers[m].file # None => (HasFile(managers[m].file) => HasFile(managers[m].file)')
    BY <1>1, <1>5, <1>9, <2>3, <1>4, <2>1 DEF HasFile
  <2>5. MgrFiled(m)'
    BY <1>1, <1>4, <1>11, <2>1, <2>2, <2>4 DEF MgrFiled
  <2>6. MgrCounted(m)'
    <3>1. managers[m].refs \in Int
      BY <2>1 DEF Mgr
    <3> QED BY <1>4, <1>11, <2>1, <2>2, <3>1 DEF MgrCounted, Count, Queued
  <2> QED BY <2>5, <2>6
<1>13. QueueApart' /\ OneHolder' /\ PopsQueued'
  BY <1>1, <1>6 DEF QueueApart, IInv, OneHolder, Holds, PopsQueued
<1> QED BY <1>7, <1>10, <1>12, <1>13 DEF IInv

LEMMA FaxDeletedKeeps ==
  ASSUME IInv, onDisk' \in [PrintedFaxes -> SUBSET Whole], UNCHANGED <<listUp, jobs, queue, managers, temps, viewFiles>>
  PROVE  IInv'
<1>1. PrintTypes'
  BY DEF IInv, PrintTypes
<1>2. /\ \A n \in 1..Len(jobs') : JobManaged(n)' /\ JobFiled(n)'
      /\ \A m \in DOMAIN managers' : MgrFiled(m)'
  BY DEF IInv, JobManaged, JobFiled, MgrFiled, Busy, HasFile, InQueue
<1>3. \A m \in DOMAIN managers' : MgrCounted(m)'
  BY DEF IInv, MgrCounted, Count, Busy, InQueue, Held, Holds
<1>4. QueueApart' /\ OneHolder' /\ PopsQueued'
  BY DEF IInv, QueueApart, OneHolder, Holds, PopsQueued, Popping
<1> QED BY <1>1, <1>2, <1>3, <1>4 DEF IInv

----------------------------------------------------------------------------
(* The theorems *)

(* A manager is in the queue, with one thread, or at work on the file of one *)
(* job, and its count, the queue and the files agree, whatever the threads,  *)
(* the user and the print system do in whichever order (fax_list.cpp,        *)
(* file_print_manager.cpp).                                                  *)
THEOREM PrintingHolds == SpecPrints => []IInv
<1>1. InitPrints => IInv
  <2>1. SUFFICES ASSUME InitPrints PROVE IInv
    OBVIOUS
  <2>2. Len(jobs) = 0 /\ Len(queue) = 0 /\ 1..0 = {} /\ DOMAIN managers = {} /\ DOMAIN temps = {} /\ viewFiles = {}
        /\ jobs \in Seq(JobRec) /\ queue \in Seq(Nat) /\ listUp \in BOOLEAN /\ onDisk \in [PrintedFaxes -> SUBSET Whole]
    BY <2>1, EmptySeq DEF InitPrints, Whole
  <2>3. PrintTypes
    BY <2>2 DEF PrintTypes
  <2>4. QueueApart /\ OneHolder
    BY <2>2 DEF QueueApart, OneHolder
  <2>5. PopsQueued
    <3>1. Popping = {}
      BY <2>2 DEF Popping
    <3> QED BY <2>2, <3>1, FS_EmptySet DEF PopsQueued
  <2> QED BY <2>2, <2>3, <2>4, <2>5 DEF IInv
<1>2. IInv /\ [NextPrints]_printVars => IInv'
  <2>1. SUFFICES ASSUME IInv, [NextPrints]_printVars PROVE IInv'
    OBVIOUS
  <2>2. DOMAIN jobs = 1..Len(jobs)
    BY <2>1 DEF IInv, PrintTypes
  <2>3. CASE PrintsFax
    BY <2>1, <2>3, PrintsFaxKeeps
  <2>4. CASE PipesFax
    BY <2>1, <2>4, PipesFaxKeeps
  <2>5. CASE ViewsFax
    BY <2>1, <2>5, ViewsFaxKeeps
  <2>6. CASE DeletesFax
    BY <2>1, <2>6, FaxDeletedKeeps DEF DeletesFax, IInv, PrintTypes
  <2>11. CASE UnlinksPage
    BY <2>1, <2>11, FaxDeletedKeeps DEF UnlinksPage, IInv, PrintTypes
  <2>7. CASE ListCloses
    BY <2>1, <2>7, ListClosesKeeps
  <2>8. ASSUME NEW n \in DOMAIN jobs, ThreadSteps(n) PROVE IInv'
    <3>1. n \in 1..Len(jobs)
      BY <2>2
    <3> QED BY <2>1, <2>8, <3>1, PopsKeeps, FindsPagesKeeps, MakesFileKeeps, MakesPageKeeps,
               EndsFileKeeps, StartsViewerKeeps, SetsFilenameKeeps, CallsPrintKeeps, ThreadEndsKeeps DEF ThreadSteps
  <2>9. ASSUME NEW m \in DOMAIN managers, ManagerSteps(m) PROVE IInv'
    BY <2>1, <2>9, ManagerStepsKeep
  <2>10. CASE UNCHANGED printVars
    BY <2>1, <2>10, FaxDeletedKeeps DEF printVars, IInv, PrintTypes
  <2> QED BY <2>1, <2>3, <2>4, <2>5, <2>6, <2>7, <2>8, <2>9, <2>10, <2>11 DEF NextPrints
<1> QED BY <1>1, <1>2, PTL DEF SpecPrints

LEMMA CardinalityAtMostOne ==
  ASSUME NEW S, \A x, y \in S : x = y
  PROVE  Cardinality(S) = IF S = {} THEN 0 ELSE 1
<1>1. CASE S = {}
  BY <1>1, FS_EmptySet
<1>2. CASE S # {}
  <2>1. PICK x : S = {x}
    BY <1>2
  <2> QED BY <1>2, <2>1, FS_Singleton
<1> QED BY <1>1, <1>2

----------------------------------------------------------------------------
(***************************************************************************)
(* What a file holds.  If nothing got lost it holds the pages that efix has *)
(* gone through, the first ones of those found; and of a fax that is still *)
(* whole all pages have been found and can be opened.                      *)
(***************************************************************************)

Finished(n) == \/ jobs[n].pc \in {"viewer", "set", "print", "drop"}
               \/ jobs[n].pc = "done" /\ jobs[n].way = "dialog"
WholeFax(n) == onDisk[jobs[n].fax] = Whole
AllKept(n)  == n \in DOMAIN temps /\ ~jobs[n].cut

HasPages(n) ==
  /\ jobs[n].pages <= PagesOfFax /\ jobs[n].made <= jobs[n].pages
  /\ jobs[n].pc \in {"pop", "parms", "make"} => jobs[n].made = 0
  /\ jobs[n].pc \in {"make", "write"} /\ WholeFax(n) => jobs[n].pages = PagesOfFax
  /\ AllKept(n) => temps[n] = 1..jobs[n].made
  /\ AllKept(n) /\ Finished(n) /\ WholeFax(n) => jobs[n].made = PagesOfFax

PagesKept == \A n \in 1..Len(jobs) : HasPages(n)

(* A step of one thread touches its own job and file. *)
LEMMA OthersPagesStay ==
  ASSUME IInv, PagesKept, NEW n \in 1..Len(jobs), NEW r \in JobRec,
         jobs' = [jobs EXCEPT ![n] = r], UNCHANGED onDisk,
         \A k \in DOMAIN temps' : k # n => k \in DOMAIN temps /\ temps'[k] = temps[k],
         HasPages(n)'
  PROVE  PagesKept'
<1>1. /\ jobs'[n] = r /\ Len(jobs') = Len(jobs)
      /\ \A k \in 1..Len(jobs) : k # n => jobs'[k] = jobs[k]
  BY JobChanged DEF IInv
<1>2. ASSUME NEW k \in 1..Len(jobs), k # n PROVE HasPages(k)'
  BY <1>1, <1>2 DEF PagesKept, HasPages, Finished, WholeFax, AllKept
<1> QED BY <1>1, <1>2 DEF PagesKept

(* A thread that only goes on. *)
LEMMA PagesGo ==
  ASSUME IInv, PagesKept, NEW n \in 1..Len(jobs), NEW place \in Places, Goto(n, place),
         UNCHANGED <<onDisk, temps>>,
         place \notin {"pop", "parms"}, place = "make" => jobs[n].pc = "parms",
         place \in {"make", "write"} /\ WholeFax(n) => jobs[n].pages = PagesOfFax,
         (/\ AllKept(n) /\ WholeFax(n)
          /\ \/ place \in {"viewer", "set", "print", "drop"}
             \/ place = "done" /\ jobs[n].way = "dialog") => jobs[n].made = PagesOfFax
  PROVE  PagesKept'
<1>1. PrintTypes /\ HasPages(n)
  BY DEF IInv, PagesKept
<1>2. PICK r \in JobRec : /\ jobs' = [jobs EXCEPT ![n] = r] /\ r.pc = place
                          /\ r.way = jobs[n].way /\ r.pages = jobs[n].pages
                          /\ r.fax = jobs[n].fax /\ r.made = jobs[n].made /\ r.cut = jobs[n].cut
  BY <1>1, Goes
<1>3. jobs'[n] = r
  BY <1>1, <1>2 DEF PrintTypes
<1>4. HasPages(n)'
  BY <1>1, <1>2, <1>3 DEF HasPages, Finished, WholeFax, AllKept
<1> QED BY <1>2, <1>4, OthersPagesStay

LEMMA ThreadPagesKept ==
  ASSUME IInv, PagesKept, NEW n \in 1..Len(jobs), ThreadSteps(n)
  PROVE  PagesKept'
<1>1. /\ PrintTypes /\ HasPages(n) /\ JobManaged(n) /\ JobFiled(n) /\ jobs[n] \in JobRec
      /\ n \in DOMAIN jobs /\ jobs[n].pages \in Nat /\ jobs[n].made \in Nat /\ PagesOfFax \in Nat
      /\ onDisk[jobs[n].fax] \subseteq Whole
  <2>1. /\ PrintTypes /\ HasPages(n) /\ JobManaged(n) /\ JobFiled(n)
    BY DEF IInv, PagesKept
  <2>2. jobs[n] \in JobRec /\ n \in DOMAIN jobs
    BY <2>1 DEF PrintTypes
  <2>3. jobs[n].pages \in Nat /\ jobs[n].made \in Nat /\ jobs[n].fax \in PrintedFaxes
    BY <2>2 DEF JobRec
  <2>4. onDisk[jobs[n].fax] \subseteq Whole
    BY <2>1, <2>3 DEF PrintTypes
  <2> QED BY <2>1, <2>2, <2>3, <2>4, PrintsAssumption
<1>2. ASSUME Goto(n, "stray"), UNCHANGED <<onDisk, temps>> PROVE PagesKept'
  BY <1>2, PagesGo DEF Places
<1>3. CASE Pops(n)
  <2>1. jobs[n].pc = "pop" /\ UNCHANGED onDisk
    BY <1>3 DEF Pops, At
  <2>2. CASE listUp
    <3> DEFINE r == [jobs[n] EXCEPT !.pc = "parms", !.mgr = Head(queue)]
    <3>1. jobs' = [jobs EXCEPT ![n] = r] /\ UNCHANGED temps
      BY <1>3, <2>2 DEF Pops, UsesDialog
    <3>2. jobs'[n] = r
      BY <1>1, <3>1
    <3>3. r.pc = "parms" /\ r.way = jobs[n].way /\ r.pages = jobs[n].pages
          /\ r.fax = jobs[n].fax /\ r.made = jobs[n].made /\ r.cut = jobs[n].cut
      BY <1>1 DEF JobRec
    <3> HIDE DEF r
    <3>4. HasPages(n)'
      BY <1>1, <2>1, <3>1, <3>2, <3>3 DEF HasPages, Finished, WholeFax, AllKept
    <3>5. jobs' \in Seq(JobRec) /\ Len(jobs') = Len(jobs)
      BY <1>1, <1>3, <3>1, PopsKeeps DEF IInv, PrintTypes
    <3>6. r \in JobRec
      BY <3>2, <3>5
    <3> QED BY <2>1, <3>1, <3>4, <3>6, OthersPagesStay
  <2>3. CASE ~listUp
    BY <1>2, <1>3, <2>1, <2>3 DEF Pops, UsesDialog
  <2> QED BY <2>2, <2>3 DEF IInv, PrintTypes
<1>4. CASE FindsPages(n)
  <2>1. jobs[n].pc = "parms" /\ UNCHANGED <<onDisk, temps>>
    BY <1>4 DEF FindsPages, At
  <2>2. CASE jobs[n].pages + 1 \in onDisk[jobs[n].fax]
    <3> DEFINE r == [jobs[n] EXCEPT !.pages = jobs[n].pages + 1]
    <3>1. jobs' = [jobs EXCEPT ![n] = r]
      BY <1>4, <2>2 DEF FindsPages
    <3>2. r \in JobRec /\ r.pc = "parms" /\ r.way = jobs[n].way /\ r.pages = jobs[n].pages + 1
          /\ r.fax = jobs[n].fax /\ r.made = jobs[n].made /\ r.cut = jobs[n].cut
      BY <1>1, <2>1 DEF JobRec
    <3>3. jobs'[n] = r
      BY <1>1, <3>1
    <3> HIDE DEF r
    <3>4. jobs[n].pages + 1 <= PagesOfFax
      BY <1>1, <2>2 DEF Whole
    <3>5. HasPages(n)'
      BY <1>1, <2>1, <3>2, <3>3, <3>4 DEF HasPages, Finished, WholeFax, AllKept
    <3> QED BY <2>1, <3>1, <3>2, <3>5, OthersPagesStay
  <2>3. CASE jobs[n].pages + 1 \notin onDisk[jobs[n].fax]
    <3>1. WholeFax(n) => jobs[n].pages = PagesOfFax
      BY <1>1, <2>3 DEF WholeFax, Whole, HasPages
    <3>2. PICK place \in {"make", "done", "write"} :
            Goto(n, place) /\ (place = "done" => jobs[n].way = "command")
      BY <1>1, <1>4, <2>3 DEF FindsPages, JobRec
    <3>3. place \in Places
      BY DEF Places
    <3> QED BY <2>1, <3>1, <3>2, <3>3, PagesGo
  <2> QED BY <2>2, <2>3
<1>5. CASE MakesFile(n)
  <2>1. jobs[n].pc = "make" /\ UNCHANGED onDisk
    BY <1>5 DEF MakesFile, At
  <2>2. ASSUME temps' = With(temps, n, {}), Goto(n, "write") PROVE PagesKept'
    <3>1. PICK r \in JobRec : /\ jobs' = [jobs EXCEPT ![n] = r] /\ r.pc = "write"
                              /\ r.way = jobs[n].way /\ r.pages = jobs[n].pages
                              /\ r.fax = jobs[n].fax /\ r.made = jobs[n].made /\ r.cut = jobs[n].cut
      BY <1>1, <2>2, Goes DEF Places
    <3>2. jobs'[n] = r
      BY <1>1, <3>1
    <3>3. /\ temps'[n] = {} /\ 1..0 = {}
          /\ \A k \in DOMAIN temps' : k # n => k \in DOMAIN temps /\ temps'[k] = temps[k]
      BY <2>2 DEF With
    <3>4. HasPages(n)'
      BY <1>1, <2>1, <3>1, <3>2, <3>3 DEF HasPages, Finished, WholeFax, AllKept
    <3> QED BY <2>1, <3>1, <3>3, <3>4, OthersPagesStay
  <2>3. ASSUME Goto(n, "done"), UNCHANGED temps PROVE PagesKept'
    <3>1. n \notin DOMAIN temps
      <4>1. SUFFICES ASSUME n \in DOMAIN temps PROVE FALSE
        OBVIOUS
      <4>2. PICK m \in DOMAIN managers : managers[m].file = n /\ Busy(m)
        BY <1>1, <2>1, <4>1 DEF JobFiled, JobManaged
      <4>3. MgrFiled(m)
        BY DEF IInv
      <4> QED BY <2>1, <4>2, <4>3 DEF MgrFiled
    <3> QED BY <2>1, <2>3, <3>1, PagesGo DEF AllKept, Places
  <2> QED BY <1>2, <1>5, <2>1, <2>2, <2>3 DEF MakesFile, UsesDialog
<1>6. CASE MakesPage(n)
  <2>1. jobs[n].pc = "write" /\ UNCHANGED onDisk /\ jobs[n].made + 1 <= jobs[n].pages
    BY <1>6 DEF MakesPage, At, Opens
  <2>2. PICK lost \in BOOLEAN :
          /\ Makes(n, lost)
          /\ ~lost => temps' = IF n \in DOMAIN temps
                               THEN With(temps, n, temps[n] \cup {jobs[n].made + 1}) ELSE temps
          /\ lost => UNCHANGED temps
    BY <1>6 DEF MakesPage
  <2>10. PICK c \in BOOLEAN : c = (jobs[n].cut \/ lost)
    OBVIOUS
  <2>11. PICK k \in Nat : k = jobs[n].made + 1
    BY <1>1
  <2> DEFINE r == [jobs[n] EXCEPT !.made = k, !.cut = c]
  <2>3. jobs' = [jobs EXCEPT ![n] = r]
    BY <2>2, <2>10, <2>11 DEF Makes
  <2>4. r \in JobRec /\ r.pc = "write" /\ r.way = jobs[n].way /\ r.pages = jobs[n].pages
        /\ r.fax = jobs[n].fax /\ r.made = jobs[n].made + 1 /\ r.cut = c
    <3>1. jobs[n] \in JobRec /\ jobs[n].pc = "write"
      BY <1>1, <2>1
    <3>2. r \in JobRec /\ r.pc = "write" /\ r.way = jobs[n].way /\ r.pages = jobs[n].pages
          /\ r.fax = jobs[n].fax /\ r.made = k /\ r.cut = c
      BY ONLY <3>1, k \in Nat, c \in BOOLEAN DEF JobRec
    <3> QED BY <2>11, <3>2
  <2>5. jobs'[n] = r
    BY <1>1, <2>3
  <2> HIDE DEF r
  <2>6. /\ DOMAIN temps' = DOMAIN temps
        /\ \A j \in DOMAIN temps : j # n => temps'[j] = temps[j]
        /\ ~lost /\ n \in DOMAIN temps => temps'[n] = temps[n] \cup {jobs[n].made + 1}
    BY <2>2 DEF With
  <2>7. (1..jobs[n].made) \cup {jobs[n].made + 1} = 1..(jobs[n].made + 1)
    BY <1>1
  <2>8. AllKept(n)' => temps'[n] = 1..r.made
    <3>1. SUFFICES ASSUME AllKept(n)' PROVE temps'[n] = 1..r.made
      OBVIOUS
    <3>2. n \in DOMAIN temps /\ ~c
      BY <2>4, <2>5, <2>6, <3>1 DEF AllKept
    <3>3. ~lost /\ ~jobs[n].cut
      BY <2>10, <3>2
    <3>4. temps[n] = 1..jobs[n].made
      BY <1>1, <3>2, <3>3 DEF AllKept, HasPages
    <3> QED BY <2>4, <2>6, <2>7, <3>2, <3>3, <3>4
  <2>9. HasPages(n)'
    BY <1>1, <2>1, <2>4, <2>5, <2>8 DEF HasPages, Finished, WholeFax
  <2> QED BY <2>1, <2>3, <2>4, <2>6, <2>9, OthersPagesStay
<1>7. CASE EndsFile(n)
  <2> DEFINE place == IF jobs[n].way = "view" THEN "viewer" ELSE "set"
             r     == [jobs[n] EXCEPT !.pc = place, !.cut = TRUE]
  <2>1. jobs[n].pc = "write" /\ UNCHANGED <<onDisk, temps>> /\ place \in {"viewer", "set"}
    BY <1>7 DEF EndsFile, At
  <2>2. CASE Written(n) /\ Goto(n, place)
    <3>1. WholeFax(n) => jobs[n].pages = PagesOfFax
      BY <1>1, <2>1 DEF HasPages
    <3>2. WholeFax(n) => jobs[n].made = PagesOfFax
      BY <1>1, <2>2, <3>1 DEF Written, Opens, WholeFax, Whole, HasPages
    <3> HIDE DEF place
    <3>3. place \in Places
      BY <2>1 DEF Places
    <3> QED BY <2>1, <2>2, <3>2, <3>3, PagesGo
  <2>3. CASE jobs' = [jobs EXCEPT ![n] = [@ EXCEPT !.pc = place, !.cut = TRUE]]
    <3>1. jobs' = [jobs EXCEPT ![n] = r]
      BY <2>3
    <3>2. r \in JobRec /\ r.pc = place /\ r.way = jobs[n].way /\ r.pages = jobs[n].pages
          /\ r.fax = jobs[n].fax /\ r.made = jobs[n].made /\ r.cut
      BY <1>1, <2>1 DEF JobRec, Places
    <3>3. jobs'[n] = r
      BY <1>1, <3>1
    <3> HIDE DEF r, place
    <3>4. HasPages(n)'
      BY <1>1, <2>1, <3>2, <3>3 DEF HasPages, Finished, WholeFax, AllKept
    <3> QED BY <2>1, <3>1, <3>2, <3>4, OthersPagesStay
  <2> QED BY <1>7, <2>2, <2>3 DEF EndsFile
<1>8. CASE StartsViewer(n)
  <2>1. jobs[n].pc = "viewer" /\ Goto(n, "done") /\ UNCHANGED <<onDisk, temps>> /\ jobs[n].way = "view"
    BY <1>1, <1>8 DEF StartsViewer, At, JobManaged
  <2> QED BY <2>1, PagesGo DEF Places
<1>9. ASSUME NEW place \in {"print", "drop", "done"}, jobs[n].pc \in {"set", "print", "drop"},
             Goto(n, place), UNCHANGED <<onDisk, temps>>
      PROVE  PagesKept'
  <2>1. AllKept(n) /\ WholeFax(n) => jobs[n].made = PagesOfFax
    BY <1>1, <1>9 DEF HasPages, Finished
  <2>2. place \in Places
    BY DEF Places
  <2> QED BY <1>9, <2>1, <2>2, PagesGo
<1>10. CASE SetsFilename(n) \/ CallsPrint(n) \/ ThreadEnds(n)
  BY <1>9, <1>10 DEF SetsFilename, CallsPrint, ThreadEnds, At
<1> QED BY <1>3, <1>4, <1>5, <1>6, <1>7, <1>8, <1>10 DEF ThreadSteps

(* A new job has an empty file or none. *)
LEMMA NewJobHasNone ==
  ASSUME IInv, PagesKept, NEW place \in Places, NEW way \in {"dialog", "command", "view"},
         NEW f \in PrintedFaxes, jobs' = Append(jobs, Job(place, way, f)),
         place \in {"pop", "parms", "done"}, UNCHANGED onDisk,
         \/ UNCHANGED temps
         \/ way = "view" /\ temps' = With(temps, Len(jobs) + 1, {})
  PROVE  PagesKept'
<1>1. PrintTypes
  BY DEF IInv
<1>0. PICK n : n = Len(jobs) + 1
  OBVIOUS
<1> DEFINE r == Job(place, way, f)
<1>2. r \in JobRec /\ r.pc = place /\ r.way = way /\ r.pages = 0 /\ r.made = 0 /\ ~r.cut
  BY DEF Job, JobRec, None
<1>3. jobs' = Append(jobs, r)
  OBVIOUS
<1> HIDE DEF r
<1>4. /\ Len(jobs') = n /\ jobs'[n] = r /\ Len(jobs) \in Nat /\ 1..Len(jobs') = 1..Len(jobs) \cup {n}
      /\ \A k \in 1..Len(jobs) : jobs'[k] = jobs[k] /\ k # n
  BY <1>0, <1>1, <1>2, <1>3, JobAdded
<1>5. n \notin DOMAIN temps
  BY <1>1, <1>4 DEF PrintTypes
<1>6. /\ \A k \in DOMAIN temps : k \in DOMAIN temps' /\ temps'[k] = temps[k]
      /\ DOMAIN temps' \subseteq DOMAIN temps \cup {n}
      /\ n \in DOMAIN temps' => temps'[n] = {} /\ way = "view"
  BY <1>0, <1>5 DEF With
<1>7. \A k \in 1..Len(jobs) : HasPages(k)'
  BY <1>4, <1>6 DEF PagesKept, HasPages, Finished, WholeFax, AllKept
<1>8. 0 <= PagesOfFax /\ 1..0 = {}
  BY PrintsAssumption
<1>9. HasPages(n)'
  <2>1. /\ jobs'[n].pages <= PagesOfFax /\ jobs'[n].made <= jobs'[n].pages /\ jobs'[n].made = 0
    BY <1>2, <1>4, <1>8
  <2>2. jobs'[n].pc \notin {"make", "write"}
    BY <1>2, <1>4
  <2>3. n \in DOMAIN temps' => temps'[n] = 1..jobs'[n].made
    BY <1>6, <1>8, <2>1
  <2>4. n \in DOMAIN temps' => ~Finished(n)'
    BY <1>2, <1>4, <1>6 DEF Finished
  <2> QED BY <2>1, <2>2, <2>3, <2>4 DEF HasPages, AllKept
<1> QED BY <1>4, <1>7, <1>9 DEF PagesKept

(* The list, the managers and a deletion take files and pages away. *)
LEMMA FewerPages ==
  ASSUME IInv, PagesKept, UNCHANGED jobs,
         \A k \in DOMAIN temps' : k \in DOMAIN temps /\ temps'[k] = temps[k],
         \A f \in PrintedFaxes : onDisk'[f] = Whole => onDisk[f] = Whole
  PROVE  PagesKept'
<1>1. ASSUME NEW n \in 1..Len(jobs) PROVE HasPages(n)'
  <2>1. jobs[n] \in JobRec /\ HasPages(n)
    BY DEF IInv, PrintTypes, PagesKept
  <2>2. jobs[n].fax \in PrintedFaxes
    BY <2>1 DEF JobRec
  <2> QED BY <2>1, <2>2 DEF HasPages, Finished, WholeFax, AllKept
<1> QED BY <1>1 DEF PagesKept

LEMMA PagesHold == SpecPrints => []PagesKept
<1>1. InitPrints => PagesKept
  BY DEF InitPrints, PagesKept
<1>2. IInv /\ PagesKept /\ [NextPrints]_printVars => PagesKept'
  <2>1. SUFFICES ASSUME IInv, PagesKept, [NextPrints]_printVars PROVE PagesKept'
    OBVIOUS
  <2>2. CASE PrintsFax
    <3>1. PICK f \in PrintedFaxes, place \in {"pop", "done"} :
            jobs' = Append(jobs, Job(place, "dialog", f)) /\ UNCHANGED <<onDisk, temps>>
      BY <2>2 DEF PrintsFax, Shown
    <3> QED BY <2>1, <3>1, NewJobHasNone DEF Places
  <2>3. CASE PipesFax
    <3>1. PICK f \in PrintedFaxes, place \in {"parms", "done"} :
            jobs' = Append(jobs, Job(place, "command", f)) /\ UNCHANGED <<onDisk, temps>>
      BY <2>3 DEF PipesFax, Shown
    <3> QED BY <2>1, <3>1, NewJobHasNone DEF Places
  <2>4. CASE ViewsFax
    <3>1. PICK f \in PrintedFaxes, place \in {"parms", "done"} :
            /\ jobs' = Append(jobs, Job(place, "view", f)) /\ UNCHANGED onDisk
            /\ UNCHANGED temps \/ temps' = With(temps, Len(jobs) + 1, {})
      BY <2>4 DEF ViewsFax, Shown
    <3> QED BY <2>1, <3>1, NewJobHasNone DEF Places
  <2>5. CASE DeletesFax
    BY <2>1, <2>5, FewerPages DEF DeletesFax
  <2>6. CASE UnlinksPage
    <3>1. PICK f \in deleting : \E p \in onDisk[f] :
            onDisk' = [onDisk EXCEPT ![f] = onDisk[f] \ {p}] /\ UNCHANGED <<jobs, temps>>
      BY <2>6 DEF UnlinksPage
    <3>4. PICK p \in onDisk[f] :
            onDisk' = [onDisk EXCEPT ![f] = onDisk[f] \ {p}] /\ UNCHANGED <<jobs, temps>>
      BY <3>1
    <3>2. onDisk \in [PrintedFaxes -> SUBSET Whole]
      BY <2>1 DEF IInv, PrintTypes
    <3>3. \A g \in PrintedFaxes : onDisk'[g] = Whole => onDisk[g] = Whole
      BY <3>2, <3>4
    <3> QED BY <2>1, <3>3, <3>4, FewerPages
  <2>7. CASE ListCloses
    BY <2>1, <2>7, FewerPages DEF ListCloses, Without
  <2>8. ASSUME NEW n \in DOMAIN jobs, ThreadSteps(n) PROVE PagesKept'
    BY <2>1, <2>8, ThreadPagesKept DEF IInv, PrintTypes
  <2>9. ASSUME NEW m \in DOMAIN managers, ManagerSteps(m) PROVE PagesKept'
    <3>1. UNCHANGED <<jobs, onDisk>> /\ \A k \in DOMAIN temps' : k \in DOMAIN temps /\ temps'[k] = temps[k]
      BY <2>9 DEF ManagerSteps, ShowsDialog, Rejected, Accepted, JobCompletes, Cancelled, CleansUp, Without
    <3> QED BY <2>1, <3>1, FewerPages
  <2>10. CASE UNCHANGED printVars
    BY <2>1, <2>10, FewerPages DEF printVars
  <2> QED BY <2>1, <2>2, <2>3, <2>4, <2>5, <2>6, <2>7, <2>8, <2>9, <2>10 DEF NextPrints
<1> QED BY <1>1, <1>2, PrintingHolds, PTL DEF SpecPrints

(* The count of a manager is the number of those who hold it, AsyncQueue is  *)
(* never popped empty, no two managers print one file, a temporary file is   *)
(* there exactly while it is needed, and it is printed or viewed with all    *)
(* pages of a fax that is not deleted meanwhile if nothing failed (print(),  *)
(* show_dialog(), print_file(), clean_up(), ~FaxListDialog(), efix).         *)
THEOREM FilesAndManagersKept == SpecPrints => []PrintsKept
<1>1. IInv /\ PagesKept => PrintsKept
  <2>1. SUFFICES ASSUME IInv, PagesKept PROVE PrintsKept
    OBVIOUS
  <2>2. PrintTypes /\ DOMAIN jobs = 1..Len(jobs) /\ DOMAIN queue = 1..Len(queue)
    BY <2>1 DEF IInv, PrintTypes
  <2>3. ASSUME NEW m \in DOMAIN managers
        PROVE  managers[m].refs = Entries(m) + Cardinality(Holders(m)) + (IF managers[m].at = "idle" THEN 0 ELSE 1)
    <3>1. MgrCounted(m) /\ m # None
      BY <2>1, <2>2, <2>3 DEF IInv, PrintTypes, None
    <3>2. Entries(m) = IF InQueue(m) THEN 1 ELSE 0
      <4> DEFINE S == {k \in DOMAIN queue : queue[k] = m}
      <4>1. \A j, k \in S : j = k
        BY <2>1, <2>2 DEF IInv, QueueApart
      <4>2. S = {} <=> ~InQueue(m)
        BY <2>2 DEF InQueue
      <4> QED BY <4>1, <4>2, CardinalityAtMostOne DEF Entries
    <3>3. Cardinality(Holders(m)) = IF Held(m) THEN 1 ELSE 0
      <4>1. Holders(m) = {n \in 1..Len(jobs) : Holds(n, m)}
        BY <2>2 DEF Holders, Holds, HoldsAt
      <4>2. \A n, k \in Holders(m) : n = k
        BY <2>1, <3>1, <4>1 DEF IInv, OneHolder, Holds
      <4>3. Holders(m) = {} <=> ~Held(m)
        BY <4>1 DEF Held
      <4> QED BY <4>2, <4>3, CardinalityAtMostOne
    <3> QED BY <3>1, <3>2, <3>3 DEF MgrCounted, Count, Busy
  <2>4. CountsHolders
    BY <2>3 DEF CountsHolders
  <2>5. QueueSuffices
    <3>1. {n \in DOMAIN jobs : jobs[n].pc = "pop"} = Popping
      BY <2>2 DEF Popping
    <3> QED BY <2>1, <3>1 DEF IInv, PopsQueued, QueueSuffices
  <2>6. OneManagerEach
    BY <2>1 DEF IInv, MgrFiled, Busy, OneManagerEach
  <2>7. TempFilesRemoved
    <3>1. ASSUME NEW n \in DOMAIN temps
          PROVE  \/ jobs[n].way = "view" /\ n \in viewFiles
                 \/ jobs[n].pc \in {"write", "set", "print", "stray"}
                 \/ \E m \in DOMAIN managers : managers[m].file = n /\ managers[m].at # "idle"
      <4>1. JobFiled(n)
        BY <2>1, <2>2, <3>1 DEF IInv, PrintTypes
      <4> QED BY <3>1, <4>1 DEF JobFiled, Busy
    <3>2. ASSUME NEW n \in 1..Len(jobs), n \in DOMAIN temps, Finished(n) PROVE HoldsFax(n)
      <4>1. HasPages(n) /\ jobs[n].made \in Nat /\ jobs[n].pages \in Nat /\ PagesOfFax \in Nat
        <5>1. jobs[n] \in JobRec /\ HasPages(n)
          BY <2>1, <2>2 DEF PagesKept, PrintTypes
        <5> QED BY <5>1, PrintsAssumption DEF JobRec
      <4>2. jobs[n].made \in 0..PagesOfFax
        BY <4>1 DEF HasPages
      <4> QED BY <3>2, <4>1, <4>2 DEF HasPages, HoldsFax, AllKept, WholeFax
    <3>3. ASSUME NEW n \in DOMAIN temps, jobs[n].pc = "viewer" PROVE HoldsFax(n)
      BY <2>2, <3>2, <3>3 DEF PrintTypes, Finished
    <3>4. ASSUME NEW m \in DOMAIN managers, managers[m].at # "idle"
          PROVE  managers[m].file \in DOMAIN temps /\ HoldsFax(managers[m].file)
      <4>1. MgrFiled(m) /\ m # None
        BY <2>1, <2>2, <3>4 DEF IInv, PrintTypes, None
      <4> DEFINE n == managers[m].file
      <4>2. n \in 1..Len(jobs) /\ n \in DOMAIN temps /\ jobs[n].mgr = m /\ jobs[n].pc \in {"drop", "done"}
        BY <3>4, <4>1 DEF MgrFiled, Busy, HasFile
      <4> HIDE DEF n
      <4>3. JobManaged(n) /\ jobs[n] \in JobRec
        BY <2>1, <2>2, <4>2 DEF IInv, PrintTypes
      <4>4. Finished(n)
        BY <4>1, <4>2, <4>3 DEF JobManaged, Finished
      <4> QED BY <3>2, <4>2, <4>4 DEF n
    <3> QED BY <3>1, <3>3, <3>4 DEF TempFilesRemoved
  <2> QED BY <2>4, <2>5, <2>6, <2>7 DEF PrintsKept, ManagersHeld
<1> QED BY <1>1, PrintingHolds, PagesHold, PTL

-----------------------------------------------------------------------------
(***************************************************************************)
(* For any number of faxes and pages, any names and any failures: no page  *)
(* received is lost, no directory holds two faxes, and a fax received to   *)
(* its end is never in pieces.  The argument is that nothing is unlinked   *)
(* from faxin/current before all of it is linked elsewhere (Moving), and   *)
(* that while an efax writes there, only its own pages are there (Writing). *)
(***************************************************************************)

(* The pages of an efax that runs are all in current, and no others.  The  *)
(* file that it has open keeps a name while the efax dies.                 *)
Writing ==
  /\ efax = "running" => pc = "session" /\ exists
  /\ efax = "running" /\ page = 0 => current = {}
  /\ efax = "running" /\ page > 0 =>
       /\ Open \in current
       /\ \A x \in current : x[1] = fax /\ x[2] <= page
       /\ PagesOf(fax) \subseteq current
  /\ efax # "none" /\ page > 0 => Open \in (current \cup Filed) /\ fax \notin whole

(* What is on the disk is of calls that were answered; current holds one   *)
(* fax; a directory not yet made is empty.                                 *)
OnDisk ==
  /\ \A x \in data \cup current : x[1] <= fax
  /\ \A f \in whole : f <= fax
  /\ \A x, y \in current : x[1] = y[1]
  /\ \A n \in Names \ dirs : saved[n] = {}

(* The directory may be made again only when nothing is in it.             *)
Vacant == ~exists => current = {}

(* A move fills a directory that was empty from a list of one fax, and     *)
(* current is whole until the last link is made.                           *)
Moving ==
  /\ pc = "zero" => efax = "none" /\ \A x \in current : x[2] = 1 => x \notin data
  /\ pc = "opendir" => name \in dirs /\ saved[name] = {}
  /\ pc = "move" =>
       /\ name \in dirs /\ saved[name] \subseteq list
       /\ \A x, y \in list : x[1] = y[1]
       /\ current \subseteq list
       /\ list \subseteq saved[name] \/ list = current

Kept == Writing /\ OnDisk /\ Vacant /\ Moving /\ NothingLost /\ OneFaxEach /\ KeptTogether

ReceivedInv == TypeOK /\ Kept

LEMMA FiledIn == \A x : x \in Filed <=> \E n \in dirs : x \in saved[n]
BY DEF Filed

LEMMA InitKept == Init => ReceivedInv
<1> SUFFICES ASSUME Init PROVE ReceivedInv
  OBVIOUS
<1>1. TypeOK
  <2>1. 0 \in 0..MaxFaxes /\ 0 \in 0..MaxPages
    BY StoreAssumption
  <2> QED BY <2>1 DEF Init, TypeOK
<1>2. Writing /\ OnDisk /\ Vacant /\ Moving
  BY DEF Init, Writing, OnDisk, Vacant, Moving
<1>3. NothingLost /\ OneFaxEach /\ KeptTogether
  BY DEF Init, NothingLost, OneFaxEach, KeptTogether
<1> QED BY <1>1, <1>2, <1>3 DEF ReceivedInv, Kept

----------------------------------------------------------------------------
(* Steps of the receiving efax.                                            *)

\* What efax writes and opens is of the call it is in, and within current.
LEMMA EfaxTypes ==
  ASSUME ReceivedInv, Receive \/ Efax
  PROVE  TypeOK'
<1> USE StoreAssumption DEF ReceivedInv
<1>1. CASE Receive
  BY <1>1 DEF TypeOK, Receive, moving
<1>2. CASE AnswersCall
  <2>1. fax + 1 \in 1..MaxFaxes /\ 1 \in 1..MaxPages
    BY <1>2 DEF TypeOK, AnswersCall
  <2>2. <<fax + 1, 1>> \in Pages
    BY <2>1 DEF Pages
  <2>3. current' \subseteq Pages
    BY <1>2, <2>2 DEF AnswersCall, Opened, TypeOK
  <2> QED BY <1>2, <2>1, <2>3 DEF TypeOK, AnswersCall, process, moving
<1>3. ASSUME efax # "none", page > 0 PROVE Open \in Pages
  BY <1>3 DEF TypeOK, Kept, Writing, NothingLost, Filed
<1>4. CASE WritesPage
  BY <1>3, <1>4 DEF TypeOK, WritesPage, Flushed, process, line, moving
<1>5. CASE NextPage
  <2>1. fax \in 1..MaxFaxes /\ page + 1 \in 1..MaxPages /\ page > 0 /\ Open \in Pages
    BY <1>3, <1>5 DEF TypeOK, NextPage, Pages, Open
  <2>2. <<fax, page + 1>> \in Pages
    BY <2>1 DEF Pages
  <2>3. current' \subseteq Pages /\ data' \subseteq Pages
    BY <1>5, <2>1, <2>2 DEF NextPage, Opened, Flushed, TypeOK
  <2> QED BY <1>5, <2>1, <2>3 DEF TypeOK, NextPage, process, moving
<1>6. CASE EfaxEnds
  <2>1. page > 0 => Open \in Pages /\ fax \in 1..MaxFaxes
    BY <1>3, <1>6 DEF TypeOK, EfaxEnds, Pages, Open
  <2>2. current' \subseteq Pages /\ data' \subseteq Pages /\ whole' \subseteq 1..MaxFaxes
    <3>1. CASE page > 1
      <4>1. current' = current \ {Open} /\ data' = data \ {Open} /\ whole' = whole \cup {fax}
        BY <1>6, <3>1 DEF EfaxEnds
      <4> QED BY <2>1, <3>1, <4>1 DEF TypeOK
    <3>2. CASE page = 1
      <4>1. ~(page > 1)
        BY <3>2
      <4>2. current' = current /\ data' = Flushed /\ whole' = whole
        BY <1>6, <3>2, <4>1 DEF EfaxEnds
      <4> QED BY <2>1, <3>2, <4>2 DEF Flushed, TypeOK
    <3>3. CASE page = 0
      <4>1. ~(page > 1) /\ page # 1
        BY <3>3
      <4>2. current' = current /\ data' = data /\ whole' = whole
        BY <1>6, <4>1 DEF EfaxEnds
      <4> QED BY <4>2 DEF TypeOK
    <3> QED BY <3>1, <3>2, <3>3 DEF TypeOK
  <2> QED BY <1>6, <2>2 DEF TypeOK, EfaxEnds, process, moving
<1>7. CASE EfaxKilled
  <2>1. data' \subseteq Pages
    BY <1>3, <1>7 DEF EfaxKilled, Flushed, TypeOK
  <2> QED BY <1>7, <2>1 DEF TypeOK, EfaxKilled, process, moving
<1> QED BY <1>1, <1>2, <1>4, <1>5, <1>6, <1>7 DEF Efax

LEMMA EfaxKeeps ==
  ASSUME ReceivedInv, Receive \/ Efax
  PROVE  Kept'
<1> USE DEF ReceivedInv
<1>1. CASE Receive
  BY <1>1 DEF TypeOK, Receive, MayReceive, moving, Kept, Writing, OnDisk, Vacant, Moving, NothingLost,
    OneFaxEach, KeptTogether, PagesOf, Filed
<1>2. CASE AnswersCall
  <2>1. /\ current = {} /\ current' = {<<fax + 1, 1>>} /\ fax' = fax + 1 /\ page' = 1
        /\ fax \in Nat /\ pc = "session" /\ exists
        /\ UNCHANGED <<process, efax, whole, exists, data, dirs, saved, moving>>
    BY <1>2 DEF AnswersCall, Opened, TypeOK, Kept, Writing
  <2>2. NothingLost' /\ OneFaxEach' /\ Moving'
    BY <2>1 DEF Kept, NothingLost, OneFaxEach, Moving, Filed, process, moving
  <2>3. PagesOf(fax + 1) = {} /\ PagesOf(fax + 1)' = {} /\ fax + 1 \notin whole
    BY <2>1 DEF Kept, OnDisk, PagesOf, TypeOK
  <2>4. Writing'
    BY <2>1, <2>3 DEF Writing, process, Open, PagesOf
  <2>5. OnDisk' /\ Vacant'
    <3>1. \A x \in data' \cup current' : x[1] <= fax'
      BY <2>1 DEF Kept, OnDisk, TypeOK, Pages
    <3>2. \A f \in whole' : f <= fax'
      BY <2>1 DEF Kept, OnDisk, TypeOK
    <3> QED BY <2>1, <3>1, <3>2 DEF Kept, OnDisk, Vacant
  <2>6. KeptTogether'
    BY <2>1 DEF Kept, KeptTogether, PagesOf
  <2> QED BY <2>2, <2>4, <2>5, <2>6 DEF Kept
<1>3. ASSUME efax # "none", page > 0
      PROVE  /\ Open \in current \cup Filed /\ Open[1] = fax /\ fax \notin whole
             /\ fax \in Nat /\ page \in Nat
  BY <1>3 DEF TypeOK, Kept, Writing, Open
\* What a step that flushes the open page, and neither opens nor removes one, keeps.
<1>4. ASSUME page > 0, efax # "none", data' = Flushed,
             UNCHANGED <<process, fax, page, whole, exists, current, dirs, saved, moving>>
      PROVE  /\ NothingLost' /\ OneFaxEach' /\ KeptTogether' /\ OnDisk' /\ Vacant'
             /\ PagesOf(fax)' \subseteq PagesOf(fax) \cup {Open}
  <2>1. data' = data \cup {Open} /\ Open' = Open
    BY <1>4 DEF Flushed, Open
  <2>2. NothingLost' /\ OneFaxEach'
    BY <1>3, <1>4, <2>1 DEF Kept, NothingLost, OneFaxEach, Filed
  <2>3. \A f \in whole : PagesOf(f)' = PagesOf(f)
    BY <1>3, <1>4, <2>1 DEF PagesOf
  <2>4. KeptTogether'
    BY <1>4, <2>3 DEF Kept, KeptTogether
  <2>5. OnDisk' /\ Vacant'
    BY <1>3, <1>4, <2>1 DEF Kept, OnDisk, Vacant
  <2> QED BY <1>4, <2>1, <2>2, <2>4, <2>5 DEF PagesOf
<1>5. CASE WritesPage
  <2>1. /\ page > 0 /\ efax = "running" /\ data' = Flushed
        /\ UNCHANGED <<process, line, exists, current, dirs, saved, moving>>
    BY <1>5 DEF WritesPage
  <2>2. Writing'
    BY <1>4, <2>1 DEF Kept, Writing, process, line, Open, Filed
  <2>3. Moving'
    BY <2>1 DEF Kept, Writing, Moving, process, moving
  <2> QED BY <1>4, <2>1, <2>2, <2>3 DEF Kept, line
<1>6. CASE NextPage
  <2>1. /\ efax = "running" /\ pc = "session" /\ page > 0 /\ page' = page + 1
        /\ data' = data \cup {Open} /\ current' = current \cup {<<fax, page + 1>>}
        /\ UNCHANGED <<process, efax, fax, whole, exists, dirs, saved, moving>>
    BY <1>3, <1>6 DEF NextPage, Flushed, Opened, TypeOK, Kept, Writing
  <2>2. /\ Open \in current /\ Open[1] = fax /\ fax \notin whole /\ fax \in Nat
        /\ exists /\ \A x \in current : x[1] = fax /\ x[2] <= page
    BY <1>3, <2>1 DEF Kept, Writing
  <2>3. PagesOf(fax)' \subseteq current'
    BY <2>1, <2>2 DEF Kept, Writing, PagesOf
  <2>4. Writing'
    <3>1. Open' = <<fax, page + 1>> /\ Open' \in current'
      BY <2>1 DEF Open
    <3>2. \A x \in current' : x[1] = fax /\ x[2] <= page + 1
      BY <1>3, <2>1, <2>2 DEF TypeOK, Pages
    <3> QED BY <1>3, <2>1, <2>2, <2>3, <3>1, <3>2 DEF Writing, process
  <2>5. NothingLost' /\ OneFaxEach' /\ Moving'
    BY <2>1, <2>2 DEF Kept, NothingLost, OneFaxEach, Moving, Filed, process, moving
  <2>6. OnDisk' /\ Vacant'
    BY <2>1, <2>2 DEF Kept, OnDisk, Vacant
  <2>7. \A f \in whole : PagesOf(f)' = PagesOf(f)
    BY <2>1, <2>2 DEF PagesOf
  <2>8. KeptTogether'
    BY <2>1, <2>7 DEF Kept, KeptTogether
  <2> QED BY <2>4, <2>5, <2>6, <2>8 DEF Kept
<1>7. CASE EfaxEnds
  <2>1. /\ efax = "running" /\ efax' = "none" /\ pc = "session" /\ exists
        /\ UNCHANGED <<process, fax, page, exists, dirs, saved, moving>>
    BY <1>7 DEF EfaxEnds, Kept, Writing
  <2>2. Writing' /\ Vacant' /\ Moving' /\ OneFaxEach'
    BY <2>1 DEF Writing, Vacant, Moving, OneFaxEach, process, Kept
  <2>3. CASE page > 1
    <3>1. /\ current' = current \ {Open} /\ data' = data \ {Open}
          /\ whole' = whole \cup {fax}
      BY <1>7, <2>3 DEF EfaxEnds
    <3>2. /\ fax \notin whole /\ Open[1] = fax /\ fax \in Nat
          /\ PagesOf(fax) \subseteq current
      BY <1>3, <2>1, <2>3 DEF Kept, Writing, TypeOK
    <3>3. NothingLost'
      BY <2>1, <3>1 DEF Kept, NothingLost, Filed
    <3>4. OnDisk'
      BY <2>1, <3>1, <3>2 DEF Kept, OnDisk
    <3>5. \A f \in whole : PagesOf(f)' = PagesOf(f)
      BY <3>1, <3>2 DEF PagesOf
    <3>6. PagesOf(fax)' \subseteq current'
      BY <2>1, <3>1, <3>2 DEF PagesOf
    <3>7. ASSUME NEW f \in whole, PagesOf(f) \subseteq current
          PROVE  PagesOf(f) \subseteq current'
      BY <3>1, <3>2, <3>7 DEF PagesOf
    <3>8. KeptTogether'
      BY <2>1, <3>1, <3>5, <3>6, <3>7 DEF Kept, KeptTogether
    <3> QED BY <2>2, <3>3, <3>4, <3>8 DEF Kept
  <2>4. CASE page = 1
    <3>1. ~(page > 1)
      BY <2>4
    <3>2. current' = current /\ whole' = whole /\ data' = Flushed
      BY <1>7, <2>4, <3>1 DEF EfaxEnds
    <3> QED BY <1>4, <2>1, <2>2, <2>4, <3>2 DEF Kept
  <2>5. CASE page = 0
    <3>1. ~(page > 1) /\ page # 1
      BY <2>5
    <3>2. current' = current /\ whole' = whole /\ data' = data
      BY <1>7, <2>5, <3>1 DEF EfaxEnds
    <3>3. NothingLost' /\ OnDisk' /\ KeptTogether'
      BY <2>1, <3>2 DEF Kept, NothingLost, OnDisk, KeptTogether, PagesOf, Filed
    <3> QED BY <2>2, <3>3 DEF Kept
  <2> QED BY <2>3, <2>4, <2>5 DEF TypeOK
<1>8. CASE EfaxKilled
  <2>1. /\ efax # "none" /\ efax' = "none"
        /\ UNCHANGED <<process, fax, page, whole, exists, current, dirs, saved, moving>>
        /\ data' = data \/ (page > 0 /\ data' = Flushed)
    BY <1>8 DEF EfaxKilled
  <2>2. Writing' /\ Moving'
    BY <2>1 DEF Kept, Writing, Moving, process, moving
  <2>3. CASE data' = data
    BY <2>1, <2>2, <2>3 DEF Kept, NothingLost, OnDisk, Vacant, OneFaxEach, KeptTogether,
      PagesOf, Filed
  <2>4. CASE page > 0 /\ data' = Flushed
    BY <1>4, <2>1, <2>2, <2>4 DEF Kept
  <2> QED BY <2>1, <2>3, <2>4
<1> QED BY <1>1, <1>2, <1>5, <1>6, <1>7, <1>8 DEF Efax

----------------------------------------------------------------------------
(* Steps of the moving of the files.                                       *)

\* What the files and the calls keep when only the move goes on.
LEMMA StoreFrame ==
  ASSUME ReceivedInv, UNCHANGED <<line, current, data, dirs, saved>>
  PROVE  /\ NothingLost' /\ OneFaxEach' /\ KeptTogether' /\ OnDisk'
         /\ PagesOf(fax)' = PagesOf(fax) /\ Open' = Open /\ Filed' = Filed
BY DEF ReceivedInv, Kept, line, NothingLost, OneFaxEach, KeptTogether, OnDisk, PagesOf, Open, Filed

\* No efax runs while the files are moved.
LEMMA NoEfaxInMove ==
  ASSUME ReceivedInv, pc # "session"
  PROVE  efax # "running"
BY DEF ReceivedInv, Kept, Writing

\* What is left of Writing when no efax runs.
LEMMA WritingIdle ==
  ASSUME ReceivedInv, efax' # "running", efax' \in {efax, "none", "dying"},
         efax = "none" => efax' = "none", UNCHANGED <<fax, page, whole>>,
         current \cup Filed \subseteq (current \cup Filed)'
  PROVE  Writing'
BY DEF ReceivedInv, Kept, Writing, Open

\* Done: the program returns to its main loop, or has ended.
LEMMA AfterDone ==
  ASSUME ReceivedInv, Done, UNCHANGED <<line, current, data, dirs, saved>>, efax # "running",
         exists' \in BOOLEAN, failed' \in BOOLEAN, ~exists' => current = {}
  PROVE  ReceivedInv'
<1> USE DEF ReceivedInv
<1>1. /\ pc' \in {"idle", "down"} /\ leaving' = FALSE /\ name' = NoName /\ list' = {}
      /\ UNCHANGED <<efax, fax, page, whole>>
  BY DEF Done, line
<1>2. TypeOK'
  BY <1>1 DEF TypeOK
<1>3. Writing'
  BY <1>1, StoreFrame, WritingIdle
<1>4. Moving' /\ Vacant'
  BY <1>1 DEF Moving, Vacant
<1> QED BY <1>2, <1>3, <1>4, StoreFrame DEF Kept

LEMMA MoveKeeps ==
  ASSUME ReceivedInv, Moves
  PROVE  ReceivedInv'
<1> USE DEF ReceivedInv
<1>1. efax # "running" /\ UNCHANGED <<efax, fax, page, whole>>
  <2>1. UNCHANGED line
    BY DEF Moves, Cleanup, UnlinksZero, CleanUpReceiveDir, MakesDir, MakesNoDir, ListsFiles,
      ListsNoFiles, LinksFile, LinkFails, UnlinksFile, AllMoved, RemovesDir
  <2>2. pc # "session" \/ efax = "none"
    BY DEF Moves, Cleanup, UnlinksZero, CleanUpReceiveDir, MakesDir, MakesNoDir, ListsFiles,
      ListsNoFiles, LinksFile, LinkFails, UnlinksFile, AllMoved, RemovesDir
  <2> QED BY <2>1, <2>2, NoEfaxInMove DEF line
\* Steps that only decide what to do next, or give up.
<1>2. CASE Cleanup \/ CleanUpReceiveDir
  <2>1. UNCHANGED <<line, current, data, dirs, saved>> /\ failed' = failed
    BY <1>2 DEF Cleanup, CleanUpReceiveDir
  <2>2. CASE current = {}
    BY <1>1, <1>2, <2>1, <2>2, AfterDone DEF Cleanup, CleanUpReceiveDir, TypeOK
  <2>3. CASE current # {}
    <3>1. UNCHANGED <<leaving, exists, moving>> /\ pc' \in {"zero", "mkdir"}
      BY <1>2, <2>3 DEF Cleanup, CleanUpReceiveDir
    <3>2. pc' = "zero" => efax = "none" /\ \E x \in current \ data : x[2] = 1
      BY <1>2, <2>3 DEF Cleanup, CleanUpReceiveDir
    <3>3. TypeOK' /\ Writing' /\ Vacant'
      BY <1>1, <2>1, <3>1, StoreFrame, WritingIdle DEF TypeOK, Kept, Vacant, moving
    <3>4. \A x, y \in current : x[2] = 1 /\ y[2] = 1 => x = y
      BY DEF TypeOK, Kept, OnDisk, Pages
    <3>5. Moving'
      BY <1>1, <2>1, <3>1, <3>2, <3>4 DEF Moving
    <3> QED BY <2>1, <3>3, <3>5, StoreFrame DEF Kept
  <2> QED BY <2>2, <2>3
<1>3. CASE UnlinksZero
  <2>1. /\ pc = "zero" /\ pc' = "rmdir" /\ current' = {x \in current : x[2] # 1}
        /\ efax = "none" /\ \A x \in current : x[2] = 1 => x \notin data
        /\ UNCHANGED <<leaving, exists, data, dirs, saved, name, list, failed>>
    BY <1>3 DEF UnlinksZero, Kept, Moving, moving
  <2>2. TypeOK' /\ Moving' /\ Vacant' /\ Writing'
    BY <1>1, <2>1 DEF TypeOK, Moving, Vacant, Writing, Kept
  <2>3. NothingLost' /\ OneFaxEach'
    BY <2>1 DEF NothingLost, OneFaxEach, Kept, Filed
  <2>4. OnDisk'
    BY <1>1, <2>1 DEF OnDisk, Kept
  <2>5. \A f \in whole : /\ PagesOf(f)' = PagesOf(f)
                         /\ PagesOf(f) \subseteq current => PagesOf(f) \subseteq current'
    BY <2>1 DEF PagesOf
  <2>6. KeptTogether'
    BY <1>1, <2>1, <2>5 DEF KeptTogether, Kept
  <2> QED BY <2>2, <2>3, <2>4, <2>6 DEF Kept
<1>4. CASE MakesDir
  <2>1. PICK n \in Names \ dirs : name' = n /\ dirs' = dirs \cup {n}
    BY <1>4 DEF MakesDir, NewNames
  <2>2. /\ pc' = "opendir"
        /\ UNCHANGED <<leaving, exists, current, data, saved, list, failed>>
    BY <1>4 DEF MakesDir
  <2>3. saved[n] = {} /\ Filed \subseteq Filed'
    BY <2>1, <2>2 DEF Kept, OnDisk, Filed
  <2>4. TypeOK' /\ Moving' /\ Vacant' /\ Writing'
    BY <1>1, <2>1, <2>2, <2>3, WritingIdle DEF TypeOK, Moving, Vacant, Kept
  <2>5. NothingLost' /\ OneFaxEach' /\ KeptTogether'
    BY <1>1, <2>1, <2>2, <2>3 DEF Kept, NothingLost, OneFaxEach, KeptTogether, PagesOf
  <2>6. OnDisk'
    BY <1>1, <2>1, <2>2 DEF Kept, OnDisk
  <2> QED BY <2>4, <2>5, <2>6 DEF Kept
<1>5. CASE MakesNoDir \/ ListsNoFiles \/ LinkFails
  <2>1. /\ Done /\ failed' = TRUE
        /\ UNCHANGED <<line, exists, current, data, dirs, saved>>
    BY <1>5 DEF MakesNoDir, ListsNoFiles, LinkFails
  <2> QED BY <1>1, <2>1, AfterDone DEF TypeOK, Kept, Vacant
<1>6. CASE ListsFiles
  <2>1. /\ list' = current /\ pc' = "move" /\ pc = "opendir"
        /\ UNCHANGED <<leaving, line, exists, current, data, dirs, saved, name, failed>>
    BY <1>6 DEF ListsFiles
  <2>2. TypeOK' /\ Writing' /\ Vacant'
    BY <1>1, <2>1, StoreFrame, WritingIdle DEF TypeOK, Vacant, Kept
  <2>3. Moving'
    BY <2>1 DEF Moving, Kept, OnDisk
  <2> QED BY <2>1, <2>2, <2>3, StoreFrame DEF Kept
<1>7. CASE LinksFile
  <2>1. PICK x \in list \ saved[name] : saved' = [saved EXCEPT ![name] = @ \cup {x}]
    BY <1>7 DEF LinksFile
  <2>2. /\ pc = "move" /\ name \in dirs /\ name \in Names /\ x \in Pages /\ x \in list
        /\ pc' = pc
        /\ UNCHANGED <<leaving, exists, current, data, dirs, name, list, failed>>
    BY <1>7, <2>1 DEF LinksFile, TypeOK, Kept, Moving, process, moving
  <2>3. /\ saved'[name] = saved[name] \cup {x}
        /\ \A n \in Names : n # name => saved'[n] = saved[n]
        /\ saved' \in [Names -> SUBSET Pages]
    BY <2>1, <2>2 DEF TypeOK
  <2>4. \A n \in dirs : saved[n] \subseteq saved'[n]
    BY <2>2, <2>3 DEF TypeOK
  <2>5. Filed \subseteq Filed'
    BY <2>2, <2>4 DEF Filed
  <2>6. TypeOK' /\ Vacant' /\ Writing'
    BY <1>1, <2>2, <2>3, <2>5, WritingIdle DEF TypeOK, Vacant, Kept
  <2>7. Moving'
    BY <1>1, <2>2, <2>3 DEF Kept, Moving
  <2>8. OneFaxEach'
    <3>1. \A y, z \in saved'[name] : y[1] = z[1]
      BY <2>2, <2>3 DEF Kept, Moving
    <3> QED BY <2>2, <2>3, <3>1 DEF Kept, OneFaxEach, TypeOK
  <2>9. NothingLost' /\ KeptTogether'
    BY <1>1, <2>2, <2>4, <2>5 DEF Kept, NothingLost, KeptTogether, PagesOf
  <2>10. OnDisk'
    BY <1>1, <2>2, <2>3 DEF Kept, OnDisk
  <2> QED BY <2>6, <2>7, <2>8, <2>9, <2>10 DEF Kept
<1>8. CASE UnlinksFile
  <2>1. PICK x \in Unlinkable \cap current : current' = current \ {x}
    BY <1>8 DEF UnlinksFile
  <2>2. /\ pc = "move" /\ pc' = pc /\ name \in dirs
        /\ list \subseteq saved[name] /\ current \subseteq list
        /\ UNCHANGED <<leaving, exists, data, dirs, saved, name, list, failed>>
    BY <1>8, <2>1 DEF UnlinksFile, Unlinkable, Kept, Moving, process, moving
  <2>3. current \subseteq saved[name] /\ current \subseteq Filed /\ Filed' = Filed
    BY <2>2 DEF Filed
  <2>4. TypeOK' /\ Vacant' /\ Writing'
    BY <1>1, <2>1, <2>2, <2>3, WritingIdle DEF TypeOK, Vacant, Kept
  <2>5. Moving' /\ OneFaxEach'
    BY <1>1, <2>1, <2>2 DEF Kept, Moving, OneFaxEach
  <2>6. NothingLost' /\ KeptTogether'
    BY <1>1, <2>1, <2>2, <2>3 DEF Kept, NothingLost, KeptTogether, PagesOf
  <2>7. OnDisk'
    BY <1>1, <2>1, <2>2 DEF Kept, OnDisk
  <2> QED BY <2>4, <2>5, <2>6, <2>7 DEF Kept
<1>9. CASE AllMoved
  <2>1. /\ pc' = "rmdir"
        /\ UNCHANGED <<leaving, line, exists, current, data, dirs, saved, name, list, failed>>
    BY <1>9 DEF AllMoved, moving
  <2>2. TypeOK' /\ Vacant' /\ Writing' /\ Moving'
    BY <1>1, <2>1, StoreFrame, WritingIdle DEF TypeOK, Vacant, Moving, Kept
  <2> QED BY <2>1, <2>2, StoreFrame DEF Kept
<1>10. CASE RemovesDir
  <2>1. /\ Done /\ exists' = (current # {}) /\ failed' = failed
        /\ UNCHANGED <<line, current, data, dirs, saved>>
    BY <1>10 DEF RemovesDir
  <2>2. exists' \in BOOLEAN /\ (~exists' => current = {}) /\ failed' \in BOOLEAN
    BY <2>1 DEF TypeOK
  <2> QED BY <1>1, <2>1, <2>2, AfterDone
<1> QED BY <1>2, <1>3, <1>4, <1>5, <1>6, <1>7, <1>8, <1>9, <1>10 DEF Moves

----------------------------------------------------------------------------
(* Steps of the process, and the theorems.                                 *)
LEMMA ProcessKeeps ==
  ASSUME ReceivedInv, XServerGone \/ Crash \/ Start
  PROVE  ReceivedInv'
<1> USE DEF ReceivedInv
<1>1. UNCHANGED <<fax, page, whole, exists, current, data, dirs, saved>>
  BY DEF XServerGone, Crash, Start, line
<1>2. /\ pc' \in {"clean", "down"} /\ leaving' \in BOOLEAN /\ failed' \in BOOLEAN
      /\ name' \in Names \cup {NoName} /\ list' \subseteq Pages
  BY DEF XServerGone, Crash, Start, AtExit, line, moving, TypeOK
<1>3. efax' # "running" /\ efax' \in {efax, "none", "dying"} /\ (efax = "none" => efax' = "none")
  BY NoEfaxInMove DEF XServerGone, Crash, Start, line, TypeOK
<1>4. TypeOK'
  BY <1>1, <1>2, <1>3 DEF TypeOK
<1>5. Writing'
  BY <1>1, <1>3, WritingIdle DEF Filed
<1>6. OnDisk' /\ NothingLost' /\ OneFaxEach' /\ KeptTogether'
  BY <1>1 DEF Kept, OnDisk, NothingLost, OneFaxEach, KeptTogether, PagesOf, Filed
<1>7. Vacant' /\ Moving'
  BY <1>1, <1>2 DEF Kept, Vacant, Moving
<1> QED BY <1>4, <1>5, <1>6, <1>7 DEF Kept

(* The invariant of the received faxes: every step keeps it.               *)
THEOREM StoreHolds == Spec => []ReceivedInv
<1>1. ReceivedInv /\ [Next]_vars => ReceivedInv'
  <2> SUFFICES ASSUME ReceivedInv, [Next]_vars PROVE ReceivedInv'
    OBVIOUS
  <2>1. CASE Receive \/ Efax
    BY <2>1, EfaxTypes, EfaxKeeps DEF ReceivedInv
  <2>2. CASE Moves
    BY <2>2, MoveKeeps
  <2>3. CASE XServerGone \/ Crash \/ Start
    BY <2>3, ProcessKeeps
  <2>4. CASE UNCHANGED vars
    <3>1. UNCHANGED <<line, current, data, dirs, saved>> /\ UNCHANGED <<process, exists, moving, failed>>
      BY <2>4 DEF vars
    <3>2. TypeOK' /\ Writing' /\ Vacant' /\ Moving'
      BY <3>1, StoreFrame DEF ReceivedInv, Kept, TypeOK, Writing, Vacant, Moving, line, process, moving
    <3> QED BY <3>1, <3>2, StoreFrame DEF ReceivedInv, Kept
  <2> QED BY <2>1, <2>2, <2>3, <2>4 DEF Next
<1> QED BY <1>1, InitKept, PTL DEF Spec

(* No page that efax has received is lost, whatever fails or crashes.      *)
THEOREM NothingIsLost == Spec => []NothingLost
<1>1. ReceivedInv => NothingLost
  BY DEF ReceivedInv, Kept
<1> QED BY <1>1, StoreHolds, PTL

(* A fax received to its end is never only in pieces.                      *)
THEOREM FaxesStayTogether == Spec => []KeptTogether
<1>1. ReceivedInv => KeptTogether
  BY DEF ReceivedInv, Kept
<1> QED BY <1>1, StoreHolds, PTL

(* No directory holds pages of two faxes.                                  *)
THEOREM DirectoriesAreSeparate == Spec => []OneFaxEach
<1>1. ReceivedInv => OneFaxEach
  BY DEF ReceivedInv, Kept
<1> QED BY <1>1, StoreHolds, PTL

(* Directories of one fax each, and faxes of one directory each: what       *)
(* receive_cleanup() and clean_up_receive_dir() keep at every step.        *)
THEOREM FaxesAreApart == Spec => []FaxesApart
<1>1. OneFaxEach /\ KeptTogether => FaxesApart
  BY DEF FaxesApart
<1> QED BY <1>1, FaxesStayTogether, DirectoriesAreSeparate, PTL

==============================================================================
