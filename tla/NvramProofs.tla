---------------------------- MODULE NvramProofs ----------------------------
(***************************************************************************)
(* Theorems about Nvram: types, the header that follows the variables,     *)
(* what a reader reads that no writer ran beside, and that it is the store *)
(* of NvramStore as long as all variables fit.                             *)
(***************************************************************************)
EXTENDS Nvram, SequenceTheorems, FiniteSetTheorems, WellFoundedInduction, TLAPS

Strings == Names \X Values
Tables  == [1 .. NBuckets -> Seq(Strings)]

-----------------------------------------------------------------------------
(***************************************************************************)
(* The hash table.  A name has one place in it, in its own bucket.         *)
(***************************************************************************)
Proper(tab) ==
    \A b \in 1 .. NBuckets : \A i, j \in DOMAIN tab[b] :
        /\ Bucket[tab[b][i][1]] = b
        /\ tab[b][i][1] = tab[b][j][1] => i = j

LEMMA NamesAndBuckets ==
    /\ \A n \in Names : Bucket[n] \in 1 .. NBuckets
    /\ \A n \in Sdram : n \in Names
    /\ \A i \in DOMAIN Backed : Backed[i] \in Names /\ Backed[i] \in Sdram
    /\ DOMAIN Backed = 1 .. Len(Backed) /\ Len(Backed) \in Nat
<1>1. Bucket \in [Names -> 1 .. NBuckets] /\ Backed \in Seq(Names)
  BY NvramAssumption
<1> QED
  BY <1>1 DEF Sdram

\* A string of a list is a name with a value.
LEMMA StringFacts ==
    ASSUME NEW list \in Seq(Strings)
    PROVE  /\ DOMAIN list = 1 .. Len(list) /\ Len(list) \in Nat
           /\ \A i \in DOMAIN list :
                 list[i] \in Strings /\ list[i][1] \in Names /\ list[i][2] \in Values
                 /\ list[i] = <<list[i][1], list[i][2]>>
BY DEF Strings

LEMMA BucketType ==
    ASSUME NEW tab \in Tables, NEW n \in Names
    PROVE  tab[Bucket[n]] \in Seq(Strings)
BY NamesAndBuckets DEF Tables

\* What the place of a variable is, and its value.
LEMMA HasFacts ==
    ASSUME NEW tab \in Tables, NEW n \in Names, Proper(tab)
    PROVE  /\ Has(tab, n) => /\ PlaceOf(tab, n) \in DOMAIN tab[Bucket[n]]
                             /\ tab[Bucket[n]][PlaceOf(tab, n)] = <<n, ValueIn(tab, n)>>
                             /\ ValueIn(tab, n) \in Values
           /\ ~Has(tab, n) => ValueIn(tab, n) = Absent
           /\ \A i \in DOMAIN tab[Bucket[n]] :
                 tab[Bucket[n]][i][1] = n =>
                    Has(tab, n) /\ i = PlaceOf(tab, n) /\ tab[Bucket[n]][i][2] = ValueIn(tab, n)
<1> DEFINE B == tab[Bucket[n]]
<1>1. B \in Seq(Strings) /\ Bucket[n] \in 1 .. NBuckets
  BY BucketType, NamesAndBuckets
<1>2. Has(tab, n) => PlaceOf(tab, n) \in DOMAIN B /\ B[PlaceOf(tab, n)][1] = n
  BY DEF Has, PlaceOf, Places
<1>3. \A i \in DOMAIN B : B[i][1] = n => Has(tab, n) /\ i = PlaceOf(tab, n)
  <2> SUFFICES ASSUME NEW i \in DOMAIN B, B[i][1] = n
               PROVE  Has(tab, n) /\ i = PlaceOf(tab, n)
    OBVIOUS
  <2>1. Has(tab, n)
    BY DEF Has, Places
  <2> QED
    BY <1>1, <1>2, <2>1 DEF Proper
<1>4. Has(tab, n) => ValueIn(tab, n) = B[PlaceOf(tab, n)][2]
  BY DEF ValueIn
<1> QED
  BY <1>1, <1>2, <1>3, <1>4, StringFacts DEF ValueIn

LEMMA StringOf ==
    ASSUME NEW tab \in Tables, NEW n \in Names, Proper(tab)
    PROVE  /\ Has(tab, n) => \E p \in DOMAIN tab[Bucket[n]] : tab[Bucket[n]][p] = <<n, ValueIn(tab, n)>>
           /\ \A p \in DOMAIN tab[Bucket[n]] : tab[Bucket[n]][p][1] = n =>
                 Has(tab, n) /\ tab[Bucket[n]][p][2] = ValueIn(tab, n)
BY HasFacts

\* A list with a string put in front, and one with a string taken out.
LEMMA ConsFacts ==
    ASSUME NEW list \in Seq(Strings), NEW t \in Strings
    PROVE  /\ Cons(t, list) \in Seq(Strings)
           /\ Len(Cons(t, list)) = Len(list) + 1
           /\ Cons(t, list)[1] = t
           /\ \A i \in 2 .. Len(list) + 1 : Cons(t, list)[i] = list[i - 1]
<1>1. <<t>> \in Seq(Strings) /\ Len(<<t>>) = 1 /\ <<t>>[1] = t
  OBVIOUS
<1> QED
  BY <1>1, ConcatProperties DEF Cons

LEMMA RemoveFacts ==
    ASSUME NEW list \in Seq(Strings), NEW k \in DOMAIN list
    PROVE  /\ RemoveAt(list, k) \in Seq(Strings)
           /\ Len(RemoveAt(list, k)) = Len(list) - 1
           /\ \A i \in 1 .. Len(list) - 1 :
                 RemoveAt(list, k)[i] = IF i < k THEN list[i] ELSE list[i + 1]
<1> DEFINE front == SubSeq(list, 1, k - 1)
           rest  == SubSeq(list, k + 1, Len(list))
<1>1. DOMAIN list = 1 .. Len(list) /\ Len(list) \in Nat /\ k \in Int
  BY StringFacts
<1>2. front \in Seq(Strings) /\ Len(front) = k - 1
      /\ \A i \in 1 .. k - 1 : front[i] = list[i]
  BY <1>1, SubSeqProperties, StringFacts
<1>3. rest \in Seq(Strings) /\ Len(rest) = Len(list) - k
      /\ \A i \in 1 .. Len(list) - k : rest[i] = list[k + i]
  BY <1>1, SubSeqProperties, StringFacts
<1> HIDE DEF front, rest
<1>4. /\ front \o rest \in Seq(Strings)
      /\ Len(front \o rest) = Len(front) + Len(rest)
      /\ \A i \in 1 .. Len(front) + Len(rest) :
            (front \o rest)[i] = IF i <= Len(front) THEN front[i] ELSE rest[i - Len(front)]
  BY <1>2, <1>3, ConcatProperties
<1>5. Len(front) + Len(rest) = Len(list) - 1
  BY <1>1, <1>2, <1>3
<1>6. ASSUME NEW i \in 1 .. Len(list) - 1
      PROVE  (front \o rest)[i] = IF i < k THEN list[i] ELSE list[i + 1]
  <2>1. CASE i < k
    BY <1>1, <1>2, <1>4, <1>5, <2>1
  <2>2. CASE ~(i < k)
    <3>1. (front \o rest)[i] = rest[i - (k - 1)]
      BY <1>1, <1>2, <1>4, <1>5, <2>2, SMTT(60)
    <3>2. i - (k - 1) \in 1 .. Len(list) - k
      BY <1>1, <2>2
    <3>3. rest[i - (k - 1)] = list[k + (i - (k - 1))]
      BY <1>3, <3>2
    <3>4. k + (i - (k - 1)) = i + 1
      BY <1>1
    <3> QED
      BY <2>2, <3>1, <3>3, <3>4
  <2> QED
    BY <2>1, <2>2
<1> QED
  BY <1>4, <1>5, <1>6 DEF RemoveAt, front, rest

\* Two tables with the same strings of a name agree on it.
LEMMA SameStrings ==
    ASSUME NEW tab \in Tables, NEW new \in Tables, Proper(tab), Proper(new), NEW n \in Names,
           \A i \in DOMAIN tab[Bucket[n]] : tab[Bucket[n]][i][1] = n =>
              \E j \in DOMAIN new[Bucket[n]] : new[Bucket[n]][j] = tab[Bucket[n]][i],
           \A i \in DOMAIN new[Bucket[n]] : new[Bucket[n]][i][1] = n =>
              \E j \in DOMAIN tab[Bucket[n]] : tab[Bucket[n]][j] = new[Bucket[n]][i]
    PROVE  (Has(new, n) <=> Has(tab, n)) /\ ValueIn(new, n) = ValueIn(tab, n)
<1>1. CASE Has(tab, n)
  <2>1. PICK j \in DOMAIN new[Bucket[n]] : new[Bucket[n]][j] = <<n, ValueIn(tab, n)>>
    BY <1>1, HasFacts, SMTT(60)
  <2> QED
    BY <1>1, <2>1, HasFacts
<1>2. CASE ~Has(tab, n)
  <2>1. ~Has(new, n)
    BY <1>2 DEF Has, Places
  <2> QED
    BY <1>2, <2>1, HasFacts
<1> QED
  BY <1>1, <1>2

\* nvram_set changes one variable.
LEMMA SetFacts ==
    ASSUME NEW tab \in Tables, Proper(tab), NEW n \in Names, NEW v \in Values
    PROVE  /\ SetIn(tab, n, v) \in Tables /\ Proper(SetIn(tab, n, v))
           /\ Has(SetIn(tab, n, v), n) /\ ValueIn(SetIn(tab, n, v), n) = v
           /\ \A m \in Names : m # n =>
                 /\ Has(SetIn(tab, n, v), m) <=> Has(tab, m)
                 /\ ValueIn(SetIn(tab, n, v), m) = ValueIn(tab, m)
<1> DEFINE b   == Bucket[n]
           old == tab[b]
           new == SetIn(tab, n, v)
           t   == <<n, v>>
<1>1. b \in 1 .. NBuckets /\ old \in Seq(Strings) /\ t \in Strings
  BY NamesAndBuckets, BucketType DEF Strings
<1>2. \A c \in 1 .. NBuckets : c # b => new[c] = tab[c]
  BY DEF SetIn, Tables
<1>3. DOMAIN new = 1 .. NBuckets
  BY DEF SetIn, Tables
<1>4. \E k \in DOMAIN new[b] :
         /\ new[b] \in Seq(Strings) /\ new[b][k] = t
         /\ \A i \in DOMAIN new[b] : i # k => \E j \in DOMAIN old : new[b][i] = old[j] /\ old[j][1] # n
         /\ \A i, j \in DOMAIN new[b] : new[b][i][1] = new[b][j][1] => i = j
         /\ \A j \in DOMAIN old : old[j][1] # n => \E i \in DOMAIN new[b] : new[b][i] = old[j]
  <2>1. CASE Has(tab, n)
    <3>1. PICK p \in DOMAIN old : p = PlaceOf(tab, n) /\ old[p][1] = n
      BY <2>1, HasFacts
    <3>2. new[b] = [old EXCEPT ![p] = t]
      BY <1>1, <2>1, <3>1 DEF SetIn, Tables
    <3>3. new[b] \in Seq(Strings) /\ DOMAIN new[b] = DOMAIN old
      BY <1>1, <3>1, <3>2
    <3>4. new[b][p] = t /\ \A i \in DOMAIN old : i # p => new[b][i] = old[i]
      BY <1>1, <3>1, <3>2
    <3>5. \A i, j \in DOMAIN old : old[i][1] = old[j][1] => i = j
      BY <1>1 DEF Proper
    <3>6. \A i \in DOMAIN old : new[b][i][1] = old[i][1]
      BY <3>1, <3>4
    <3> QED
      BY <3>1, <3>3, <3>4, <3>5, <3>6, SMTT(60)
  <2>2. CASE ~Has(tab, n)
    <3>1. new[b] = Cons(t, old)
      BY <1>1, <2>2 DEF SetIn, Tables
    <3>2. \A i \in DOMAIN old : old[i][1] # n
      BY <2>2 DEF Has, Places
    <3>3. new[b] \in Seq(Strings) /\ DOMAIN new[b] = 1 .. Len(old) + 1 /\ new[b][1] = t
          /\ DOMAIN old = 1 .. Len(old) /\ Len(old) \in Nat
          /\ \A i \in 2 .. Len(old) + 1 : new[b][i] = old[i - 1]
      <4>1. /\ Cons(t, old) \in Seq(Strings) /\ Len(Cons(t, old)) = Len(old) + 1
            /\ Cons(t, old)[1] = t
            /\ \A i \in 2 .. Len(old) + 1 : Cons(t, old)[i] = old[i - 1]
        BY <1>1, ConsFacts
      <4> HIDE DEF new, old, t, b
      <4>2. DOMAIN old = 1 .. Len(old) /\ Len(old) \in Nat /\ DOMAIN new[b] = 1 .. Len(new[b])
        BY <1>1, <3>1, <4>1, StringFacts
      <4> QED
        BY <3>1, <4>1, <4>2
    <3>4. \A i, j \in DOMAIN old : old[i][1] = old[j][1] => i = j
      BY <1>1 DEF Proper
    <3> HIDE DEF new, old, t, b
    <3>5. \A i \in 2 .. Len(old) + 1 : i - 1 \in DOMAIN old /\ new[b][i] = old[i - 1]
      BY <3>3
    <3>6. \A i \in DOMAIN new[b] : i # 1 => i \in 2 .. Len(old) + 1
      BY <3>3
    <3>7. \A j \in DOMAIN old : j + 1 \in DOMAIN new[b] /\ new[b][j + 1] = old[j]
      BY <3>3
    <3>8. ASSUME NEW i \in DOMAIN new[b], NEW j \in DOMAIN new[b], new[b][i][1] = new[b][j][1]
          PROVE  i = j
      <4>1. t[1] = n
        BY DEF t
      <4>2. CASE i = 1 \/ j = 1
        BY <3>2, <3>3, <3>5, <3>6, <3>8, <4>1, <4>2
      <4>3. CASE i # 1 /\ j # 1
        <5>1. i - 1 = j - 1
          BY <3>4, <3>5, <3>6, <3>8, <4>3
        <5> QED
          BY <3>3, <5>1
      <4> QED
        BY <4>2, <4>3
    <3>9. 1 \in DOMAIN new[b]
      BY <3>3
    <3>10. \A i \in DOMAIN new[b] : i # 1 => \E j \in DOMAIN old : new[b][i] = old[j] /\ old[j][1] # n
      BY <3>2, <3>5, <3>6
    <3> QED
      BY <3>3, <3>7, <3>8, <3>9, <3>10
  <2> QED
    BY <2>1, <2>2
<1>5. PICK k \in DOMAIN new[b] :
         /\ new[b] \in Seq(Strings) /\ new[b][k] = t
         /\ \A i \in DOMAIN new[b] : i # k => \E j \in DOMAIN old : new[b][i] = old[j] /\ old[j][1] # n
         /\ \A i, j \in DOMAIN new[b] : new[b][i][1] = new[b][j][1] => i = j
         /\ \A j \in DOMAIN old : old[j][1] # n => \E i \in DOMAIN new[b] : new[b][i] = old[j]
  BY <1>4
<1>6. \A i \in DOMAIN old : Bucket[old[i][1]] = b
  BY <1>1 DEF Proper
<1>7. t[1] = n
  OBVIOUS
<1>8. new = [c \in 1 .. NBuckets |-> new[c]]
  BY DEF SetIn, Tables
<1> HIDE DEF new, t
<1>9. new \in Tables
  <2>1. \A c \in 1 .. NBuckets : new[c] \in Seq(Strings)
    BY <1>2, <1>5 DEF Tables
  <2> QED
    BY <1>8, <2>1 DEF Tables
<1>10. \A i \in DOMAIN new[b] : Bucket[new[b][i][1]] = b
  BY <1>5, <1>6, <1>7
<1>11. Proper(new)
  BY <1>2, <1>5, <1>10 DEF Proper
<1>12. Has(new, n) /\ ValueIn(new, n) = v
  BY <1>5, <1>9, <1>11, HasFacts, SMTT(60) DEF t
<1>13. ASSUME NEW m \in Names, m # n
       PROVE  (Has(new, m) <=> Has(tab, m)) /\ ValueIn(new, m) = ValueIn(tab, m)
  <2>1. CASE Bucket[m] = b
    <3>1. \A i \in DOMAIN tab[Bucket[m]] : tab[Bucket[m]][i][1] = m =>
              \E j \in DOMAIN new[Bucket[m]] : new[Bucket[m]][j] = tab[Bucket[m]][i]
      BY <1>5, <1>13, <2>1
    <3>2. \A i \in DOMAIN new[Bucket[m]] : new[Bucket[m]][i][1] = m =>
              \E j \in DOMAIN tab[Bucket[m]] : tab[Bucket[m]][j] = new[Bucket[m]][i]
      BY <1>5, <1>7, <1>13, <2>1
    <3> QED
      BY <1>9, <1>11, <3>1, <3>2, SameStrings
  <2>2. CASE Bucket[m] # b
    <3>1. new[Bucket[m]] = tab[Bucket[m]]
      BY <1>2, <2>2, NamesAndBuckets
    <3> QED
      BY <3>1 DEF Has, ValueIn, PlaceOf, Places
  <2> QED
    BY <2>1, <2>2
<1> QED
  BY <1>9, <1>11, <1>12, <1>13 DEF new

\* nvram_unset takes one variable out.
LEMMA UnsetFacts ==
    ASSUME NEW tab \in Tables, Proper(tab), NEW n \in Names
    PROVE  /\ UnsetIn(tab, n) \in Tables /\ Proper(UnsetIn(tab, n))
           /\ ~Has(UnsetIn(tab, n), n)
           /\ \A m \in Names : m # n =>
                 /\ Has(UnsetIn(tab, n), m) <=> Has(tab, m)
                 /\ ValueIn(UnsetIn(tab, n), m) = ValueIn(tab, m)
<1>1. CASE ~Has(tab, n)
  BY <1>1 DEF UnsetIn
<1>2. CASE Has(tab, n)
  <2> DEFINE b   == Bucket[n]
             old == tab[b]
             new == UnsetIn(tab, n)
  <2>1. b \in 1 .. NBuckets /\ old \in Seq(Strings)
    BY NamesAndBuckets, BucketType
  <2>2. \A c \in 1 .. NBuckets : c # b => new[c] = tab[c]
    BY <1>2 DEF UnsetIn, Tables
  <2>3. new = [c \in 1 .. NBuckets |-> new[c]]
    BY <1>2 DEF UnsetIn, Tables
  <2>4. PICK p \in DOMAIN old : p = PlaceOf(tab, n) /\ old[p][1] = n
    BY <1>2, HasFacts
  <2>5. new[b] = RemoveAt(old, p)
    BY <1>2, <2>1, <2>4 DEF UnsetIn, Tables
  <2>6. /\ new[b] \in Seq(Strings) /\ DOMAIN new[b] = 1 .. Len(old) - 1
        /\ DOMAIN old = 1 .. Len(old) /\ Len(old) \in Nat /\ p \in Nat
        /\ \A i \in 1 .. Len(old) - 1 : new[b][i] = IF i < p THEN old[i] ELSE old[i + 1]
    <3>1. DOMAIN old = 1 .. Len(old) /\ Len(old) \in Nat
      BY <2>1, StringFacts
    <3>2. p \in Nat
      BY <3>1
    <3> DEFINE rest == RemoveAt(old, p)
    <3>3. /\ rest \in Seq(Strings) /\ Len(rest) = Len(old) - 1
          /\ \A i \in 1 .. Len(old) - 1 : rest[i] = IF i < p THEN old[i] ELSE old[i + 1]
      BY <2>1, RemoveFacts
    <3> HIDE DEF rest
    <3>4. DOMAIN rest = 1 .. Len(rest)
      BY <3>3, StringFacts
    <3> QED
      BY <2>5, <3>1, <3>2, <3>3, <3>4 DEF rest
  <2>7. \A i, j \in DOMAIN old : Bucket[old[i][1]] = b /\ (old[i][1] = old[j][1] => i = j)
    BY <2>1 DEF Proper
  <2> HIDE DEF new, old, b
  <2> DEFINE from(i) == IF i < p THEN i ELSE i + 1
  <2>8. \A i \in DOMAIN new[b] : from(i) \in DOMAIN old /\ from(i) # p /\ new[b][i] = old[from(i)]
    BY <2>6
  <2>9. \A i, j \in DOMAIN new[b] : from(i) = from(j) => i = j
    BY <2>6
  <2>10. \A j \in DOMAIN old : j # p => \E i \in DOMAIN new[b] : new[b][i] = old[j]
    <3> SUFFICES ASSUME NEW j \in DOMAIN old, j # p
                 PROVE  \E i \in DOMAIN new[b] : new[b][i] = old[j]
      OBVIOUS
    <3>1. CASE j < p
      <4>1. j \in DOMAIN new[b] /\ new[b][j] = old[j]
        BY <2>4, <2>6, <3>1
      <4> QED
        BY <4>1
    <3>2. CASE j > p
      <4>1. j - 1 \in 1 .. Len(old) - 1 /\ ~(j - 1 < p) /\ (j - 1) + 1 = j
        BY <2>4, <2>6, <3>2
      <4>2. new[b][j - 1] = old[j]
        BY <2>6, <4>1
      <4> QED
        BY <2>6, <4>1, <4>2
    <3> QED
      BY <2>6, <3>1, <3>2
  <2> HIDE DEF from
  <2>11. \A i \in DOMAIN new[b] : new[b][i][1] # n
    BY <2>4, <2>7, <2>8
  <2>12. new \in Tables
    <3>1. \A c \in 1 .. NBuckets : new[c] \in Seq(Strings)
      BY <2>2, <2>6 DEF Tables
    <3> QED
      BY <2>3, <3>1 DEF Tables
  <2>13. \A i, j \in DOMAIN new[b] :
            Bucket[new[b][i][1]] = b /\ (new[b][i][1] = new[b][j][1] => i = j)
    BY <2>7, <2>8, <2>9
  <2>14. Proper(new)
    BY <2>2, <2>13 DEF Proper
  <2>15. ~Has(new, n)
    BY <2>11 DEF Has, Places, b
  <2>16. ASSUME NEW m \in Names, m # n
         PROVE  (Has(new, m) <=> Has(tab, m)) /\ ValueIn(new, m) = ValueIn(tab, m)
    <3>1. CASE Bucket[m] = b
      <4>1. \A i \in DOMAIN tab[Bucket[m]] : tab[Bucket[m]][i][1] = m =>
                \E j \in DOMAIN new[Bucket[m]] : new[Bucket[m]][j] = tab[Bucket[m]][i]
        BY <2>4, <2>10, <2>16, <3>1 DEF old
      <4>2. \A i \in DOMAIN new[Bucket[m]] : new[Bucket[m]][i][1] = m =>
                \E j \in DOMAIN tab[Bucket[m]] : tab[Bucket[m]][j] = new[Bucket[m]][i]
        BY <2>8, <3>1 DEF old
      <4> QED
        BY <2>12, <2>14, <4>1, <4>2, SameStrings
    <3>2. CASE Bucket[m] # b
      <4>1. new[Bucket[m]] = tab[Bucket[m]]
        BY <2>2, <3>2, NamesAndBuckets
      <4> QED
        BY <4>1 DEF Has, ValueIn, PlaceOf, Places
    <3> QED
      BY <3>1, <3>2
  <2> QED
    BY <2>12, <2>14, <2>15, <2>16 DEF new
<1> QED
  BY <1>1, <1>2
-----------------------------------------------------------------------------
(***************************************************************************)
(* Types.  TypeOK says nothing of the table's buckets nor of the copies    *)
(* that readers hold; the steps that use them need both.                   *)
(***************************************************************************)
States    == {"none", "empty", "open", "torn", "whole"}
Snapshots == [st : States, hdr : Header, list : Seq(Strings), masked : SUBSET (Nat \ {0})]

ReaderType ==
    [pc : {"idle", "map", "mask", "unmask", "answer"}, name : Names \cup {""},
     src : {"flash", "staging"}, idx : Nat \ {0}, copy : Snapshots \cup {NoCopy},
     found : Values \cup {Absent}, overlap : BOOLEAN]

FileTypes ==
    /\ flash \in Files /\ staging \in Files /\ buf \in Files
    /\ flash.st \in {"whole", "torn"} /\ staging.st # "torn"
    /\ masked \in [{"flash", "staging"} -> SUBSET (Nat \ {0})]

WriterTypes ==
    /\ wpc \in {"idle", "find", "create", "copy", "map", "mask", "unmask", "fill", "edit",
                "clear", "write", "written", "close", "read", "save", "saving", "unlink"}
    /\ cmd \in Commands \cup {NoCmd}
    /\ table \in Tables /\ Proper(table)
    /\ idx \in Nat \ {0} /\ reload \in BOOLEAN /\ writes \in 0 .. MaxWrites
    /\ at \in [bucket : 1 .. NBuckets + 1, place : Nat \ {0}, bytes : Nat]

ReaderInv(r) ==
    /\ reader[r].pc = "idle" => reader[r] = NoReader
    /\ reader[r].pc # "idle" => reader[r].name \in Names
    /\ reader[r].pc = "unmask" =>
          reader[r].copy # NoCopy /\ reader[r].idx \in DOMAIN reader[r].copy.list

ReaderTypes == reader \in [Readers -> ReaderType] /\ \A r \in Readers : ReaderInv(r)

Types ==
    /\ FileTypes /\ WriterTypes /\ ReaderTypes
    /\ wpc = "unmask" => idx \in DOMAIN staging.list

\* A file is half written only while the writing command is at it, and no string is
\* masked but the one that it reads.
FilesInv ==
    /\ masked["flash"] = {} /\ masked["staging"] = (IF wpc = "unmask" THEN {idx} ELSE {})
    /\ wpc \notin {"idle", "saving"} => flash.st = "whole"
    /\ staging.st = "open" <=> wpc = "write"
    /\ staging.st \in {"none", "empty"} => wpc \in {"idle", "find", "create", "copy", "map"}
    /\ wpc = "map" => staging.st # "none"
    /\ wpc = "create" => staging.st = "none"
    /\ wpc = "copy" => buf = flash /\ staging.st = "empty"
    /\ wpc \in {"save", "saving"} => buf = staging

TypeInv == Types /\ FilesInv

LEMMA TypeInvIsEnough ==
    TypeInv => TypeOK
<1> SUFFICES ASSUME TypeInv PROVE TypeOK
  OBVIOUS
<1>1. /\ flash \in Files /\ staging \in Files /\ buf \in Files
      /\ flash.st \in {"whole", "torn"} /\ staging.st # "torn"
      /\ masked \in [{"flash", "staging"} -> SUBSET (Nat \ {0})]
  BY DEF TypeInv, Types, FileTypes
<1>2. /\ wpc \in {"idle", "find", "create", "copy", "map", "mask", "unmask", "fill", "edit",
                  "clear", "write", "written", "close", "read", "save", "saving", "unlink"}
      /\ cmd \in Commands \cup {NoCmd}
      /\ table \in [1 .. NBuckets -> Seq(Names \X Values)]
      /\ idx \in Nat \ {0} /\ reload \in BOOLEAN /\ writes \in 0 .. MaxWrites
      /\ at \in [bucket : 1 .. NBuckets + 1, place : Nat \ {0}, bytes : Nat]
      /\ wpc = "unmask" => idx \in DOMAIN staging.list
  BY Zenon DEF TypeInv, Types, WriterTypes, Tables, Strings
<1>3. ASSUME NEW r \in Readers
      PROVE  /\ reader[r].pc \in {"idle", "map", "mask", "unmask", "answer"}
             /\ reader[r].name \in Names \cup {""}
             /\ reader[r].src \in {"flash", "staging"} /\ reader[r].idx \in Nat \ {0}
             /\ reader[r].found \in Values \cup {Absent}
             /\ reader[r].pc = "unmask" => reader[r].idx \in DOMAIN View(r).list
  <2>1. reader[r] \in ReaderType /\ ReaderInv(r)
    BY DEF TypeInv, Types, ReaderTypes
  <2> QED
    BY <2>1 DEF ReaderType, ReaderInv, View
<1> QED
  BY <1>1, <1>2, <1>3 DEF TypeOK

LEMMA SizesAreNumbers ==
    /\ \A t \in Strings : Bytes(t) \in Nat
    /\ \A b \in Nat : Length(b) \in Nat
    /\ NBuckets \in Nat /\ Size \in Nat /\ MaxWrites \in Nat
    /\ Default \in Header /\ Inputs \subseteq Values /\ Absent \notin Values
<1>1. /\ NameLen \in [Names -> Nat \ {0}] /\ NBuckets \in Nat /\ MaxLen \in Nat
      /\ Size \in Nat /\ MaxWrites \in Nat /\ Default \in Header /\ Inputs \subseteq Values
      /\ Absent \notin Values
  BY NvramAssumption
<1>2. ASSUME NEW t \in Strings
      PROVE  Bytes(t) \in Nat
  <2>1. NameLen[t[1]] \in Nat /\ t[2].len \in Nat
    BY <1>1 DEF Strings, Values
  <2> QED
    BY <2>1 DEF Bytes
<1>3. \A b \in Nat : Length(b) \in Nat
  BY DEF Length
<1> QED
  BY <1>1, <1>2, <1>3

\* A header field written out is a value.
LEMMA HexIsValue ==
    ASSUME NEW h \in Header, NEW n \in Sdram
    PROVE  Hex(h, n) \in Values
<1>1. h[n] \in Nat
  BY DEF Header
<1>2. MaxLen \in Nat /\ MaxLen >= 10
  BY NvramAssumption
<1>3. 6 \in 0 .. MaxLen /\ 10 \in 0 .. MaxLen
  BY <1>2
<1> QED
  BY <1>1, <1>3 DEF Hex, Values

LEMMA FileFacts ==
    ASSUME NEW f \in Files
    PROVE  /\ f.st \in States /\ f.hdr \in Header /\ f.list \in Seq(Strings) /\ f.len \in Nat
           /\ f = [st |-> f.st, hdr |-> f.hdr, list |-> f.list, len |-> f.len]
           /\ \A n \in Sdram : Hex(f.hdr, n) \in Values
<1>1. /\ f.st \in States /\ f.hdr \in Header /\ f.list \in Seq(Strings) /\ f.len \in Nat
      /\ f = [st |-> f.st, hdr |-> f.hdr, list |-> f.list, len |-> f.len]
  BY DEF Files, States, Strings
<1> QED
  BY <1>1, HexIsValue

LEMMA MakeFile ==
    ASSUME NEW st \in States, NEW h \in Header, NEW l \in Seq(Strings), NEW n \in Nat
    PROVE  Image(st, h, l, n) \in Files /\ NoFile \in Files
<1>1. Default \in Header
  BY NvramAssumption
<1>2. <<>> \in Seq(Strings)
  OBVIOUS
<1> QED
  BY <1>1, <1>2 DEF Image, NoFile, Files, States, Strings

LEMMA SixteenBits == TwoTo16 \in Nat \ {0}
BY DEF TwoTo16

LEMMA Modulo ==
    ASSUME NEW m \in Nat \ {0}, NEW k \in Nat
    PROVE  k % m \in Nat /\ k % m \in 0 .. m - 1
BY SMTT(60)

\* A header's field takes what is kept of a value.
LEMMA FieldType ==
    ASSUME NEW n, NEW v \in Values
    PROVE  Field(n, v) \in Nat /\ Field(n, v) \in Word(n)
<1>1. v.num \in Nat
  BY DEF Values
<1>2. v.num % TwoTo16 \in Nat /\ v.num % TwoTo16 \in 0 .. TwoTo16 - 1
  BY <1>1, SixteenBits, Modulo, Zenon
<1>3. CASE n \in Short
  <2>1. Field(n, v) = v.num % TwoTo16 /\ Word(n) = 0 .. TwoTo16 - 1
    BY <1>3, Zenon DEF Field, Word
  <2> QED
    BY <1>2, <2>1, Zenon
<1>4. CASE n \notin Short
  <2>1. Field(n, v) = v.num /\ Word(n) = Nat
    BY <1>4, Zenon DEF Field, Word
  <2> QED
    BY <1>1, <2>1, Zenon
<1> QED
  BY <1>3, <1>4, Zenon

LEMMA HeaderType ==
    ASSUME NEW tab \in Tables, Proper(tab)
    PROVE  HeaderOf(tab) \in Header
<1>1. \A n \in Sdram, v \in Values : Field(n, v) \in Nat /\ Field(n, v) \in Word(n)
  BY FieldType
<1>2. CASE \A n \in Sdram : Has(tab, n)
  <2>1. \A n \in Sdram : ValueIn(tab, n) \in Values
    BY <1>2, NamesAndBuckets, HasFacts
  <2>2. HeaderOf(tab) = [n \in Sdram |-> Field(n, ValueIn(tab, n))]
    BY <1>2 DEF HeaderOf
  <2> QED
    BY <1>1, <2>1, <2>2 DEF Header
<1>3. CASE ~ \A n \in Sdram : Has(tab, n)
  BY <1>3, NvramAssumption DEF HeaderOf
<1> QED
  BY <1>2, <1>3

\* A copy of a file's pages is not "no copy".
LEMMA CopyFacts ==
    /\ NoCopy \notin Snapshots
    /\ FileTypes => \A f \in {"flash", "staging"} : Snapshot(f) \in Snapshots
<1>1. \A c \in Snapshots : "hdr" \in DOMAIN c
  BY DEF Snapshots
<1>2. "hdr" \notin DOMAIN NoCopy
  BY DEF NoCopy
<1>3. ASSUME FileTypes, NEW f \in {"flash", "staging"}
      PROVE  Snapshot(f) \in Snapshots
  <2>1. PICK c \in Files : c = (IF f = "flash" THEN flash ELSE staging)
    BY <1>3 DEF FileTypes
  <2>2. Snapshot(f) = [st |-> c.st, hdr |-> c.hdr, list |-> c.list, masked |-> masked[f]]
    BY <2>1 DEF Snapshot
  <2>3. masked[f] \in SUBSET (Nat \ {0})
    BY <1>3 DEF FileTypes
  <2> QED
    BY <2>2, <2>3, FileFacts DEF Snapshots
<1> QED
  BY <1>1, <1>2, <1>3

LEMMA ViewFacts ==
    ASSUME FileTypes, ReaderTypes, NEW r \in Readers
    PROVE  View(r) \in Snapshots /\ View(r) # NoCopy
<1>1. reader[r].src \in {"flash", "staging"} /\ reader[r].copy \in Snapshots \cup {NoCopy}
  BY DEF ReaderTypes, ReaderType
<1> QED
  BY <1>1, CopyFacts DEF View

LEMMA EmptyTableFacts ==
    EmptyTable \in Tables /\ Proper(EmptyTable)
<1>1. <<>> \in Seq(Strings) /\ DOMAIN <<>> = {}
  OBVIOUS
<1> QED
  BY <1>1 DEF EmptyTable, Tables, Proper

\* When the writing process ends, or begins the list again.
LEMMA GoneTypes ==
    ASSUME WriterTypes, WriterGone, UNCHANGED writes
    PROVE  WriterTypes'
<1>1. Begin \in [bucket : 1 .. NBuckets + 1, place : Nat \ {0}, bytes : Nat]
  BY SizesAreNumbers DEF Begin
<1>2. table' \in Tables /\ Proper(table')
  BY EmptyTableFacts DEF WriterGone
<1>3. /\ wpc' = "idle" /\ cmd' \in Commands \cup {NoCmd} /\ idx' \in Nat \ {0}
      /\ reload' \in BOOLEAN /\ writes' \in 0 .. MaxWrites
      /\ at' \in [bucket : 1 .. NBuckets + 1, place : Nat \ {0}, bytes : Nat]
  <2>1. writes \in 0 .. MaxWrites
    BY DEF WriterTypes
  <2>2. cmd' \in Commands \cup {NoCmd} /\ reload' \in BOOLEAN /\ writes' = writes /\ at' = Begin
    BY Zenon DEF WriterGone
  <2>3. wpc' = "idle" /\ idx' \in Nat \ {0}
    BY DEF WriterGone
  <2> QED
    BY <1>1, <2>1, <2>2, <2>3
<1> QED
  BY <1>2, <1>3 DEF WriterTypes

LEMMA CommandFacts ==
    ASSUME NEW c \in Commands \cup {NoCmd}
    PROVE  /\ c.op = "set" => c.name \in Names /\ c.value \in Inputs
           /\ c.op = "unset" => c.name \in Names
<1>1. CASE c = NoCmd
  BY <1>1 DEF NoCmd
<1>2. CASE c \in Commands
  BY <1>2 DEF Commands
<1> QED
  BY <1>1, <1>2

\* The initial state has the types.
LEMMA TypesBegin ==
    Init => TypeInv
<1> SUFFICES ASSUME Init PROVE TypeInv
  OBVIOUS
<1>1. PICK h \in Headers, c \in Contents : flash = Image("whole", h, c[1], Length(c[2]))
  BY DEF Init
<1>2. Contents \subseteq Seq(Strings) \X Nat /\ h \in Header
  BY NvramAssumption DEF Strings
<1>3. c[1] \in Seq(Strings) /\ c[2] \in Nat
  BY <1>2
<1>4. Length(c[2]) \in Nat
  BY <1>3, SizesAreNumbers
<1>5. flash \in Files /\ NoFile \in Files /\ flash.st = "whole" /\ NoFile.st = "none"
  BY <1>1, <1>2, <1>3, <1>4, MakeFile DEF States, Image, NoFile
<1>6. FileTypes
  BY <1>5 DEF Init, FileTypes
<1>7. WriterTypes
  <2>1. Begin \in [bucket : 1 .. NBuckets + 1, place : Nat \ {0}, bytes : Nat]
    BY SizesAreNumbers DEF Begin
  <2>2. table \in Tables /\ Proper(table)
    BY EmptyTableFacts DEF Init
  <2>3. 0 \in 0 .. MaxWrites
    BY SizesAreNumbers
  <2>4. cmd \in Commands \cup {NoCmd} /\ reload \in BOOLEAN
    BY Zenon DEF Init
  <2>5. wpc = "idle" /\ idx = 1 /\ writes = 0 /\ at = Begin
    BY DEF Init
  <2> QED
    BY <2>1, <2>2, <2>3, <2>4, <2>5 DEF WriterTypes
<1>8. ReaderTypes
  <2>1. NoReader \in ReaderType
    BY DEF NoReader, ReaderType
  <2>2. NoReader.pc = "idle"
    BY DEF NoReader
  <2> QED
    BY <2>1, <2>2 DEF Init, ReaderTypes, ReaderInv
<1> QED
  BY <1>5, <1>6, <1>7, <1>8 DEF Init, TypeInv, Types, FilesInv

\* A step of the writing command: the files, the command's own state and the readers.
LEMMA WriterKeepsTypes ==
    ASSUME TypeInv, Writer
    PROVE  Types'
<1>1. FileTypes /\ WriterTypes /\ ReaderTypes /\ (wpc = "unmask" => idx \in DOMAIN staging.list)
  BY DEF TypeInv, Types
<1>2. NoFile \in Files /\ NoFile.st = "none"
  <2>1. flash.hdr \in Header /\ flash.list \in Seq(Strings) /\ flash.len \in Nat /\ flash.st \in States
    BY <1>1, FileFacts DEF FileTypes
  <2> QED
    BY <2>1, MakeFile DEF NoFile, Image
<1>0. FilesInv
  BY DEF TypeInv
<1>3. CASE Start
  <2>1. FileTypes'
    BY <1>1, <1>3 DEF Start, FileTypes
  <2>2. WriterTypes' /\ wpc' # "unmask"
    <3>1. writes' \in 0 .. MaxWrites
      BY <1>1, <1>3, SizesAreNumbers DEF Start, WriterTypes
    <3> QED
      BY <1>1, <1>3, <3>1 DEF Start, WriterTypes
  <2>3. ReaderTypes'
    <3>1. ASSUME NEW r \in Readers
          PROVE  reader'[r] \in ReaderType /\ ReaderInv(r)'
      <4>1. reader[r] \in ReaderType /\ ReaderInv(r)
        BY <1>1 DEF ReaderTypes
      <4>2. CASE reader[r] = NoReader
        <5>1. reader'[r] = reader[r]
          BY <1>3, <4>2 DEF Start
        <5> QED
          BY <4>1, <5>1 DEF ReaderInv
      <4>3. CASE reader[r] # NoReader
        <5>1. reader'[r] = [reader[r] EXCEPT !.overlap = TRUE]
          BY <1>3, <4>3 DEF Start
        <5> QED
          BY <4>1, <4>3, <5>1 DEF ReaderInv, ReaderType
      <4> QED
        BY <4>2, <4>3
    <3>2. reader' = [r \in Readers |-> reader'[r]]
      BY <1>3 DEF Start
    <3> QED
      BY <3>1, <3>2 DEF ReaderTypes
  <2> QED
    BY <2>1, <2>2, <2>3 DEF Types
<1>4. CASE ~Start /\ ~Unlink
  <2>1. reader' = reader
    BY <1>4 DEF Writer, FindStaging, CreateStaging, CopyToStaging, MapStaging, MaskTuple,
       UnmaskTuple, FillBacked, Edit, Clear, WriteTuple, EndList, Reload, Close, ReadStaging,
       WriteFlash
  <2>2. ReaderTypes'
    BY <1>1, <2>1 DEF ReaderTypes, ReaderInv
  <2>3. CASE FindStaging
    <3>1. FileTypes'
      BY <1>1, <2>3 DEF FindStaging, FileTypes
    <3>2. WriterTypes' /\ wpc' # "unmask"
      BY <1>1, <2>3 DEF FindStaging, WriterTypes
    <3> QED
      BY <2>2, <3>1, <3>2 DEF Types
  <2>4. CASE CreateStaging
    <3>1. FileTypes'
      <4>1. Image("empty", flash.hdr, <<>>, 0) \in Files
        <5>1. flash.hdr \in Header /\ <<>> \in Seq(Strings)
          BY <1>1, FileFacts DEF FileTypes
        <5> QED
          BY <5>1, MakeFile DEF States
      <4>2. Image("empty", flash.hdr, <<>>, 0).st = "empty"
        BY DEF Image
      <4> QED
        BY <1>1, <2>4, <4>1, <4>2 DEF CreateStaging, FileTypes
    <3>2. WriterTypes' /\ wpc' # "unmask"
      BY <1>1, <2>4 DEF CreateStaging, WriterTypes
    <3> QED
      BY <2>2, <3>1, <3>2 DEF Types
  <2>5. CASE CopyToStaging
    <3>1. FileTypes'
      BY <1>0, <1>1, <2>5 DEF CopyToStaging, FileTypes, FilesInv
    <3>2. WriterTypes' /\ wpc' # "unmask"
      BY <1>1, <2>5 DEF CopyToStaging, WriterTypes
    <3> QED
      BY <2>2, <3>1, <3>2 DEF Types
  <2>6. CASE MapStaging
    <3>1. FileTypes'
      BY <1>1, <1>2, <2>6 DEF MapStaging, WriterGone, FileTypes
    <3>2. WriterTypes' /\ wpc' # "unmask"
      <4>1. CASE WriterGone
        BY <1>1, <2>6, <4>1, GoneTypes DEF MapStaging, WriterGone
      <4>2. CASE ~WriterGone
        BY <1>1, <2>6, <4>2 DEF MapStaging, WriterTypes
      <4> QED
        BY <4>1, <4>2
    <3> QED
      BY <2>2, <3>1, <3>2 DEF Types
  <2>7. CASE MaskTuple
    <3>1. FileTypes'
      <4>1. masked' \in [{"flash", "staging"} -> SUBSET (Nat \ {0})]
        BY <1>1, <2>7 DEF MaskTuple, FileTypes, WriterTypes
      <4> QED
        BY <1>1, <2>7, <4>1 DEF MaskTuple, FileTypes
    <3>2. WriterTypes'
      BY <1>1, <2>7 DEF MaskTuple, WriterTypes
    <3>3. wpc' = "unmask" => idx' \in DOMAIN staging'.list
      BY <2>7 DEF MaskTuple
    <3> QED
      BY <2>2, <3>1, <3>2, <3>3 DEF Types
  <2>8. CASE UnmaskTuple
    <3>1. FileTypes'
      <4>1. masked' \in [{"flash", "staging"} -> SUBSET (Nat \ {0})]
        BY <1>1, <2>8 DEF UnmaskTuple, FileTypes
      <4> QED
        BY <1>1, <2>8, <4>1 DEF UnmaskTuple, FileTypes
    <3>2. WriterTypes' /\ wpc' # "unmask"
      <4>1. staging.list \in Seq(Strings) /\ idx \in DOMAIN staging.list
        BY <1>1, <2>8, FileFacts DEF UnmaskTuple, FileTypes
      <4>2. staging.list[idx][1] \in Names /\ staging.list[idx][2] \in Values
        BY <4>1, StringFacts
      <4>3. table' \in Tables /\ Proper(table')
        BY <1>1, <2>8, <4>2, SetFacts DEF UnmaskTuple, WriterTypes
      <4> QED
        BY <1>1, <2>8, <4>3 DEF UnmaskTuple, WriterTypes
    <3> QED
      BY <2>2, <3>1, <3>2 DEF Types
  <2>9. CASE FillBacked
    <3>1. FileTypes'
      BY <1>1, <2>9 DEF FillBacked, FileTypes
    <3>2. WriterTypes' /\ wpc' # "unmask"
      <4>1. table' \in Tables /\ Proper(table')
        <5>1. \A i \in DOMAIN Backed : Backed[i] \in Names /\ Hex(staging.hdr, Backed[i]) \in Values
          BY <1>1, NamesAndBuckets, FileFacts DEF FileTypes
        <5> QED
          BY <1>1, <2>9, <5>1, SetFacts DEF FillBacked, WriterTypes
      <4> QED
        BY <1>1, <2>9, <4>1 DEF FillBacked, WriterTypes
    <3> QED
      BY <2>2, <3>1, <3>2 DEF Types
  <2>10. CASE Edit
    <3>1. FileTypes'
      BY <1>1, <2>10 DEF Edit, FileTypes
    <3>2. WriterTypes' /\ wpc' # "unmask"
      <4>1. /\ cmd.op = "set" => cmd.name \in Names /\ cmd.value \in Inputs
            /\ cmd.op = "unset" => cmd.name \in Names
        BY <1>1, CommandFacts DEF WriterTypes
      <4>2. table' \in Tables /\ Proper(table')
        <5>1. CASE cmd.op = "set" /\ Fits(cmd.value)
          BY <1>1, <2>10, <4>1, <5>1, SetFacts, SizesAreNumbers DEF Edit, WriterTypes
        <5>2. CASE cmd.op = "unset"
          BY <1>1, <2>10, <4>1, <5>2, UnsetFacts DEF Edit, WriterTypes
        <5>3. CASE ~(cmd.op = "set" /\ Fits(cmd.value)) /\ cmd.op # "unset"
          BY <1>1, <2>10, <5>3 DEF Edit, WriterTypes
        <5> QED
          BY <5>1, <5>2, <5>3
      <4> QED
        BY <1>1, <2>10, <4>2 DEF Edit, WriterTypes
    <3> QED
      BY <2>2, <3>1, <3>2 DEF Types
  <2>11. CASE Clear
    <3>1. FileTypes'
      <4>1. HeaderOf(table) \in Header /\ <<>> \in Seq(Strings) /\ staging.len \in Nat
        BY <1>1, HeaderType, FileFacts DEF WriterTypes, FileTypes
      <4>2. Image("open", HeaderOf(table), <<>>, staging.len) \in Files
        BY <4>1, MakeFile DEF States
      <4>3. Image("open", HeaderOf(table), <<>>, staging.len).st = "open"
        BY DEF Image
      <4> QED
        BY <1>1, <2>11, <4>2, <4>3 DEF Clear, FileTypes
    <3>2. WriterTypes' /\ wpc' # "unmask"
      <4>1. Begin \in [bucket : 1 .. NBuckets + 1, place : Nat \ {0}, bytes : Nat]
        BY SizesAreNumbers DEF Begin
      <4> QED
        BY <1>1, <2>11, <4>1 DEF Clear, WriterTypes
    <3> QED
      BY <2>2, <3>1, <3>2 DEF Types
  <2>12. CASE WriteTuple
    <3>1. FileTypes'
      <4>1. staging' \in Files /\ staging'.st = staging.st
        <5>1. CASE staging' = staging
          BY <1>1, <5>1 DEF FileTypes
        <5>2. CASE staging' # staging
          <6>1. PICK t : t = table[at.bucket][at.place]
            OBVIOUS
          <6>2. at.place \in DOMAIN table[at.bucket] /\ staging' = [staging EXCEPT !.list = Append(@, t)]
            BY <2>12, <5>2, <6>1 DEF WriteTuple
          <6>3. table[at.bucket] \in Seq(Strings)
            BY <1>1, <2>12, SizesAreNumbers DEF WriteTuple, WriterTypes, Tables
          <6>4. t \in Strings
            BY <6>1, <6>2, <6>3, StringFacts
          <6>5. staging \in Files /\ staging.list \in Seq(Strings)
            BY <1>1, FileFacts DEF FileTypes
          <6>6. Append(staging.list, t) \in Seq(Strings)
            BY <6>4, <6>5
          <6> QED
            BY <6>2, <6>5, <6>6 DEF Files, Strings
        <5> QED
          BY <5>1, <5>2
      <4> QED
        BY <1>1, <2>12, <4>1 DEF WriteTuple, FileTypes
    <3>2. WriterTypes' /\ wpc' # "unmask"
      <4>1. at' \in [bucket : 1 .. NBuckets + 1, place : Nat \ {0}, bytes : Nat]
        <5>1. PICK t : t = table[at.bucket][at.place]
          OBVIOUS
        <5>2. /\ at \in [bucket : 1 .. NBuckets + 1, place : Nat \ {0}, bytes : Nat]
              /\ at.bucket <= NBuckets /\ table[at.bucket] \in Seq(Strings)
          BY <1>1, <2>12, SizesAreNumbers DEF WriteTuple, WriterTypes, Tables
        <5>3. CASE at.place \in DOMAIN table[at.bucket] /\ at.bytes + Bytes(t) <= Size - 2
          <6>1. at' = [at EXCEPT !.place = @ + 1, !.bytes = @ + Bytes(t)]
            BY <2>12, <5>1, <5>3 DEF WriteTuple
          <6>2. Bytes(t) \in Nat
            BY <5>1, <5>2, <5>3, StringFacts, SizesAreNumbers
          <6>3. at.place + 1 \in Nat \ {0} /\ at.bytes + Bytes(t) \in Nat
            BY <5>2, <6>2
          <6> QED
            BY <5>2, <6>1, <6>3
        <5>4. CASE ~(at.place \in DOMAIN table[at.bucket] /\ at.bytes + Bytes(t) <= Size - 2)
          <6>1. at' = [at EXCEPT !.bucket = @ + 1, !.place = 1]
            BY <2>12, <5>1, <5>4 DEF WriteTuple
          <6>2. at.bucket \in 1 .. NBuckets + 1 /\ NBuckets \in Nat
            BY <5>2, SizesAreNumbers
          <6>3. at.bucket + 1 \in 1 .. NBuckets + 1
            BY <5>2, <6>2
          <6>4. at'.bucket = at.bucket + 1 /\ at'.place = 1 /\ at'.bytes = at.bytes
            BY <5>2, <6>1
          <6>5. at' = [bucket |-> at'.bucket, place |-> at'.place, bytes |-> at'.bytes]
            BY <5>2, <6>1
          <6>6. at.bytes \in Nat /\ 1 \in Nat \ {0}
            BY <5>2
          <6> QED
            BY <6>3, <6>4, <6>5, <6>6
        <5> QED
          BY <5>3, <5>4
      <4> QED
        BY <1>1, <2>12, <4>1 DEF WriteTuple, WriterTypes
    <3> QED
      BY <2>2, <3>1, <3>2 DEF Types
  <2>13. CASE EndList
    <3>1. FileTypes'
      <4>1. staging \in Files /\ Length(at.bytes) \in Nat
        BY <1>1, SizesAreNumbers DEF FileTypes, WriterTypes
      <4>2. staging' \in Files /\ staging'.st = "whole"
        BY <2>13, <4>1 DEF EndList, Files
      <4> QED
        BY <1>1, <2>13, <4>2 DEF EndList, FileTypes
    <3>2. WriterTypes' /\ wpc' # "unmask"
      BY <1>1, <2>13 DEF EndList, WriterTypes
    <3> QED
      BY <2>2, <3>1, <3>2 DEF Types
  <2>14. CASE Reload
    <3>1. FileTypes'
      BY <1>1, <2>14 DEF Reload, FileTypes
    <3>2. WriterTypes' /\ wpc' # "unmask"
      <4>1. table' \in Tables /\ Proper(table')
        BY <2>14, EmptyTableFacts DEF Reload
      <4> QED
        BY <1>1, <2>14, <4>1 DEF Reload, WriterTypes
    <3> QED
      BY <2>2, <3>1, <3>2 DEF Types
  <2>15. CASE Close
    <3>1. FileTypes'
      BY <1>1, <1>2, <2>15 DEF Close, WriterGone, FileTypes
    <3>2. WriterTypes' /\ wpc' # "unmask"
      <4>1. CASE WriterGone
        BY <1>1, <2>15, <4>1, GoneTypes DEF Close, WriterGone
      <4>2. CASE ~WriterGone
        BY <1>1, <2>15, <4>2 DEF Close, WriterTypes
      <4> QED
        BY <4>1, <4>2
    <3> QED
      BY <2>2, <3>1, <3>2 DEF Types
  <2>16. CASE ReadStaging
    <3>1. FileTypes'
      BY <1>1, <2>16 DEF ReadStaging, FileTypes
    <3>2. WriterTypes' /\ wpc' # "unmask"
      BY <1>1, <2>16 DEF ReadStaging, WriterTypes
    <3> QED
      BY <2>2, <3>1, <3>2 DEF Types
  <2>17. CASE WriteFlash
    <3>1. FileTypes'
      <4>1. CASE wpc = "save"
        <5>1. flash' = [flash EXCEPT !.st = "torn"]
          BY <2>17, <4>1 DEF WriteFlash
        <5>2. flash' \in Files /\ flash'.st = "torn"
          BY <1>1, <5>1 DEF FileTypes, Files
        <5> QED
          BY <1>1, <2>17, <5>2 DEF WriteFlash, FileTypes
      <4>2. CASE wpc # "save"
        BY <1>0, <1>1, <2>17, <4>2 DEF WriteFlash, FileTypes, FilesInv, Files
      <4> QED
        BY <4>1, <4>2
    <3>2. WriterTypes' /\ wpc' # "unmask"
      BY <1>1, <2>17 DEF WriteFlash, WriterTypes
    <3> QED
      BY <2>2, <3>1, <3>2 DEF Types
  <2> QED
    BY <1>4, <2>3, <2>4, <2>5, <2>6, <2>7, <2>8, <2>9, <2>10, <2>11, <2>12, <2>13, <2>14, <2>15, <2>16, <2>17 DEF Writer
<1>5. CASE Unlink
  <2>1. FileTypes'
    <3>1. masked' \in [{"flash", "staging"} -> SUBSET (Nat \ {0})]
      BY <1>1, <1>5 DEF Unlink, FileTypes
    <3> QED
      BY <1>1, <1>2, <1>5, <3>1 DEF Unlink, WriterGone, FileTypes
  <2>2. WriterTypes' /\ wpc' # "unmask"
    BY <1>1, <1>5, GoneTypes DEF Unlink, WriterGone
  <2>3. ReaderTypes'
    <3>1. ASSUME NEW r \in Readers
          PROVE  reader'[r] \in ReaderType /\ ReaderInv(r)'
      <4>1. reader[r] \in ReaderType /\ ReaderInv(r)
        BY <1>1 DEF ReaderTypes
      <4>2. CASE reader'[r] = reader[r]
        BY <4>1, <4>2 DEF ReaderInv
      <4>3. CASE reader'[r] # reader[r]
        <5>1. PICK c : c = Snapshot("staging")
          OBVIOUS
        <5>2. /\ reader'[r] = [reader[r] EXCEPT !.copy = c]
              /\ reader[r].pc \in {"mask", "unmask"} /\ reader[r].copy = NoCopy
          BY <1>5, <4>3, <5>1 DEF Unlink
        <5>3. c \in Snapshots
          BY <1>1, <5>1, CopyFacts
        <5> QED
          BY <4>1, <5>2, <5>3 DEF ReaderInv, ReaderType
      <4> QED
        BY <4>2, <4>3
    <3>2. reader' = [r \in Readers |-> reader'[r]]
      BY <1>5 DEF Unlink
    <3> QED
      BY <3>1, <3>2 DEF ReaderTypes
  <2> QED
    BY <2>1, <2>2, <2>3 DEF Types
<1> QED
  BY <1>3, <1>4, <1>5

\* The files, as the writing command works on them.
LEMMA WriterKeepsFiles ==
    ASSUME TypeInv, Writer
    PROVE  FilesInv'
<1>1. FilesInv
  BY DEF TypeInv
<1>2. wpc \in {"idle", "find", "create", "copy", "map", "mask", "unmask", "fill", "edit",
               "clear", "write", "written", "close", "read", "save", "saving", "unlink"}
  BY DEF TypeInv, Types, WriterTypes
<1>3. masked \in [{"flash", "staging"} -> SUBSET (Nat \ {0})] /\ flash \in Files /\ staging \in Files
      /\ flash.st \in {"whole", "torn"} /\ staging.st \in {"none", "empty", "open", "whole"}
  BY DEF TypeInv, Types, FileTypes, Files
<1>4. CASE Start
  BY <1>1, <1>2, <1>3, <1>4 DEF Start, FilesInv
<1>5. CASE FindStaging
  BY <1>1, <1>2, <1>3, <1>5 DEF FindStaging, FilesInv
<1>6. CASE CreateStaging
  BY <1>1, <1>2, <1>3, <1>6 DEF CreateStaging, Image, FilesInv
<1>7. CASE CopyToStaging
  BY <1>1, <1>2, <1>3, <1>7 DEF CopyToStaging, FilesInv
<1>8. CASE MapStaging
  BY <1>1, <1>2, <1>3, <1>8 DEF MapStaging, WriterGone, FilesInv
<1>9. CASE MaskTuple
  BY <1>1, <1>2, <1>3, <1>9 DEF MaskTuple, FilesInv
<1>10. CASE UnmaskTuple
  BY <1>1, <1>2, <1>3, <1>10 DEF UnmaskTuple, FilesInv
<1>11. CASE FillBacked
  BY <1>1, <1>2, <1>3, <1>11 DEF FillBacked, FilesInv
<1>12. CASE Edit
  BY <1>1, <1>2, <1>3, <1>12 DEF Edit, FilesInv
<1>13. CASE Clear
  BY <1>1, <1>2, <1>3, <1>13 DEF Clear, Image, FilesInv
<1>14. CASE WriteTuple
  BY <1>1, <1>2, <1>3, <1>14 DEF WriteTuple, Files, FilesInv
<1>15. CASE EndList
  BY <1>1, <1>2, <1>3, <1>15 DEF EndList, Files, FilesInv
<1>16. CASE Reload
  BY <1>1, <1>2, <1>3, <1>16 DEF Reload, FilesInv
<1>17. CASE Close
  BY <1>1, <1>2, <1>3, <1>17 DEF Close, WriterGone, FilesInv
<1>18. CASE ReadStaging
  BY <1>1, <1>2, <1>3, <1>18 DEF ReadStaging, FilesInv
<1>19. CASE WriteFlash
  BY <1>1, <1>2, <1>3, <1>19 DEF WriteFlash, FilesInv
<1>20. CASE Unlink
  BY <1>1, <1>2, <1>3, <1>20 DEF Unlink, WriterGone, NoFile, Image, FilesInv
<1> QED
  BY <1>4, <1>5, <1>6, <1>7, <1>8, <1>9, <1>10, <1>11, <1>12, <1>13, <1>14, <1>15, <1>16, <1>17, <1>18, <1>19, <1>20 DEF Writer

\* The steps of the reading commands.
LEMMA ReaderKeepsTypes ==
    ASSUME TypeInv, NEW r \in Readers, Reader(r)
    PROVE  TypeInv'
<1>1. FileTypes /\ WriterTypes /\ ReaderTypes /\ FilesInv
      /\ (wpc = "unmask" => idx \in DOMAIN staging.list)
  BY SMTT(60) DEF TypeInv, Types
<1>2. UNCHANGED <<flash, staging, masked, writerVars>>
  BY DEF Reader, FindSource, MapSource, ReadEnds, ReadTuple, ReadOn, Answer, PrivateMap
<1>3. FileTypes' /\ WriterTypes' /\ FilesInv' /\ (wpc' = "unmask" => idx' \in DOMAIN staging'.list)
  BY <1>1, <1>2 DEF FileTypes, WriterTypes, FilesInv, writerVars
<1>4. NoReader \in ReaderType /\ NoReader.pc = "idle"
  BY DEF NoReader, ReaderType
<1>5. reader[r] \in ReaderType /\ ReaderInv(r) /\ View(r) \in Snapshots /\ View(r) # NoCopy
  BY <1>1, ViewFacts DEF ReaderTypes
<1>6. \E x \in ReaderType :
         /\ reader' = [reader EXCEPT ![r] = x]
         /\ x.pc = "idle" => x = NoReader
         /\ x.pc # "idle" => x.name \in Names
         /\ x.pc = "unmask" => x.copy # NoCopy /\ x.idx \in DOMAIN x.copy.list
  <2>1. CASE ReaderGone(r)
    BY <1>4, <2>1 DEF ReaderGone
  <2>2. CASE FindSource(r)
    <3>1. PICK n \in Names : reader' = [reader EXCEPT ![r] = [NoReader EXCEPT
              !.pc = "map", !.name = n, !.overlap = wpc # "idle",
              !.src = IF staging.st = "none" THEN "flash" ELSE "staging"]]
      BY <2>2 DEF FindSource
    <3> DEFINE x == [NoReader EXCEPT !.pc = "map", !.name = n, !.overlap = wpc # "idle",
                       !.src = IF staging.st = "none" THEN "flash" ELSE "staging"]
    <3>2. x \in ReaderType /\ x.pc = "map" /\ x.name = n
      BY <1>4 DEF NoReader, ReaderType
    <3> QED
      BY <3>1, <3>2
  <2>3. CASE MapSource(r) /\ ~ReaderGone(r)
    <3> DEFINE x == [reader[r] EXCEPT !.pc = "mask"]
    <3>1. reader' = [reader EXCEPT ![r] = x] /\ reader[r].pc = "map"
      BY <2>3 DEF MapSource
    <3>2. x \in ReaderType /\ x.pc = "mask" /\ x.name \in Names
      BY <1>5, <3>1 DEF ReaderType, ReaderInv
    <3> QED
      BY <3>1, <3>2
  <2>4. CASE ReadEnds(r) /\ ~ReaderGone(r)
    <3> DEFINE v == IF reader[r].found = Absent /\ reader[r].name \in Sdram
                    THEN Hex(View(r).hdr, reader[r].name) ELSE reader[r].found
               x == [reader[r] EXCEPT !.pc = "answer", !.found = v]
    <3>1. reader' = [reader EXCEPT ![r] = x] /\ reader[r].pc = "mask"
      BY <2>4 DEF ReadEnds
    <3>2. v \in Values \cup {Absent}
      BY <1>5, HexIsValue DEF ReaderType, Snapshots
    <3>3. x \in ReaderType /\ x.pc = "answer" /\ x.name \in Names
      BY <1>5, <3>1, <3>2 DEF ReaderType, ReaderInv
    <3> QED
      BY <3>1, <3>3
  <2>5. CASE ReadTuple(r)
    <3>1. PICK c, t : c = View(r) /\ t = c.list[reader[r].idx]
      OBVIOUS
    <3> DEFINE v == IF t[1] = reader[r].name THEN t[2] ELSE reader[r].found
               x == [reader[r] EXCEPT !.pc = "unmask", !.found = v, !.copy = c]
    <3>2. /\ reader' = [reader EXCEPT ![r] = x] /\ reader[r].pc = "mask"
          /\ reader[r].idx \in DOMAIN c.list
      BY <2>5, <3>1 DEF ReadTuple, PrivateMap, AtEnd
    <3>3. c \in Snapshots /\ c # NoCopy /\ c.list \in Seq(Strings)
      BY <1>5, <3>1 DEF Snapshots
    <3>4. v \in Values \cup {Absent}
      BY <1>5, <3>1, <3>2, <3>3, StringFacts DEF ReaderType
    <3>5. x \in ReaderType /\ x.pc = "unmask" /\ x.name \in Names /\ x.copy = c /\ x.idx = reader[r].idx
      BY <1>5, <3>2, <3>3, <3>4 DEF ReaderType, ReaderInv
    <3> QED
      BY <3>2, <3>3, <3>5
  <2>6. CASE ReadOn(r)
    <3> DEFINE x == [reader[r] EXCEPT !.pc = "mask", !.idx = reader[r].idx + 1]
    <3>1. reader' = [reader EXCEPT ![r] = x] /\ reader[r].pc = "unmask"
      BY <2>6 DEF ReadOn
    <3>2. reader[r].idx + 1 \in Nat \ {0}
      <4>1. PICK i \in Nat \ {0} : i = reader[r].idx
        BY <1>5 DEF ReaderType
      <4> QED
        BY <4>1
    <3>3. x \in ReaderType /\ x.pc = "mask" /\ x.name \in Names
      BY <1>5, <3>1, <3>2 DEF ReaderType, ReaderInv
    <3> QED
      BY <3>1, <3>3
  <2> QED
    BY <2>1, <2>2, <2>3, <2>4, <2>5, <2>6 DEF Reader, Answer
<1>7. PICK x \in ReaderType :
         /\ reader' = [reader EXCEPT ![r] = x]
         /\ x.pc = "idle" => x = NoReader
         /\ x.pc # "idle" => x.name \in Names
         /\ x.pc = "unmask" => x.copy # NoCopy /\ x.idx \in DOMAIN x.copy.list
  BY <1>6
<1>8. ASSUME NEW q \in Readers
      PROVE  reader'[q] \in ReaderType /\ ReaderInv(q)'
  <2>1. CASE q = r
    <3>1. reader'[q] = x
      BY <1>1, <1>7, <2>1 DEF ReaderTypes
    <3> QED
      BY <1>7, <3>1 DEF ReaderInv
  <2>2. CASE q # r
    <3>1. reader'[q] = reader[q] /\ reader[q] \in ReaderType /\ ReaderInv(q)
      BY <1>1, <1>7, <2>2 DEF ReaderTypes
    <3> QED
      BY <3>1 DEF ReaderInv
  <2> QED
    BY <2>1, <2>2
<1>9. ReaderTypes'
  <2>1. reader' = [q \in Readers |-> reader'[q]]
    BY <1>1, <1>7 DEF ReaderTypes
  <2> QED
    BY <1>8, <2>1 DEF ReaderTypes
<1> QED
  BY <1>3, <1>9 DEF TypeInv, Types

LEMMA RebootKeepsTypes ==
    ASSUME TypeInv, Reboot
    PROVE  TypeInv'
<1>1. FileTypes /\ WriterTypes /\ FilesInv
  BY DEF TypeInv, Types
<1>2. NoFile \in Files /\ NoFile.st = "none"
  <2>1. flash.hdr \in Header /\ flash.list \in Seq(Strings) /\ flash.len \in Nat /\ flash.st \in States
    BY <1>1, FileFacts DEF FileTypes
  <2> QED
    BY <2>1, MakeFile DEF NoFile, Image
<1>3. FileTypes'
  BY <1>1, <1>2 DEF Reboot, WriterGone, FileTypes
<1>4. WriterTypes' /\ wpc' = "idle"
  BY <1>1, GoneTypes DEF Reboot, WriterGone
<1>5. NoReader \in ReaderType /\ NoReader.pc = "idle"
  BY DEF NoReader, ReaderType
<1>6. ReaderTypes'
  BY <1>5 DEF Reboot, ReaderTypes, ReaderInv
<1>7. FilesInv'
  BY <1>1, <1>2, <1>4, <1>5 DEF Reboot, FilesInv
<1> QED
  BY <1>3, <1>4, <1>6, <1>7 DEF TypeInv, Types

LEMMA TypesStay ==
    TypeInv /\ [Next]_vars => TypeInv'
<1> SUFFICES ASSUME TypeInv, [Next]_vars PROVE TypeInv'
  OBVIOUS
<1>1. CASE Writer
  BY <1>1, WriterKeepsTypes, WriterKeepsFiles DEF TypeInv
<1>2. CASE Reboot
  BY <1>2, RebootKeepsTypes
<1>3. ASSUME NEW r \in Readers, Reader(r) PROVE TypeInv'
  BY <1>3, ReaderKeepsTypes
<1>4. CASE UNCHANGED vars
  BY <1>4 DEF vars, writerVars, TypeInv, Types, FileTypes, WriterTypes, ReaderTypes, ReaderInv, FilesInv
<1> QED
  BY <1>1, <1>2, <1>3, <1>4 DEF Next

\* Whatever commands run and wherever power fails, the files, the table and what
\* readers hold stay in their ranges, and nobody reads past the end of a list.
THEOREM RangesKept ==
    Spec => []TypeOK
<1>1. Init => TypeInv
  BY TypesBegin
<1>2. TypeInv /\ [Next]_vars => TypeInv'
  BY TypesStay
<1>3. TypeInv => TypeOK
  BY TypeInvIsEnough
<1> QED
  BY <1>1, <1>2, <1>3, PTL DEF Spec

-----------------------------------------------------------------------------
(***************************************************************************)
(* The header.  When the rehash ends the table has every variable that the *)
(* header backs, and only unset takes one out again.                       *)
(***************************************************************************)
AllBacked == \A n \in Sdram : Has(table, n)

HeaderInv ==
    /\ wpc = "fill" => \A i \in DOMAIN Backed : i < idx => Has(table, Backed[i])
    /\ wpc = "edit" => AllBacked
    /\ wpc \in {"clear", "write", "written"} /\ ~(cmd.op = "unset" /\ cmd.name \in Sdram) => AllBacked
    /\ wpc \in {"write", "written"} => staging.hdr = HeaderOf(table)

LEMMA HeaderStep ==
    ASSUME TypeInv, HeaderInv, [Next]_vars
    PROVE  HeaderInv'
<1>1. table \in Tables /\ Proper(table) /\ idx \in Nat \ {0} /\ cmd \in Commands \cup {NoCmd}
      /\ staging \in Files
  BY DEF TypeInv, Types, WriterTypes, FileTypes
<1>2. CASE MaskTuple
  BY <1>2, NamesAndBuckets DEF MaskTuple, HeaderInv
<1>3. CASE FillBacked
  <2>1. CASE idx \in DOMAIN Backed
    <3>1. PICK n \in Names : n = Backed[idx] /\ n \in Sdram
      BY <2>1, NamesAndBuckets
    <3>2. wpc = "fill" /\ wpc' = "fill" /\ idx' = idx + 1
          /\ table' = (IF Has(table, n) THEN table ELSE SetIn(table, n, Hex(staging.hdr, n)))
      BY <1>3, <2>1, <3>1 DEF FillBacked
    <3>3. Hex(staging.hdr, n) \in Values
      BY <1>1, <3>1, FileFacts
    <3>4. Has(table', n) /\ \A m \in Names : Has(table, m) => Has(table', m)
      <4>1. CASE Has(table, n)
        BY <3>2, <4>1
      <4>2. CASE ~Has(table, n)
        <5>1. table' = SetIn(table, n, Hex(staging.hdr, n))
          BY <3>2, <4>2
        <5> QED
          BY <1>1, <3>3, <5>1, SetFacts
      <4> QED
        BY <4>1, <4>2
    <3>5. \A i \in DOMAIN Backed : i < idx => Has(table, Backed[i])
      BY <3>2 DEF HeaderInv
    <3>6. ASSUME NEW i \in DOMAIN Backed, i < idx'
          PROVE  Has(table', Backed[i])
      <4>1. i < idx \/ i = idx
        BY <1>1, <3>2, <3>6, NamesAndBuckets
      <4> QED
        BY <3>1, <3>4, <3>5, <4>1, NamesAndBuckets
    <3> QED
      BY <3>2, <3>6 DEF HeaderInv
  <2>2. CASE idx \notin DOMAIN Backed
    <3>1. wpc = "fill" /\ wpc' \in {"close", "edit"} /\ UNCHANGED <<table, idx>>
      BY <1>3, <2>2 DEF FillBacked
    <3>2. \A i \in DOMAIN Backed : i < idx
      BY <1>1, <2>2, NamesAndBuckets
    <3>3. \A i \in DOMAIN Backed : Has(table, Backed[i])
      BY <3>1, <3>2 DEF HeaderInv
    <3>4. AllBacked'
      BY <3>1, <3>3 DEF AllBacked, Sdram
    <3> QED
      BY <3>1, <3>4 DEF HeaderInv
  <2> QED
    BY <2>1, <2>2
<1>4. CASE Edit
  <2>1. wpc = "edit" /\ wpc' = "clear" /\ cmd' = cmd /\ AllBacked
    BY <1>4 DEF Edit, HeaderInv
  <2>2. \A n \in Sdram : n \in Names
    BY NamesAndBuckets
  <2>3. CASE cmd.op = "set" /\ Fits(cmd.value)
    <3>1. cmd.name \in Names /\ cmd.value \in Values
      BY <1>1, <2>3, CommandFacts, SizesAreNumbers
    <3>2. table' = SetIn(table, cmd.name, cmd.value)
      BY <1>4, <2>3 DEF Edit
    <3>3. AllBacked'
      BY <1>1, <2>1, <2>2, <3>1, <3>2, SetFacts DEF AllBacked
    <3> QED
      BY <2>1, <3>3 DEF HeaderInv
  <2>4. CASE cmd.op = "unset"
    <3>1. cmd.name \in Names
      BY <1>1, <2>4, CommandFacts
    <3>2. table' = UnsetIn(table, cmd.name)
      BY <1>4, <2>4 DEF Edit
    <3>3. cmd.name \notin Sdram => AllBacked'
      BY <1>1, <2>1, <2>2, <3>1, <3>2, UnsetFacts DEF AllBacked
    <3> QED
      BY <2>1, <2>4, <3>3 DEF HeaderInv
  <2>5. CASE ~(cmd.op = "set" /\ Fits(cmd.value)) /\ cmd.op # "unset"
    <3>1. table' = table
      BY <1>4, <2>5 DEF Edit
    <3> QED
      BY <2>1, <3>1 DEF HeaderInv, AllBacked
  <2> QED
    BY <2>3, <2>4, <2>5
<1>5. CASE Clear
  BY <1>5 DEF Clear, HeaderInv, AllBacked, Image
<1>6. CASE WriteTuple
  <2>1. staging'.hdr = staging.hdr /\ wpc = "write" /\ UNCHANGED <<wpc, cmd, table>>
    BY <1>1, <1>6 DEF WriteTuple, Files
  <2> QED
    BY <2>1 DEF HeaderInv, AllBacked
<1>7. CASE EndList
  <2>1. staging'.hdr = staging.hdr /\ wpc = "write" /\ wpc' = "written" /\ UNCHANGED <<cmd, table>>
    BY <1>1, <1>7 DEF EndList, Files
  <2> QED
    BY <2>1 DEF HeaderInv, AllBacked
<1>8. CASE Start \/ FindStaging \/ CreateStaging \/ CopyToStaging \/ MapStaging \/ UnmaskTuple
           \/ Reload \/ Close \/ ReadStaging \/ WriteFlash \/ Unlink \/ Reboot
  <2>1. wpc' \notin {"fill", "edit", "clear", "write", "written"}
    BY <1>8 DEF Start, FindStaging, CreateStaging, CopyToStaging, MapStaging, UnmaskTuple,
       Reload, Close, ReadStaging, WriteFlash, Unlink, Reboot, WriterGone
  <2> QED
    BY <2>1 DEF HeaderInv
<1>9. CASE (\E r \in Readers : Reader(r)) \/ UNCHANGED vars
  <2>1. UNCHANGED <<wpc, idx, table, cmd, staging>>
    BY <1>9 DEF vars, writerVars, Reader, FindSource, MapSource, ReadEnds, ReadTuple, ReadOn, Answer
  <2> QED
    BY <2>1, SMTT(60) DEF HeaderInv, AllBacked
<1> QED
  BY <1>2, <1>3, <1>4, <1>5, <1>6, <1>7, <1>8, <1>9 DEF Next, Writer

\* After a writing command that did not unset a variable of the header, the header, from
\* which the boot loader sets up the memory, has the numbers that the variables say, those
\* of 16 bits cut to them.
THEOREM HeaderFollowsVariables ==
    Spec => []HeaderAgrees
<1>1. Init => TypeInv /\ HeaderInv
  BY TypesBegin DEF Init, HeaderInv
<1>2. TypeInv /\ HeaderInv /\ [Next]_vars => (TypeInv /\ HeaderInv)'
  BY TypesStay, HeaderStep
<1>3. TypeInv /\ HeaderInv => HeaderAgrees
  <2> SUFFICES ASSUME HeaderInv, wpc = "written", ~(cmd.op = "unset" /\ cmd.name \in Sdram),
                      NEW n \in Sdram
               PROVE  staging.hdr[n] = Field(n, ValueIn(table, n))
    BY DEF HeaderAgrees
  <2>1. AllBacked /\ staging.hdr = HeaderOf(table)
    BY DEF HeaderInv
  <2> QED
    BY <2>1 DEF AllBacked, HeaderOf
<1> QED
  BY <1>1, <1>2, <1>3, PTL DEF Spec

-----------------------------------------------------------------------------
(***************************************************************************)
(* Readers that no writer ran beside.  The invariant says what the strings *)
(* read so far leave as the value; it holds of a reader from its first     *)
(* step only because nothing writes the files meanwhile.                   *)
(***************************************************************************)
File(f) == IF f = "flash" THEN flash ELSE staging

\* The first k strings of a list leave v as the value of n.
Scanned(list, n, v, k) ==
    \/ \E p \in 1 .. k : list[p] = <<n, v>> /\ \A j \in p + 1 .. k : list[j][1] # n
    \/ v = Absent /\ \A j \in 1 .. k : list[j][1] # n

TornInv == flash.st = "torn" /\ wpc = "idle" => \A r \in Readers : reader[r].pc = "idle"

OverlapInv == wpc # "idle" => \A r \in Readers : reader[r].pc # "idle" => reader[r].overlap

ScanInv(r) ==
    LET rd == reader[r]
        f  == File(rd.src)
    IN  /\ rd.src = (IF staging.st = "none" THEN "flash" ELSE "staging")
        /\ rd.pc # "map" => f.st = "whole"
        /\ rd.copy = NoCopy \/ rd.copy = Snapshot(rd.src)
        /\ rd.pc = "map" => rd.idx = 1 /\ rd.found = Absent
        /\ rd.pc = "mask" => rd.idx - 1 <= Len(f.list) /\ Scanned(f.list, rd.name, rd.found, rd.idx - 1)
        /\ rd.pc = "unmask" => rd.idx <= Len(f.list) /\ Scanned(f.list, rd.name, rd.found, rd.idx)
        /\ rd.pc = "answer" => rd.found = Vars(f)[rd.name]

CurrentInv ==
    /\ TornInv
    /\ OverlapInv
    /\ \A r \in Readers : reader[r].pc # "idle" /\ ~reader[r].overlap => ScanInv(r)

LEMMA ScanGoesOn ==
    ASSUME NEW list \in Seq(Strings), NEW n, NEW v, NEW i \in DOMAIN list,
           Scanned(list, n, v, i - 1)
    PROVE  Scanned(list, n, IF list[i][1] = n THEN list[i][2] ELSE v, i)
<1>1. i \in Nat /\ i >= 1 /\ list[i] = <<list[i][1], list[i][2]>>
  BY StringFacts
<1>2. CASE list[i][1] = n
  <2>1. list[i] = <<n, list[i][2]>>
    BY <1>1, <1>2
  <2>2. i \in 1 .. i /\ \A j \in i + 1 .. i : list[j][1] # n
    BY <1>1
  <2>3. \E p \in 1 .. i : list[p] = <<n, list[i][2]>> /\ \A j \in p + 1 .. i : list[j][1] # n
    BY <2>1, <2>2
  <2> QED
    BY <1>2, <2>3 DEF Scanned
<1>3. CASE list[i][1] # n
  <2>1. \A j \in Int : j <= i => j <= i - 1 \/ j = i
    BY <1>1
  <2>2. CASE v = Absent /\ \A j \in 1 .. i - 1 : list[j][1] # n
    <3>1. \A j \in 1 .. i : list[j][1] # n
      BY <1>1, <1>3, <2>2
    <3> QED
      BY <1>3, <2>2, <3>1 DEF Scanned
  <2>3. CASE \E p \in 1 .. i - 1 : list[p] = <<n, v>> /\ \A j \in p + 1 .. i - 1 : list[j][1] # n
    <3>1. PICK p \in 1 .. i - 1 : list[p] = <<n, v>> /\ \A j \in p + 1 .. i - 1 : list[j][1] # n
      BY <2>3
    <3>2. p \in 1 .. i
      BY <1>1
    <3>3. \A j \in p + 1 .. i : list[j][1] # n
      BY <1>1, <1>3, <3>1
    <3>4. \E q \in 1 .. i : list[q] = <<n, v>> /\ \A j \in q + 1 .. i : list[j][1] # n
      BY <3>1, <3>2, <3>3
    <3> QED
      BY <1>3, <3>4 DEF Scanned
  <2> QED
    BY <2>2, <2>3 DEF Scanned
<1> QED
  BY <1>2, <1>3

LEMMA ScanEnds ==
    ASSUME NEW f \in Files, NEW n \in Names, NEW v, Scanned(f.list, n, v, Len(f.list))
    PROVE  Vars(f)[n] = IF v = Absent /\ n \in Sdram THEN Hex(f.hdr, n) ELSE v
<1>1. f.list \in Seq(Strings) /\ Len(f.list) \in Nat /\ DOMAIN f.list = 1 .. Len(f.list)
  BY FileFacts, StringFacts
<1>2. Vars(f)[n] = IF Places(f.list, n) # {} THEN f.list[LastPlace(f.list, n)][2]
                   ELSE IF n \in Sdram THEN Hex(f.hdr, n) ELSE Absent
  BY DEF Vars
<1>3. CASE v = Absent /\ \A j \in 1 .. Len(f.list) : f.list[j][1] # n
  <2>1. Places(f.list, n) = {}
    BY <1>1, <1>3 DEF Places
  <2> QED
    BY <1>2, <1>3, <2>1
<1>4. CASE \E p \in 1 .. Len(f.list) :
             f.list[p] = <<n, v>> /\ \A j \in p + 1 .. Len(f.list) : f.list[j][1] # n
  <2>1. PICK p \in 1 .. Len(f.list) :
               f.list[p] = <<n, v>> /\ \A j \in p + 1 .. Len(f.list) : f.list[j][1] # n
    BY <1>4
  <2>2. p \in Places(f.list, n)
    BY <1>1, <2>1 DEF Places
  <2>3. \A j \in Places(f.list, n) : j <= p
    BY <1>1, <2>1 DEF Places
  <2>4. \A j \in Places(f.list, n) : j \in Nat
    BY <1>1 DEF Places
  <2>5. LastPlace(f.list, n) = p
    <3>1. \E i \in Places(f.list, n) : \A j \in Places(f.list, n) : j <= i
      BY <2>2, <2>3
    <3>2. /\ LastPlace(f.list, n) \in Places(f.list, n)
          /\ \A j \in Places(f.list, n) : j <= LastPlace(f.list, n)
      BY <3>1 DEF LastPlace
    <3>3. PICK l : l = LastPlace(f.list, n)
      OBVIOUS
    <3>4. l \in Nat /\ p \in Nat /\ p <= l /\ l <= p
      BY <2>2, <2>3, <2>4, <3>2, <3>3
    <3> QED
      BY <3>3, <3>4
  <2>6. v \in Values
    BY <1>1, <2>1, StringFacts
  <2>7. f.list[p][2] = v /\ v # Absent
    BY <2>1, <2>6, SizesAreNumbers
  <2> QED
    BY <1>2, <2>2, <2>5, <2>7
<1> QED
  BY <1>3, <1>4 DEF Scanned

\* A step of the writing command leaves the readers in their places, and from its
\* first step on they have seen it.
LEMMA WriterIsSeen ==
    ASSUME TypeInv, CurrentInv, Writer
    PROVE  \A r \in Readers : reader'[r].pc # "idle" => reader'[r].overlap
<1>1. reader \in [Readers -> ReaderType] /\ \A r \in Readers : ReaderInv(r)
  BY DEF TypeInv, Types, ReaderTypes
<1> SUFFICES ASSUME NEW r \in Readers, reader'[r].pc # "idle"
             PROVE  reader'[r].overlap
  OBVIOUS
<1>2. NoReader.pc = "idle"
  BY DEF NoReader
<1>3. CASE Start
  <2>1. reader[r] # NoReader /\ reader'[r] = [reader[r] EXCEPT !.overlap = TRUE]
    BY <1>2, <1>3 DEF Start
  <2>2. reader[r] \in ReaderType
    BY <1>1
  <2> QED
    BY <2>1, <2>2 DEF ReaderType
<1>4. CASE ~Start
  <2>1. wpc # "idle"
    BY <1>4 DEF Writer, FindStaging, CreateStaging, CopyToStaging, MapStaging, MaskTuple,
       UnmaskTuple, FillBacked, Edit, Clear, WriteTuple, EndList, Reload, Close, ReadStaging,
       WriteFlash, Unlink
  <2>2. reader'[r].pc = reader[r].pc /\ reader'[r].overlap = reader[r].overlap
    <3>1. CASE Unlink
      <4>1. reader'[r] = reader[r] \/ reader'[r] = [reader[r] EXCEPT !.copy = Snapshot("staging")]
        BY <3>1 DEF Unlink
      <4>2. reader[r] \in ReaderType
        BY <1>1
      <4> QED
        BY <4>1, <4>2 DEF ReaderType
    <3>2. CASE ~Unlink
      BY <1>4, <3>2 DEF Writer, FindStaging, CreateStaging, CopyToStaging, MapStaging, MaskTuple,
         UnmaskTuple, FillBacked, Edit, Clear, WriteTuple, EndList, Reload, Close, ReadStaging,
         WriteFlash
    <3> QED
      BY <3>1, <3>2
  <2> QED
    BY <2>1, <2>2 DEF CurrentInv, OverlapInv
<1> QED
  BY <1>3, <1>4

LEMMA GoneIsIdle ==
    ASSUME NEW r \in Readers, reader \in [Readers -> ReaderType], ReaderGone(r)
    PROVE  reader'[r].pc = "idle"
<1>1. reader'[r] = NoReader
  BY DEF ReaderGone
<1>2. NoReader.pc = "idle"
  BY DEF NoReader
<1> QED
  BY <1>1, <1>2

LEMMA OverlapStays ==
    ASSUME NEW r \in Readers, reader \in [Readers -> ReaderType],
           Reader(r), ~FindSource(r), ~ReaderGone(r)
    PROVE  reader'[r].overlap = reader[r].overlap
<1>1. reader[r] \in ReaderType
  OBVIOUS
<1>2. CASE MapSource(r)
  <2>1. reader' = [reader EXCEPT ![r].pc = "mask"]
    BY <1>2 DEF MapSource
  <2> QED
    BY <1>1, <2>1 DEF ReaderType
<1>3. CASE ReadEnds(r)
  <2>1. PICK v : reader' = [reader EXCEPT ![r].pc = "answer", ![r].found = v]
    BY <1>3 DEF ReadEnds
  <2> QED
    BY <1>1, <2>1 DEF ReaderType
<1>4. CASE ReadTuple(r)
  <2>1. PICK v, c : reader' = [reader EXCEPT ![r].pc = "unmask", ![r].found = v, ![r].copy = c]
    BY <1>4 DEF ReadTuple
  <2> QED
    BY <1>1, <2>1 DEF ReaderType
<1>5. CASE ReadOn(r)
  <2>1. PICK i : reader' = [reader EXCEPT ![r].pc = "mask", ![r].idx = i]
    BY <1>5 DEF ReadOn
  <2> QED
    BY <1>1, <2>1 DEF ReaderType
<1> QED
  BY <1>2, <1>3, <1>4, <1>5 DEF Reader, Answer

\* A step of a reader that no writer ran beside.
LEMMA ReaderScans ==
    ASSUME TypeInv, CurrentInv, NEW r \in Readers, Reader(r),
           reader'[r].pc # "idle", ~reader'[r].overlap
    PROVE  ScanInv(r)'
<1>1. /\ flash \in Files /\ staging \in Files /\ reader \in [Readers -> ReaderType]
      /\ flash.st \in {"whole", "torn"} /\ staging.st \in {"none", "empty", "open", "whole"}
      /\ FilesInv /\ ReaderInv(r)
  BY SMTT(60) DEF TypeInv, Types, FileTypes, ReaderTypes, Files
<1>2. UNCHANGED <<flash, staging, masked, wpc>>
  BY DEF Reader, FindSource, MapSource, ReadEnds, ReadTuple, ReadOn, Answer, PrivateMap, writerVars
<1>3. reader[r] \in ReaderType
  BY <1>1
<1>4. ~ReaderGone(r)
  BY <1>1, GoneIsIdle
<1>5. CASE FindSource(r)
  <2>1. PICK n \in Names : reader' = [reader EXCEPT ![r] = [NoReader EXCEPT
            !.pc = "map", !.name = n, !.overlap = wpc # "idle",
            !.src = IF staging.st = "none" THEN "flash" ELSE "staging"]]
    BY <1>5 DEF FindSource
  <2>2. /\ reader'[r].pc = "map" /\ reader'[r].idx = 1 /\ reader'[r].found = Absent
        /\ reader'[r].copy = NoCopy
        /\ reader'[r].src = (IF staging.st = "none" THEN "flash" ELSE "staging")
    BY <1>1, <2>1 DEF NoReader
  <2> QED
    BY <1>2, <2>2 DEF ScanInv
<1>6. CASE ~FindSource(r)
  <2>1. reader[r].pc # "idle" /\ ~reader[r].overlap
    <3>1. reader[r].pc # "idle"
      BY <1>6 DEF Reader, MapSource, ReadEnds, ReadTuple, ReadOn, Answer
    <3>2. reader'[r].overlap = reader[r].overlap
      BY <1>1, <1>4, <1>6, OverlapStays
    <3> QED
      BY <3>1, <3>2
  <2>2. wpc = "idle" /\ ScanInv(r)
    BY <2>1 DEF CurrentInv, OverlapInv
  <2>3. flash.st = "whole" /\ staging.st \in {"none", "empty", "whole"}
        /\ masked["flash"] = {} /\ masked["staging"] = {}
    BY <1>1, <2>1, <2>2 DEF CurrentInv, TornInv, FilesInv
  <2>4. PICK s, n, c, i, v :
           /\ s = reader[r].src /\ n = reader[r].name /\ c = reader[r].copy
           /\ i = reader[r].idx /\ v = reader[r].found
    OBVIOUS
  <2>5. s \in {"flash", "staging"} /\ i \in Nat \ {0} /\ n \in Names
    BY <1>1, <1>3, <2>1, <2>4 DEF ReaderType, ReaderInv
  <2>6. PICK f : f = File(s)
    OBVIOUS
  <2>7. /\ f \in Files /\ f.list \in Seq(Strings) /\ DOMAIN f.list = 1 .. Len(f.list)
        /\ Len(f.list) \in Nat /\ File(s)' = f
    BY <1>1, <1>2, <2>6, FileFacts, StringFacts DEF File
  <2>8. PICK w : w = Snapshot(s)
    OBVIOUS
  <2>9. w.list = f.list /\ w.hdr = f.hdr /\ w.st = f.st /\ w.masked = {} /\ Snapshot(s)' = w
    BY <1>2, <2>3, <2>5, <2>6, <2>8 DEF File, Snapshot
  <2>10. /\ s = (IF staging.st = "none" THEN "flash" ELSE "staging")
         /\ reader[r].pc # "map" => f.st = "whole"
         /\ c = NoCopy \/ c = w
         /\ reader[r].pc = "map" => i = 1 /\ v = Absent
         /\ reader[r].pc = "mask" => i - 1 <= Len(f.list) /\ Scanned(f.list, n, v, i - 1)
         /\ reader[r].pc = "unmask" => i <= Len(f.list) /\ Scanned(f.list, n, v, i)
    BY <2>2, <2>4, <2>6, <2>8 DEF ScanInv
  <2>11. View(r) = w
    BY <2>4, <2>8, <2>10 DEF View
  <2>12. CASE MapSource(r)
    <3>1. reader' = [reader EXCEPT ![r].pc = "mask"] /\ reader[r].pc = "map"
          /\ ~(s = "staging" /\ staging.st \in {"none", "empty"})
      BY <1>4, <2>4, <2>12 DEF MapSource
    <3>2. f.st = "whole"
      BY <2>3, <2>5, <2>6, <3>1 DEF File
    <3>3. Scanned(f.list, n, v, 0) /\ i = 1 /\ v = Absent
      BY <2>10, <3>1 DEF Scanned
    <3>4. /\ reader'[r].pc = "mask" /\ reader'[r].src = s /\ reader'[r].name = n
          /\ reader'[r].copy = c /\ reader'[r].idx = i /\ reader'[r].found = v
      BY <1>1, <1>3, <2>4, <3>1 DEF ReaderType
    <3>5. i - 1 = 0 /\ 0 <= Len(f.list)
      BY <2>7, <3>3
    <3> QED
      BY <1>2, <2>7, <2>9, <2>10, <3>2, <3>3, <3>4, <3>5 DEF ScanInv
  <2>13. CASE ReadEnds(r)
    <3> DEFINE u == IF v = Absent /\ n \in Sdram THEN Hex(f.hdr, n) ELSE v
    <3>1. /\ reader' = [reader EXCEPT ![r].pc = "answer", ![r].found = u]
          /\ reader[r].pc = "mask" /\ i \notin DOMAIN f.list
      <4>1. /\ reader[r].pc = "mask" /\ AtEnd(r)
            /\ reader' = [reader EXCEPT ![r].pc = "answer", ![r].found =
                 IF @ = Absent /\ reader[r].name \in Sdram
                 THEN Hex(View(r).hdr, reader[r].name) ELSE @]
        BY <1>4, <2>13 DEF ReadEnds
      <4> QED
        BY <2>4, <2>9, <2>11, <4>1 DEF AtEnd
    <3>2. i = Len(f.list) + 1
      BY <2>5, <2>7, <2>10, <3>1
    <3>3. Scanned(f.list, n, v, Len(f.list)) /\ f.st = "whole"
      BY <2>7, <2>10, <3>1, <3>2
    <3>4. u = Vars(f)[n]
      BY <2>5, <2>7, <3>3, ScanEnds
    <3>5. /\ reader'[r].pc = "answer" /\ reader'[r].src = s /\ reader'[r].name = n
          /\ reader'[r].copy = c /\ reader'[r].found = u
      BY <1>1, <1>3, <2>4, <3>1 DEF ReaderType
    <3> HIDE DEF u
    <3> QED
      BY <1>2, <2>7, <2>9, <2>10, <3>3, <3>4, <3>5 DEF ScanInv
  <2>14. CASE ReadTuple(r)
    <3> DEFINE u == IF f.list[i][1] = n THEN f.list[i][2] ELSE v
    <3>1. /\ reader' = [reader EXCEPT ![r].pc = "unmask", ![r].found = u, ![r].copy = w]
          /\ reader[r].pc = "mask" /\ i \in DOMAIN f.list
      BY <2>4, <2>9, <2>11, <2>14 DEF ReadTuple, AtEnd, PrivateMap
    <3>2. Scanned(f.list, n, u, i) /\ i <= Len(f.list) /\ f.st = "whole"
      BY <2>7, <2>10, <3>1, ScanGoesOn
    <3>3. /\ reader'[r].pc = "unmask" /\ reader'[r].src = s /\ reader'[r].name = n
          /\ reader'[r].copy = w /\ reader'[r].idx = i /\ reader'[r].found = u
      BY <1>1, <1>3, <2>4, <3>1 DEF ReaderType
    <3> HIDE DEF u
    <3> QED
      BY <1>2, <2>7, <2>9, <2>10, <3>2, <3>3 DEF ScanInv
  <2>15. CASE ReadOn(r)
    <3>1. reader' = [reader EXCEPT ![r].pc = "mask", ![r].idx = @ + 1] /\ reader[r].pc = "unmask"
      BY <2>15 DEF ReadOn
    <3>2. /\ reader'[r].pc = "mask" /\ reader'[r].src = s /\ reader'[r].name = n
          /\ reader'[r].copy = c /\ reader'[r].idx = i + 1 /\ reader'[r].found = v
      BY <1>1, <1>3, <2>4, <3>1 DEF ReaderType
    <3>3. (i + 1) - 1 = i
      BY <2>5
    <3> QED
      BY <1>2, <2>7, <2>9, <2>10, <3>1, <3>2, <3>3 DEF ScanInv
  <2> QED
    BY <1>4, <1>6, <2>12, <2>13, <2>14, <2>15 DEF Reader, Answer
<1> QED
  BY <1>5, <1>6

LEMMA CurrentStep ==
    ASSUME TypeInv, TypeInv', CurrentInv, [Next]_vars
    PROVE  CurrentInv'
<1>1. reader \in [Readers -> ReaderType] /\ FilesInv /\ flash.st \in {"whole", "torn"}
  BY DEF TypeInv, Types, FileTypes, ReaderTypes
<1>2. CASE Writer
  <2>1. \A r \in Readers : reader'[r].pc # "idle" => reader'[r].overlap
    BY <1>2, WriterIsSeen
  <2>2. flash'.st = "torn" => wpc' # "idle"
    BY <1>1, <1>2 DEF FilesInv, Writer, Start, FindStaging, CreateStaging, CopyToStaging, MapStaging,
       MaskTuple, UnmaskTuple, FillBacked, Edit, Clear, WriteTuple, EndList, Reload, Close,
       ReadStaging, WriteFlash, Unlink
  <2> QED
    BY <2>1, <2>2 DEF CurrentInv, TornInv, OverlapInv
<1>3. CASE Reboot
  <2>1. \A r \in Readers : reader'[r].pc = "idle"
    BY <1>3 DEF Reboot, NoReader
  <2> QED
    BY <2>1 DEF CurrentInv, TornInv, OverlapInv
<1>4. ASSUME NEW q \in Readers, Reader(q)
      PROVE  CurrentInv'
  <2>1. UNCHANGED <<flash, staging, masked, wpc>>
    BY <1>4 DEF Reader, FindSource, MapSource, ReadEnds, ReadTuple, ReadOn, Answer, PrivateMap, writerVars
  <2>2. \A r \in Readers : r # q => reader'[r] = reader[r]
    BY <1>1, <1>4 DEF Reader, FindSource, MapSource, ReadEnds, ReadTuple, ReadOn, Answer, ReaderGone
  <2>3. TornInv'
    <3>1. CASE flash.st = "torn" /\ wpc = "idle"
      <4>1. \A r \in Readers : reader[r].pc = "idle"
        BY <3>1 DEF CurrentInv, TornInv
      <4> QED
        BY <1>4, <3>1, <4>1 DEF Reader, FindSource, MapSource, ReadEnds, ReadTuple, ReadOn, Answer
    <3>2. CASE ~(flash.st = "torn" /\ wpc = "idle")
      BY <2>1, <3>2 DEF TornInv
    <3> QED
      BY <3>1, <3>2
  <2>4. OverlapInv'
    <3>1. reader[q] \in ReaderType
      BY <1>1
    <3>2. ASSUME wpc # "idle", reader'[q].pc # "idle"
          PROVE  reader'[q].overlap
      <4>1. CASE FindSource(q)
        BY <1>1, <3>2, <4>1 DEF FindSource, NoReader
      <4>2. CASE ~FindSource(q)
        <5>1. reader[q].pc # "idle"
          BY <1>4, <4>2 DEF Reader, MapSource, ReadEnds, ReadTuple, ReadOn, Answer
        <5>2. reader[q].overlap
          BY <3>2, <5>1 DEF CurrentInv, OverlapInv
        <5>3. ~ReaderGone(q)
          BY <1>1, <3>2, GoneIsIdle
        <5>4. reader'[q].overlap = reader[q].overlap
          BY <1>1, <1>4, <4>2, <5>3, OverlapStays
        <5> QED
          BY <5>2, <5>4
      <4> QED
        BY <4>1, <4>2
    <3> QED
      BY <2>1, <2>2, <3>2 DEF CurrentInv, OverlapInv
  <2>5. ASSUME NEW r \in Readers, reader'[r].pc # "idle", ~reader'[r].overlap
        PROVE  ScanInv(r)'
    <3>1. CASE r = q
      BY <1>4, <2>5, <3>1, ReaderScans
    <3>2. CASE r # q
      <4>1. reader'[r] = reader[r] /\ ScanInv(r)
        BY <2>2, <2>5, <3>2 DEF CurrentInv
      <4> QED
        BY <2>1, <4>1 DEF ScanInv, File, Snapshot
    <3> QED
      BY <3>1, <3>2
  <2> QED
    BY <2>3, <2>4, <2>5, SMTT(60) DEF CurrentInv
<1>5. CASE UNCHANGED vars
  BY <1>5 DEF vars, writerVars, CurrentInv, TornInv, OverlapInv, ScanInv, File, Snapshot
<1> QED
  BY <1>2, <1>3, <1>4, <1>5 DEF Next

\* A reader that no writer ran beside says what was set last, whether it is in the
\* staging file, in the partition or in the header, whatever was cut short before.
THEOREM AnswersAreCurrent ==
    Spec => []ReadsCurrent
<1>1. Init => TypeInv /\ CurrentInv
  <2> SUFFICES ASSUME Init PROVE CurrentInv
    BY TypesBegin
  <2>1. \A r \in Readers : reader[r].pc = "idle"
    BY DEF Init, NoReader
  <2> QED
    BY <2>1 DEF CurrentInv, TornInv, OverlapInv
<1>2. TypeInv /\ CurrentInv /\ [Next]_vars => (TypeInv /\ CurrentInv)'
  BY TypesStay, CurrentStep
<1>3. TypeInv /\ CurrentInv => ReadsCurrent
  <2> SUFFICES ASSUME TypeInv, CurrentInv, NEW r \in Readers,
                      reader[r].pc = "answer", ~reader[r].overlap
               PROVE  reader[r].found = cur[reader[r].name]
    BY DEF ReadsCurrent
  <2>1. ScanInv(r) /\ wpc = "idle"
    BY DEF CurrentInv, OverlapInv
  <2>2. flash.st # "torn"
    BY <2>1 DEF CurrentInv, TornInv
  <2>3. reader[r].found = Vars(File(reader[r].src))[reader[r].name]
    BY <2>1 DEF ScanInv
  <2>4. cur = Vars(File(reader[r].src))
    <3>1. CASE staging.st = "none"
      <4>1. reader[r].src = "flash"
        BY <2>1, <3>1 DEF ScanInv
      <4> QED
        BY <2>2, <3>1, <4>1 DEF cur, saved, File
    <3>2. CASE staging.st # "none"
      <4>1. reader[r].src = "staging"
        BY <2>1, <3>2 DEF ScanInv
      <4>2. File(reader[r].src) = staging
        BY <4>1 DEF File
      <4>3. staging.st = "whole"
        BY <2>1, <4>2 DEF ScanInv
      <4> QED
        BY <4>2, <4>3 DEF cur
    <3> QED
      BY <3>1, <3>2
  <2> QED
    BY <2>3, <2>4
<1> QED
  BY <1>1, <1>2, <1>3, PTL DEF Spec

-----------------------------------------------------------------------------
(***************************************************************************)
(* The store that callers see.  The rehash takes into the table what the   *)
(* file says, the edit is the one step of the store that the clearing of   *)
(* the list makes visible, and the list written again says what the table  *)
(* says because every string of it fits.                                   *)
(***************************************************************************)
\* All variables fit, each as long as it can be.  Where they do not, the commit drops
\* strings.
Roomy(longest) ==
    /\ longest \in Nat /\ \A t \in Strings : Bytes(t) <= longest
    /\ IsFiniteSet(Names) /\ Cardinality(Names) * longest <= Size - 2

\* One command's change of the variables.
Changed(old, new) ==
    \/ new = old
    \/ \E n \in Names : new = [old EXCEPT ![n] = IF n \in Sdram THEN Hex(Default, n) ELSE Absent]
    \/ \E n \in Names, v \in Inputs : new = [old EXCEPT ![n] = v]

LoadInv ==
    /\ wpc \in {"idle", "find", "create", "copy", "map"} => table = EmptyTable /\ idx = 1
    /\ wpc \in {"mask", "unmask"} =>
          /\ idx - 1 <= Len(staging.list)
          /\ \A n \in Names : Scanned(staging.list, n, ValueIn(table, n), idx - 1)
    /\ wpc \in {"fill", "edit"} => Coming(staging.hdr, table) = Vars(staging)
    /\ wpc = "clear" => Changed(Vars(staging), Coming(HeaderOf(table), table))

\* The strings that the commit has passed are in the list, once, and no others.
Passed(b, p) == b < at.bucket \/ (b = at.bucket /\ p < at.place)

WrittenInv(longest) ==
    wpc = "write" =>
        /\ \A i \in DOMAIN staging.list : \E b \in 1 .. NBuckets : \E p \in DOMAIN table[b] :
              Passed(b, p) /\ staging.list[i] = table[b][p]
        /\ \A b \in 1 .. NBuckets : \A p \in DOMAIN table[b] :
              Passed(b, p) => \E i \in DOMAIN staging.list : staging.list[i] = table[b][p]
        /\ \A i, j \in DOMAIN staging.list : staging.list[i][1] = staging.list[j][1] => i = j
        /\ at.bytes <= Len(staging.list) * longest

SavedInv ==
    /\ wpc = "saving" => flash.st = "torn"
    /\ wpc = "unlink" => flash = staging

\* A table with no strings has no values.
LEMMA EmptyHasNone ==
    ASSUME NEW n \in Names
    PROVE  ~Has(EmptyTable, n) /\ ValueIn(EmptyTable, n) = Absent
<1>1. EmptyTable[Bucket[n]] = <<>>
  BY NamesAndBuckets DEF EmptyTable
<1>2. ~Has(EmptyTable, n)
  BY <1>1 DEF Has, Places
<1> QED
  BY <1>2 DEF ValueIn

LEMMA ComingIs ==
    ASSUME NEW hdr, NEW tab
    PROVE  /\ Coming(hdr, tab) = [n \in Names |-> Coming(hdr, tab)[n]]
           /\ \A n \in Names : Coming(hdr, tab)[n] =
                 IF Has(tab, n) THEN ValueIn(tab, n) ELSE IF n \in Sdram THEN Hex(hdr, n) ELSE Absent
BY DEF Coming

LEMMA VarsIs ==
    ASSUME NEW f
    PROVE  Vars(f) = [n \in Names |-> Vars(f)[n]]
BY DEF Vars

\* The rehash begins, of a table with no strings.
LEMMA LoadBegins ==
    ASSUME NEW list \in Seq(Strings), NEW i, i = 1
    PROVE  i - 1 <= Len(list) /\ \A n \in Names : Scanned(list, n, ValueIn(EmptyTable, n), i - 1)
<1>1. Len(list) \in Nat /\ i - 1 = 0
  BY StringFacts
<1> QED
  BY <1>1, EmptyHasNone DEF Scanned

\* It ends, and the table with the header says what the file says.
LEMMA LoadEnds ==
    ASSUME NEW f \in Files, NEW tab \in Tables, Proper(tab),
           \A n \in Names : Scanned(f.list, n, ValueIn(tab, n), Len(f.list))
    PROVE  Coming(f.hdr, tab) = Vars(f)
<1>1. ASSUME NEW n \in Names
      PROVE  Coming(f.hdr, tab)[n] = Vars(f)[n]
  <2>1. Vars(f)[n] = IF ValueIn(tab, n) = Absent /\ n \in Sdram THEN Hex(f.hdr, n) ELSE ValueIn(tab, n)
    BY ScanEnds
  <2>2. CASE Has(tab, n)
    <3>1. ValueIn(tab, n) # Absent
      BY <2>2, HasFacts, SizesAreNumbers
    <3> QED
      BY <2>1, <2>2, <3>1, ComingIs
  <2>3. CASE ~Has(tab, n)
    <3>1. ValueIn(tab, n) = Absent
      BY <2>3, HasFacts
    <3> QED
      BY <2>1, <2>3, <3>1, ComingIs
  <2> QED
    BY <2>2, <2>3
<1> QED
  BY <1>1, ComingIs, VarsIs

\* What the commit would write after one change of a table that has every variable
\* the header backs.
LEMMA OneChange ==
    ASSUME NEW hdr, NEW tab \in Tables, Proper(tab), \A n \in Sdram : Has(tab, n),
           NEW c \in Commands \cup {NoCmd}, NEW new,
           new = CASE c.op = "set" /\ Fits(c.value) -> SetIn(tab, c.name, c.value)
                   [] c.op = "unset"                -> UnsetIn(tab, c.name)
                   [] OTHER                         -> tab
    PROVE  Changed(Coming(hdr, tab), Coming(HeaderOf(new), new))
<1> DEFINE old == Coming(hdr, tab)
           com == Coming(HeaderOf(new), new)
<1>1. com = [m \in Names |-> com[m]] /\ old = [m \in Names |-> old[m]]
  BY ComingIs
<1>2. \A m \in Names : /\ Has(tab, m) => old[m] = ValueIn(tab, m)
                       /\ ~Has(tab, m) => old[m] = Absent
  BY ComingIs
<1>3. \A m \in Names : com[m] =
         IF Has(new, m) THEN ValueIn(new, m) ELSE IF m \in Sdram THEN Hex(HeaderOf(new), m) ELSE Absent
  BY ComingIs
<1> HIDE DEF com, old
<1>4. CASE c.op = "set" /\ Fits(c.value)
  <2>1. PICK n \in Names, v \in Inputs : n = c.name /\ v = c.value
    BY <1>4, CommandFacts
  <2>2. new = SetIn(tab, n, v)
    BY <1>4, <2>1
  <2>3. /\ Has(new, n) /\ ValueIn(new, n) = v
        /\ \A m \in Names : m # n => /\ Has(new, m) <=> Has(tab, m)
                                     /\ ValueIn(new, m) = ValueIn(tab, m)
    BY <2>2, SetFacts, SizesAreNumbers
  <2>4. com[n] = v
    BY <1>3, <2>3
  <2>5. \A m \in Names : m # n => com[m] = old[m]
    BY <1>2, <1>3, <2>3
  <2>6. com = [old EXCEPT ![n] = v]
    BY <1>1, <2>4, <2>5
  <2> QED
    BY <2>6 DEF Changed, com, old
<1>5. CASE c.op = "unset"
  <2>1. PICK n \in Names : n = c.name
    BY <1>5, CommandFacts
  <2>2. new = UnsetIn(tab, n)
    BY <1>5, <2>1
  <2>3. /\ ~Has(new, n)
        /\ \A m \in Names : m # n => /\ Has(new, m) <=> Has(tab, m)
                                     /\ ValueIn(new, m) = ValueIn(tab, m)
    BY <2>2, UnsetFacts
  <2>4. com[n] = IF n \in Sdram THEN Hex(Default, n) ELSE Absent
    BY <1>3, <2>3 DEF HeaderOf
  <2>5. \A m \in Names : m # n => com[m] = old[m]
    BY <1>2, <1>3, <2>3
  <2>6. com = [old EXCEPT ![n] = IF n \in Sdram THEN Hex(Default, n) ELSE Absent]
    BY <1>1, <2>4, <2>5
  <2> QED
    BY <2>6 DEF Changed, com, old
<1>6. CASE ~(c.op = "set" /\ Fits(c.value)) /\ c.op # "unset"
  <2>1. new = tab
    BY <1>6
  <2>2. \A m \in Names : com[m] = old[m]
    BY <1>2, <1>3, <2>1
  <2>3. com = old
    BY <1>1, <2>2
  <2> QED
    BY <2>3 DEF Changed, com, old
<1> QED
  BY <1>4, <1>5, <1>6

LEMMA LoadStep ==
    ASSUME TypeInv, LoadInv, HeaderInv, [Next]_vars
    PROVE  LoadInv'
<1>1. /\ table \in Tables /\ Proper(table) /\ idx \in Nat \ {0} /\ cmd \in Commands \cup {NoCmd}
      /\ staging \in Files /\ FilesInv
      /\ staging.list \in Seq(Strings) /\ DOMAIN staging.list = 1 .. Len(staging.list)
      /\ Len(staging.list) \in Nat
  BY FileFacts, StringFacts DEF TypeInv, Types, WriterTypes, FileTypes
<1>2. CASE Start \/ FindStaging \/ CreateStaging \/ CopyToStaging
  <2>1. /\ wpc \in {"idle", "find", "create", "copy"} /\ UNCHANGED <<table, idx>>
        /\ wpc' \in {"find", "create", "copy", "map"}
    BY <1>2 DEF Start, FindStaging, CreateStaging, CopyToStaging
  <2> QED
    BY <2>1 DEF LoadInv
<1>3. CASE WriterGone
  BY <1>3 DEF WriterGone, LoadInv
<1>4. CASE MapStaging /\ ~WriterGone
  <2>1. wpc = "map" /\ wpc' = "mask" /\ UNCHANGED <<table, idx, staging>>
    BY <1>4 DEF MapStaging
  <2>2. table = EmptyTable /\ idx = 1
    BY <2>1 DEF LoadInv
  <2>3. idx - 1 <= Len(staging.list)
        /\ \A n \in Names : Scanned(staging.list, n, ValueIn(table, n), idx - 1)
    BY <1>1, <2>2, LoadBegins
  <2> QED
    BY <2>1, <2>3 DEF LoadInv
<1>5. CASE Reload
  <2>1. wpc' = "mask" /\ table' = EmptyTable /\ idx' = 1 /\ UNCHANGED staging
    BY <1>5 DEF Reload
  <2>2. idx' - 1 <= Len(staging.list)
        /\ \A n \in Names : Scanned(staging.list, n, ValueIn(table', n), idx' - 1)
    BY <1>1, <2>1, LoadBegins
  <2> QED
    BY <2>1, <2>2 DEF LoadInv
<1>6. CASE MaskTuple
  <2>1. wpc = "mask" /\ UNCHANGED <<table, staging>> /\ masked["staging"] = {}
    BY <1>1, <1>6 DEF MaskTuple, FilesInv
  <2>2. /\ idx - 1 <= Len(staging.list)
        /\ \A n \in Names : Scanned(staging.list, n, ValueIn(table, n), idx - 1)
    BY <2>1 DEF LoadInv
  <2>3. CASE idx \in DOMAIN staging.list
    <3>1. wpc' = "unmask" /\ idx' = idx
      BY <1>6, <2>1, <2>3 DEF MaskTuple
    <3> QED
      BY <2>1, <2>2, <3>1 DEF LoadInv
  <2>4. CASE idx \notin DOMAIN staging.list
    <3>1. wpc' = "fill"
      BY <1>6, <2>1, <2>4 DEF MaskTuple
    <3>2. idx - 1 = Len(staging.list)
      BY <1>1, <2>2, <2>4
    <3>3. Coming(staging.hdr, table) = Vars(staging)
      BY <1>1, <2>2, <3>2, LoadEnds
    <3> QED
      BY <2>1, <3>1, <3>3 DEF LoadInv
  <2> QED
    BY <2>3, <2>4
<1>7. CASE UnmaskTuple
  <2>1. PICK i, t : i = idx /\ t = staging.list[i]
    OBVIOUS
  <2>2. /\ wpc = "unmask" /\ wpc' = "mask" /\ UNCHANGED staging /\ idx' = i + 1
        /\ table' = SetIn(table, t[1], t[2])
    BY <1>7, <2>1 DEF UnmaskTuple
  <2>3. i \in DOMAIN staging.list /\ i \in Nat
    BY <1>1, <2>1, <2>2 DEF TypeInv, Types
  <2>4. t \in Strings /\ t[1] \in Names /\ t[2] \in Values
    BY <1>1, <2>1, <2>3, StringFacts
  <2>5. /\ ValueIn(table', t[1]) = t[2]
        /\ \A n \in Names : n # t[1] => ValueIn(table', n) = ValueIn(table, n)
    BY <1>1, <2>2, <2>4, SetFacts
  <2>6. \A n \in Names : Scanned(staging.list, n, ValueIn(table, n), i - 1)
    BY <2>1, <2>2 DEF LoadInv
  <2>7. ASSUME NEW n \in Names
        PROVE  Scanned(staging.list, n, ValueIn(table', n), i)
    <3>1. Scanned(staging.list, n, IF t[1] = n THEN t[2] ELSE ValueIn(table, n), i)
      BY <1>1, <2>1, <2>3, <2>6, ScanGoesOn
    <3>2. ValueIn(table', n) = IF t[1] = n THEN t[2] ELSE ValueIn(table, n)
      BY <2>5
    <3> QED
      BY <3>1, <3>2
  <2>8. (i + 1) - 1 = i /\ i <= Len(staging.list)
    BY <1>1, <2>3
  <2> QED
    BY <2>2, <2>7, <2>8 DEF LoadInv
<1>8. CASE FillBacked
  <2>1. wpc = "fill" /\ UNCHANGED staging /\ Coming(staging.hdr, table) = Vars(staging)
    BY <1>8 DEF FillBacked, LoadInv
  <2>2. CASE idx \in DOMAIN Backed
    <3>1. PICK n \in Names : n = Backed[idx] /\ n \in Sdram
      BY <2>2, NamesAndBuckets
    <3>2. /\ wpc' = "fill"
          /\ table' = (IF Has(table, n) THEN table ELSE SetIn(table, n, Hex(staging.hdr, n)))
      BY <1>8, <2>2, <3>1 DEF FillBacked
    <3>3. CASE Has(table, n)
      BY <2>1, <3>2, <3>3 DEF LoadInv
    <3>4. CASE ~Has(table, n)
      <4>1. Hex(staging.hdr, n) \in Values /\ table' = SetIn(table, n, Hex(staging.hdr, n))
        BY <1>1, <3>1, <3>2, <3>4, FileFacts
      <4>2. /\ Has(table', n) /\ ValueIn(table', n) = Hex(staging.hdr, n)
            /\ \A m \in Names : m # n => /\ Has(table', m) <=> Has(table, m)
                                         /\ ValueIn(table', m) = ValueIn(table, m)
        BY <1>1, <4>1, SetFacts
      <4>3. \A m \in Names : Coming(staging.hdr, table')[m] = Coming(staging.hdr, table)[m]
        BY <3>1, <3>4, <4>2, ComingIs
      <4>4. Coming(staging.hdr, table') = Coming(staging.hdr, table)
        BY <4>3, ComingIs
      <4> QED
        BY <2>1, <3>2, <4>4 DEF LoadInv
    <3> QED
      BY <3>3, <3>4
  <2>3. CASE idx \notin DOMAIN Backed
    <3>1. wpc' \in {"close", "edit"} /\ UNCHANGED table
      BY <1>8, <2>3 DEF FillBacked
    <3> QED
      BY <2>1, <3>1 DEF LoadInv
  <2> QED
    BY <2>2, <2>3
<1>9. CASE Edit
  <2>1. /\ wpc = "edit" /\ wpc' = "clear" /\ UNCHANGED staging
        /\ table' = CASE cmd.op = "set" /\ Fits(cmd.value) -> SetIn(table, cmd.name, cmd.value)
                      [] cmd.op = "unset"                  -> UnsetIn(table, cmd.name)
                      [] OTHER                             -> table
    BY <1>9 DEF Edit
  <2>2. Coming(staging.hdr, table) = Vars(staging) /\ \A n \in Sdram : Has(table, n)
    BY <2>1 DEF LoadInv, HeaderInv, AllBacked
  <2>3. Changed(Coming(staging.hdr, table), Coming(HeaderOf(table'), table'))
    BY <1>1, <2>1, <2>2, OneChange
  <2> QED
    BY <2>1, <2>2, <2>3 DEF LoadInv
<1>10. CASE Clear \/ WriteTuple \/ EndList \/ (Close /\ ~WriterGone) \/ ReadStaging \/ WriteFlash
  <2>1. wpc' \in {"write", "written", "read", "save", "saving", "unlink"}
    BY <1>10 DEF Clear, WriteTuple, EndList, Close, ReadStaging, WriteFlash
  <2> QED
    BY <2>1 DEF LoadInv
<1>11. CASE (\E r \in Readers : Reader(r)) \/ UNCHANGED vars
  <2>1. UNCHANGED <<wpc, idx, table, staging>>
    BY <1>11 DEF vars, writerVars, Reader, FindSource, MapSource, ReadEnds, ReadTuple, ReadOn, Answer
  <2> QED
    BY <2>1, SMTT(60) DEF LoadInv
<1> QED
  BY <1>2, <1>3, <1>4, <1>5, <1>6, <1>7, <1>8, <1>9, <1>10, <1>11
     DEF Next, Writer, Unlink, Reboot

LEMMA TimesGrows ==
    ASSUME NEW a \in Nat, NEW b \in Nat, NEW m \in Nat, a <= b
    PROVE  a * m \in Nat /\ b * m \in Nat /\ a * m <= b * m
<1>1. PICK d \in Nat : b = a + d
  <2>1. b - a \in Nat /\ b = a + (b - a)
    OBVIOUS
  <2> QED
    BY <2>1
<1>2. (a + d) * m = a * m + d * m
  OBVIOUS
<1>3. \A x, y \in Nat : x * y \in Nat
  OBVIOUS
<1>4. a * m \in Nat /\ d * m \in Nat
  BY <1>3
<1> QED
  BY <1>1, <1>2, <1>4

\* A list with each name at most once is no longer than there are names, so that one
\* more string fits.
LEMMA OneMoreFits ==
    ASSUME NEW longest, Roomy(longest), NEW list \in Seq(Strings), NEW t \in Strings,
           \A i, j \in DOMAIN list : list[i][1] = list[j][1] => i = j,
           \A i \in DOMAIN list : list[i][1] # t[1],
           NEW bytes \in Nat, bytes <= Len(list) * longest
    PROVE  bytes + Bytes(t) <= Size - 2 /\ bytes + Bytes(t) <= (Len(list) + 1) * longest
<1> DEFINE k == Len(list)
           more == Append(list, t)
           f == [i \in 1 .. k + 1 |-> more[i][1]]
<1>1. k \in Nat /\ DOMAIN list = 1 .. k
  BY StringFacts
<1>2. \A i \in 1 .. k : more[i] = list[i]
  BY <1>1
<1>3. more[k + 1] = t
  BY <1>1
<1>4. \A i \in 1 .. k + 1 : i \in 1 .. k \/ i = k + 1
  BY <1>1
<1>5. \A i \in DOMAIN list : list[i][1] \in Names
  BY StringFacts
<1>6. t[1] \in Names
  BY DEF Strings
<1> HIDE DEF more, k
<1>7. f \in [1 .. k + 1 -> Names]
  BY <1>1, <1>2, <1>3, <1>4, <1>5, <1>6
<1>8. \A i, j \in 1 .. k + 1 : f[i] = f[j] => i = j
  BY <1>1, <1>2, <1>3, <1>4
<1>9. f \in Injection(1 .. k + 1, Names)
  BY <1>7, <1>8 DEF Injection, IsInjective
<1>10. Cardinality(1 .. k + 1) <= Cardinality(Names) /\ IsFiniteSet(Names)
  BY <1>9, FS_Injection DEF Roomy
<1>11. Cardinality(1 .. k + 1) = k + 1
  BY <1>1, FS_Interval
<1>12. PICK c, b \in Nat : c = Cardinality(Names) /\ b = Bytes(t)
  BY <1>10, FS_CardinalityType, SizesAreNumbers
<1>13. k + 1 <= c /\ longest \in Nat /\ b <= longest /\ c * longest <= Size - 2
  BY <1>10, <1>11, <1>12 DEF Roomy
<1>14. (k + 1) * longest = k * longest + longest
  BY <1>1, <1>13
<1>15. /\ (k + 1) * longest <= c * longest
       /\ (k + 1) * longest \in Nat /\ c * longest \in Nat
  <2>1. PICK n \in Nat : n = k + 1
    BY <1>1
  <2>2. n <= c /\ c \in Nat /\ longest \in Nat
    BY <1>12, <1>13, <2>1
  <2>3. n * longest \in Nat /\ c * longest \in Nat /\ n * longest <= c * longest
    BY <2>2, TimesGrows, Zenon
  <2> QED
    BY <2>1, <2>3, Zenon
<1>16. bytes <= k * longest
  BY DEF k
<1>17. k * longest \in Nat /\ Size \in Nat
  <2>1. k <= k
    BY <1>1
  <2>2. k * longest \in Nat
    BY <1>1, <1>13, <2>1, TimesGrows, Zenon
  <2> QED
    BY <2>2, SizesAreNumbers
<1>18. bytes + b <= (k + 1) * longest
  BY <1>12, <1>13, <1>14, <1>15, <1>16, <1>17, SMTT(60)
<1>19. bytes + b <= Size - 2
  BY <1>12, <1>13, <1>15, <1>17, <1>18, SMTT(60)
<1> QED
  BY <1>12, <1>18, <1>19 DEF k

LEMMA WrittenStep ==
    ASSUME NEW longest, Roomy(longest), TypeInv, WrittenInv(longest), [Next]_vars
    PROVE  WrittenInv(longest)'
<1>1. /\ table \in Tables /\ Proper(table) /\ staging \in Files
      /\ at \in [bucket : 1 .. NBuckets + 1, place : Nat \ {0}, bytes : Nat]
      /\ longest \in Nat /\ NBuckets \in Nat
  BY SizesAreNumbers DEF TypeInv, Types, WriterTypes, FileTypes, Roomy
<1>2. CASE Clear
  <2>1. /\ wpc' = "write" /\ staging'.list = <<>> /\ table' = table
        /\ at'.bucket = 1 /\ at'.place = 1 /\ at'.bytes = 0
    BY <1>2 DEF Clear, Image, Begin
  <2>2. \A b \in 1 .. NBuckets : \A p \in DOMAIN table[b] : ~Passed(b, p)'
    <3> SUFFICES ASSUME NEW b \in 1 .. NBuckets, NEW p \in DOMAIN table[b]
                 PROVE  ~Passed(b, p)'
      OBVIOUS
    <3>1. p \in Nat /\ p >= 1
      BY <1>1, StringFacts DEF Tables
    <3> QED
      BY <2>1, <3>1 DEF Passed
  <2>3. DOMAIN staging'.list = {} /\ at'.bytes <= Len(staging'.list) * longest
    BY <1>1, <2>1
  <2> QED
    BY <2>1, <2>2, <2>3 DEF WrittenInv
<1>3. CASE WriteTuple
  <2>1. PICK bkt, plc, byt, list :
           /\ bkt = at.bucket /\ plc = at.place /\ byt = at.bytes /\ list = staging.list
    OBVIOUS
  <2>2. PICK t : t = table[bkt][plc]
    OBVIOUS
  <2>3. /\ bkt \in 1 .. NBuckets /\ plc \in Nat \ {0} /\ byt \in Nat /\ list \in Seq(Strings)
        /\ wpc = "write" /\ UNCHANGED <<wpc, table>>
    BY <1>1, <1>3, <2>1, FileFacts DEF WriteTuple
  <2>4. /\ \A i \in DOMAIN list : \E b \in 1 .. NBuckets : \E p \in DOMAIN table[b] :
              Passed(b, p) /\ list[i] = table[b][p]
        /\ \A b \in 1 .. NBuckets : \A p \in DOMAIN table[b] :
              Passed(b, p) => \E i \in DOMAIN list : list[i] = table[b][p]
        /\ \A i, j \in DOMAIN list : list[i][1] = list[j][1] => i = j
        /\ byt <= Len(list) * longest
    BY <2>1, <2>3 DEF WrittenInv
  <2>5. \A b \in 1 .. NBuckets : table[b] \in Seq(Strings) /\ DOMAIN table[b] = 1 .. Len(table[b])
                                  /\ Len(table[b]) \in Nat
    BY <1>1, StringFacts DEF Tables
  <2>6. CASE plc \in DOMAIN table[bkt]
    <3>1. t \in Strings
      BY <2>2, <2>3, <2>5, <2>6, StringFacts
    <3>2. \A i \in DOMAIN list : list[i][1] # t[1]
      <4> SUFFICES ASSUME NEW i \in DOMAIN list, list[i][1] = t[1] PROVE FALSE
        OBVIOUS
      <4>0. PICK b \in 1 .. NBuckets : \E p \in DOMAIN table[b] : Passed(b, p) /\ list[i] = table[b][p]
        BY <2>4
      <4>1. PICK p \in DOMAIN table[b] : Passed(b, p) /\ list[i] = table[b][p]
        BY <4>0
      <4>2. table[b][p][1] = table[bkt][plc][1]
        BY <2>2, <4>1
      <4>3. b = bkt
        BY <1>1, <2>3, <2>6, <4>2, SMTT(60) DEF Proper
      <4>4. p = plc
        BY <1>1, <2>3, <2>6, <4>2, <4>3 DEF Proper
      <4> QED
        BY <2>1, <2>3, <4>1, <4>3, <4>4 DEF Passed
    <3>3. byt + Bytes(t) <= Size - 2 /\ byt + Bytes(t) <= (Len(list) + 1) * longest
      BY <2>3, <2>4, <3>1, <3>2, OneMoreFits
    <3>4. /\ staging' = [staging EXCEPT !.list = Append(@, t)]
          /\ at' = [at EXCEPT !.place = @ + 1, !.bytes = @ + Bytes(t)]
      BY <1>3, <2>1, <2>2, <2>6, <3>3 DEF WriteTuple
    <3>5. PICK new : new = Append(list, t)
      OBVIOUS
    <3>6. /\ staging'.list = new
          /\ at'.bucket = bkt /\ at'.place = plc + 1 /\ at'.bytes = byt + Bytes(t)
      BY <1>1, <2>1, <3>4, <3>5 DEF Files
    <3>7. /\ DOMAIN list = 1 .. Len(list) /\ Len(list) \in Nat
          /\ Len(new) = Len(list) + 1 /\ DOMAIN new = 1 .. Len(list) + 1
          /\ new[Len(list) + 1] = t
          /\ \A i \in 1 .. Len(list) : new[i] = list[i]
      BY <2>3, <3>1, <3>5
    <3>8. \A i \in DOMAIN new : (i \in DOMAIN list /\ new[i] = list[i]) \/ (i = Len(list) + 1 /\ new[i] = t)
      <4>1. \A i \in 1 .. Len(list) + 1 : i \in 1 .. Len(list) \/ i = Len(list) + 1
        BY <3>7
      <4> QED
        BY <3>7, <4>1
    <3>9. \A b \in 1 .. NBuckets : \A p \in DOMAIN table[b] :
             Passed(b, p)' <=> Passed(b, p) \/ (b = bkt /\ p = plc)
      BY <2>1, <2>3, <2>5, <3>6 DEF Passed
    <3>10. \A i \in DOMAIN new : \E b \in 1 .. NBuckets : \E p \in DOMAIN table[b] :
              Passed(b, p)' /\ new[i] = table[b][p]
      <4> SUFFICES ASSUME NEW i \in DOMAIN new
                   PROVE  \E b \in 1 .. NBuckets : \E p \in DOMAIN table[b] :
                             Passed(b, p)' /\ new[i] = table[b][p]
        OBVIOUS
      <4>1. CASE i \in DOMAIN list /\ new[i] = list[i]
        BY <2>4, <3>9, <4>1
      <4>2. CASE new[i] = t
        BY <2>2, <2>3, <2>6, <3>9, <4>2
      <4> QED
        BY <3>8, <4>1, <4>2
    <3>11. \A b \in 1 .. NBuckets : \A p \in DOMAIN table[b] :
              Passed(b, p)' => \E i \in DOMAIN new : new[i] = table[b][p]
      <4> SUFFICES ASSUME NEW b \in 1 .. NBuckets, NEW p \in DOMAIN table[b], Passed(b, p)'
                   PROVE  \E i \in DOMAIN new : new[i] = table[b][p]
        OBVIOUS
      <4>1. CASE Passed(b, p)
        <5>1. PICK i \in DOMAIN list : list[i] = table[b][p]
          BY <2>4, <4>1
        <5>2. i \in DOMAIN new /\ new[i] = list[i]
          BY <3>7
        <5> QED
          BY <5>1, <5>2
      <4>2. CASE b = bkt /\ p = plc
        <5>1. Len(list) + 1 \in DOMAIN new
          BY <3>7
        <5> QED
          BY <2>2, <3>7, <4>2, <5>1
      <4> QED
        BY <3>9, <4>1, <4>2
    <3>12. \A i, j \in DOMAIN new : new[i][1] = new[j][1] => i = j
      BY <2>4, <3>2, <3>8
    <3>13. at'.bytes <= Len(staging'.list) * longest
      BY <3>3, <3>6, <3>7
    <3> QED
      BY <2>3, <3>6, <3>10, <3>11, <3>12, <3>13 DEF WrittenInv
  <2>7. CASE plc \notin DOMAIN table[bkt]
    <3>1. staging' = staging /\ at' = [at EXCEPT !.bucket = @ + 1, !.place = 1]
      BY <1>3, <2>1, <2>7 DEF WriteTuple
    <3>2. at'.bucket = bkt + 1 /\ at'.place = 1 /\ at'.bytes = byt
      BY <1>1, <2>1, <3>1
    <3>3. \A p \in DOMAIN table[bkt] : p < plc
      BY <2>3, <2>5, <2>7
    <3>4. ASSUME NEW b \in 1 .. NBuckets, NEW p \in DOMAIN table[b]
          PROVE  Passed(b, p)' <=> Passed(b, p)
      <4>1. p \in Nat /\ p >= 1 /\ b \in Nat /\ bkt \in Nat
        BY <2>3, <2>5
      <4>2. Passed(b, p)' <=> b < bkt + 1
        BY <3>2, <4>1 DEF Passed
      <4>3. Passed(b, p) <=> b < bkt \/ b = bkt
        BY <2>1, <3>3 DEF Passed
      <4> QED
        BY <4>1, <4>2, <4>3
    <3> QED
      BY <2>1, <2>3, <2>4, <3>1, <3>2, <3>4 DEF WrittenInv
  <2> QED
    BY <2>6, <2>7
<1>4. CASE ~Clear /\ ~WriteTuple /\ (Writer \/ Reboot)
  <2>1. wpc' # "write"
    BY <1>4 DEF Writer, Start, FindStaging, CreateStaging, CopyToStaging, MapStaging, MaskTuple,
       UnmaskTuple, FillBacked, Edit, EndList, Reload, Close, ReadStaging, WriteFlash, Unlink,
       Reboot, WriterGone
  <2> QED
    BY <2>1 DEF WrittenInv
<1>5. CASE (\E r \in Readers : Reader(r)) \/ UNCHANGED vars
  <2>1. UNCHANGED <<wpc, table, at, staging>>
    BY <1>5 DEF vars, writerVars, Reader, FindSource, MapSource, ReadEnds, ReadTuple, ReadOn, Answer
  <2> QED
    BY <2>1, SMTT(60) DEF WrittenInv, Passed
<1> QED
  BY <1>2, <1>3, <1>4, <1>5 DEF Next

\* A list with every string of the table once, and no other, says what the table says.
LEMMA WrittenSays ==
    ASSUME NEW f \in Files, NEW tab \in Tables, Proper(tab),
           \A i \in DOMAIN f.list : \E b \in 1 .. NBuckets : \E p \in DOMAIN tab[b] : f.list[i] = tab[b][p],
           \A b \in 1 .. NBuckets : \A p \in DOMAIN tab[b] : \E i \in DOMAIN f.list : f.list[i] = tab[b][p],
           \A i, j \in DOMAIN f.list : f.list[i][1] = f.list[j][1] => i = j
    PROVE  Vars(f) = Coming(f.hdr, tab)
<1>0. \A n \in Names :
         /\ Has(tab, n) => \E p \in DOMAIN tab[Bucket[n]] : tab[Bucket[n]][p] = <<n, ValueIn(tab, n)>>
         /\ \A p \in DOMAIN tab[Bucket[n]] : tab[Bucket[n]][p][1] = n =>
               Has(tab, n) /\ tab[Bucket[n]][p][2] = ValueIn(tab, n)
  BY StringOf
<1>1. ASSUME NEW n \in Names
      PROVE  Vars(f)[n] = Coming(f.hdr, tab)[n]
  <2>1. Vars(f)[n] = IF Places(f.list, n) # {} THEN f.list[LastPlace(f.list, n)][2]
                     ELSE IF n \in Sdram THEN Hex(f.hdr, n) ELSE Absent
    BY DEF Vars
  <2>2. Bucket[n] \in 1 .. NBuckets
    BY NamesAndBuckets
  <2>3. \A i \in Places(f.list, n) : Has(tab, n) /\ f.list[i][2] = ValueIn(tab, n)
    <3> SUFFICES ASSUME NEW i \in Places(f.list, n)
                 PROVE  Has(tab, n) /\ f.list[i][2] = ValueIn(tab, n)
      OBVIOUS
    <3>1. i \in DOMAIN f.list /\ f.list[i][1] = n
      BY DEF Places
    <3>0. PICK b \in 1 .. NBuckets : \E p \in DOMAIN tab[b] : f.list[i] = tab[b][p]
      BY <3>1
    <3>2. PICK p \in DOMAIN tab[b] : f.list[i] = tab[b][p]
      BY <3>0
    <3>3. b = Bucket[n]
      BY <3>1, <3>2 DEF Proper
    <3>4. p \in DOMAIN tab[Bucket[n]] /\ tab[Bucket[n]][p][1] = n /\ f.list[i] = tab[Bucket[n]][p]
      BY <3>1, <3>2, <3>3
    <3>5. Has(tab, n) /\ tab[Bucket[n]][p][2] = ValueIn(tab, n)
      BY <1>0, <3>4
    <3> QED
      BY <3>4, <3>5
  <2>4. CASE Has(tab, n)
    <3>0. PICK p \in DOMAIN tab[Bucket[n]] : tab[Bucket[n]][p] = <<n, ValueIn(tab, n)>>
      BY <1>0, <2>4
    <3>1. PICK i \in DOMAIN f.list : f.list[i] = <<n, ValueIn(tab, n)>>
      BY <2>2, <3>0
    <3>2. i \in Places(f.list, n)
      BY <3>1 DEF Places
    <3>3. LastPlace(f.list, n) \in Places(f.list, n)
      <4>1. DOMAIN f.list = 1 .. Len(f.list) /\ Len(f.list) \in Nat
        BY FileFacts, StringFacts
      <4>2. \A j \in Places(f.list, n) : j = i /\ i \in Nat
        BY <3>2, <4>1 DEF Places
      <4>3. \A j \in Places(f.list, n) : j <= i
        BY <4>2
      <4> QED
        BY <3>2, <4>3 DEF LastPlace
    <3> QED
      BY <2>1, <2>3, <2>4, <3>2, <3>3, ComingIs
  <2>5. CASE ~Has(tab, n)
    <3>1. Places(f.list, n) = {}
      BY <2>3, <2>5
    <3> QED
      BY <2>1, <2>5, <3>1, ComingIs
  <2> QED
    BY <2>4, <2>5
<1> QED
  BY <1>1, ComingIs, VarsIs

\* A bounded set of numbers that is not empty has a largest one.
LEMMA LargestOf ==
    ASSUME NEW k \in Nat, NEW S \in SUBSET (1 .. k), S # {}
    PROVE  \E l \in S : \A j \in S : j <= l
<1> DEFINE R == OpToRel(<, Nat)
           T == {i \in Nat : k - i \in S}
<1>1. IsWellFoundedOn(R, Nat)
  BY NatLessThanWellFounded
<1>2. T \subseteq Nat /\ T # {}
  <2>1. PICK l \in S : l \in 1 .. k
    OBVIOUS
  <2>2. k - l \in Nat /\ k - (k - l) = l
    BY <2>1
  <2>3. k - l \in T
    BY <2>1, <2>2
  <2> QED
    BY <2>3
<1> HIDE DEF R
<1>3. PICK x \in T : \A y \in T : ~(<<y, x>> \in R)
  BY <1>1, <1>2, WFMin
<1>4. \A y \in T : ~(y < x)
  BY <1>2, <1>3 DEF R, OpToRel
<1>5. ASSUME NEW j \in S
      PROVE  j <= k - x
  <2>1. j \in Nat /\ j <= k /\ k - j \in Nat /\ k - (k - j) = j
    OBVIOUS
  <2>2. k - j \in T
    BY <2>1
  <2>3. ~(k - j < x) /\ x \in Nat
    BY <1>2, <1>4, <2>2
  <2> QED
    BY <2>1, <2>3
<1> QED
  BY <1>5

\* What a file says of a variable is a value or nothing.
LEMMA VarsType ==
    ASSUME NEW f \in Files
    PROVE  Vars(f) \in [Names -> Values \cup {Absent}]
<1>1. ASSUME NEW n \in Names
      PROVE  Vars(f)[n] \in Values \cup {Absent}
  <2>1. Vars(f)[n] = IF Places(f.list, n) # {} THEN f.list[LastPlace(f.list, n)][2]
                     ELSE IF n \in Sdram THEN Hex(f.hdr, n) ELSE Absent
    BY DEF Vars
  <2>2. f.list \in Seq(Strings) /\ DOMAIN f.list = 1 .. Len(f.list) /\ Len(f.list) \in Nat
    BY FileFacts, StringFacts
  <2>3. CASE Places(f.list, n) # {}
    <3>1. Places(f.list, n) \in SUBSET (1 .. Len(f.list))
      BY <2>2 DEF Places
    <3>2. \E l \in Places(f.list, n) : \A j \in Places(f.list, n) : j <= l
      BY <2>2, <2>3, <3>1, LargestOf
    <3>3. LastPlace(f.list, n) \in Places(f.list, n)
      BY <3>2 DEF LastPlace
    <3>4. LastPlace(f.list, n) \in DOMAIN f.list
      BY <3>3 DEF Places
    <3> QED
      BY <2>1, <2>2, <2>3, <3>4, StringFacts
  <2>4. CASE Places(f.list, n) = {}
    BY <2>1, <2>4, FileFacts
  <2> QED
    BY <2>3, <2>4
<1> QED
  BY <1>1, VarsIs

LEMMA SavedStep ==
    ASSUME TypeInv, SavedInv, [Next]_vars
    PROVE  SavedInv'
<1>1. FilesInv /\ flash \in Files
  BY DEF TypeInv, Types, FileTypes
<1>2. CASE WriteFlash
  <2>1. CASE wpc = "save"
    <3>1. wpc' = "saving" /\ flash' = [flash EXCEPT !.st = "torn"]
      BY <1>2, <2>1 DEF WriteFlash
    <3> QED
      BY <1>1, <3>1 DEF SavedInv, Files
  <2>2. CASE wpc # "save"
    BY <1>1, <1>2, <2>2 DEF WriteFlash, SavedInv, FilesInv
  <2> QED
    BY <2>1, <2>2
<1>3. CASE ~WriteFlash /\ (Writer \/ Reboot)
  <2>1. wpc' \notin {"saving", "unlink"}
    BY <1>3 DEF Writer, Start, FindStaging, CreateStaging, CopyToStaging, MapStaging, MaskTuple,
       UnmaskTuple, FillBacked, Edit, Clear, WriteTuple, EndList, Reload, Close, ReadStaging, Unlink,
       Reboot, WriterGone
  <2> QED
    BY <2>1 DEF SavedInv
<1>4. CASE (\E r \in Readers : Reader(r)) \/ UNCHANGED vars
  <2>1. UNCHANGED <<wpc, flash, staging>>
    BY <1>4 DEF vars, writerVars, Reader, FindSource, MapSource, ReadEnds, ReadTuple, ReadOn, Answer
  <2> QED
    BY <2>1, SMTT(60) DEF SavedInv
<1> QED
  BY <1>2, <1>3, <1>4 DEF Next

StoreInv(longest) == TypeInv /\ HeaderInv /\ LoadInv /\ WrittenInv(longest) /\ SavedInv

\* What can be seen of the files.
LEMMA CurIs ==
    /\ staging.st = "whole" => cur = Vars(staging)
    /\ staging.st = "open" => cur = Coming(staging.hdr, table)
    /\ staging.st \notin {"whole", "open"} => cur = saved
    /\ flash.st # "torn" => saved = Vars(flash)
    /\ flash.st = "torn" => saved = Store!AllLost
BY DEF cur, saved, Store!AllLost

\* A step is a step of the store or cannot be seen.
LEMMA StoreStep ==
    ASSUME NEW longest, StoreInv(longest), [Next]_vars
    PROVE  [Store!Next]_<<cur, saved>>
<1>1. /\ flash.st \in {"whole", "torn"} /\ staging.st \in {"none", "empty", "open", "whole"}
      /\ flash \in Files /\ staging \in Files /\ table \in Tables /\ Proper(table)
      /\ FilesInv /\ LoadInv /\ SavedInv /\ WrittenInv(longest)
      /\ at \in [bucket : 1 .. NBuckets + 1, place : Nat \ {0}, bytes : Nat]
  BY DEF StoreInv, TypeInv, Types, FileTypes, WriterTypes, Files
<1>2. /\ staging'.st = "whole" => cur' = Vars(staging')
      /\ staging'.st = "open" => cur' = Coming(staging'.hdr, table')
      /\ staging'.st \notin {"whole", "open"} => cur' = saved'
      /\ flash'.st # "torn" => saved' = Vars(flash')
      /\ flash'.st = "torn" => saved' = Store!AllLost
  BY DEF cur, saved, Store!AllLost
<1>3. CASE UNCHANGED <<flash, staging>> /\ (staging.st # "open" \/ UNCHANGED table)
  <2>1. saved' = saved
    BY <1>2, <1>3, CurIs
  <2>2. cur' = cur
    BY <1>1, <1>2, <1>3, <2>1, CurIs
  <2> QED
    BY <2>1, <2>2
<1>4. CASE CreateStaging
  <2>1. staging.st = "none" /\ staging'.st = "empty" /\ flash' = flash
    BY <1>1, <1>4 DEF CreateStaging, Image, FilesInv
  <2>2. saved' = saved /\ cur = saved /\ cur' = saved'
    BY <1>1, <1>2, <2>1, CurIs
  <2> QED
    BY <2>2
<1>5. CASE CopyToStaging /\ staging' # staging
  <2>1. staging.st = "empty" /\ staging' = flash /\ flash.st = "whole" /\ flash' = flash
    BY <1>1, <1>5 DEF CopyToStaging, FilesInv
  <2>2. saved' = saved /\ cur = saved /\ cur' = Vars(flash) /\ saved = Vars(flash)
    BY <1>2, <2>1, CurIs
  <2> QED
    BY <2>2
<1>6. CASE Clear
  <2>1. /\ wpc = "clear" /\ staging.st = "whole" /\ flash' = flash /\ table' = table
        /\ staging'.st = "open" /\ staging'.hdr = HeaderOf(table)
    BY <1>1, <1>6 DEF Clear, Image, FilesInv
  <2>2. saved' = saved /\ cur = Vars(staging) /\ cur' = Coming(HeaderOf(table), table)
    BY <1>2, <2>1, CurIs
  <2>3. Changed(cur, cur')
    BY <1>1, <2>1, <2>2 DEF LoadInv
  <2> QED
    BY <2>2, <2>3 DEF Changed, Store!Next, Store!SetTo, Store!TakeOut
<1>7. CASE WriteTuple
  <2>1. staging.st = "open" /\ flash' = flash /\ table' = table
    BY <1>1, <1>7 DEF WriteTuple, FilesInv
  <2>2. staging'.st = staging.st /\ staging'.hdr = staging.hdr
    BY <1>1, <1>7 DEF WriteTuple, Files
  <2>3. saved' = saved /\ cur' = cur
    BY <1>2, <2>1, <2>2, CurIs
  <2> QED
    BY <2>3
<1>8. CASE EndList
  <2>1. /\ wpc = "write" /\ staging.st = "open" /\ flash' = flash /\ table' = table
        /\ at.bucket > NBuckets
        /\ staging' = [staging EXCEPT !.st = "whole", !.len = Length(at.bytes)]
    BY <1>1, <1>8 DEF EndList, FilesInv
  <2>2. staging'.st = "whole" /\ staging'.hdr = staging.hdr /\ staging'.list = staging.list
    BY <1>1, <2>1 DEF Files
  <2>3. staging' \in Files
    <3>1. Length(at.bytes) \in Nat
      BY <1>1, SizesAreNumbers
    <3> QED
      BY <1>1, <2>1, <3>1 DEF Files
  <2>4. \A b \in 1 .. NBuckets : \A p : Passed(b, p)
    BY <1>1, <2>1, SizesAreNumbers DEF Passed
  <2>5. Vars(staging') = Coming(staging'.hdr, table)
    <3> DEFINE f == staging'
    <3>1. /\ \A i \in DOMAIN f.list : \E b \in 1 .. NBuckets : \E p \in DOMAIN table[b] : f.list[i] = table[b][p]
          /\ \A b \in 1 .. NBuckets : \A p \in DOMAIN table[b] : \E i \in DOMAIN f.list : f.list[i] = table[b][p]
          /\ \A i, j \in DOMAIN f.list : f.list[i][1] = f.list[j][1] => i = j
      BY <1>1, <2>1, <2>2, <2>4, SMTT(60) DEF WrittenInv
    <3>2. f \in Files
      BY <2>3
    <3> HIDE DEF f
    <3>3. Vars(f) = Coming(f.hdr, table)
      BY <1>1, <3>1, <3>2, WrittenSays
    <3> QED
      BY <3>3 DEF f
  <2>6. saved' = saved /\ cur' = cur
    BY <1>2, <2>1, <2>2, <2>5, CurIs
  <2> QED
    BY <2>6
<1>9. CASE WriteFlash
  <2>1. staging.st = "whole" /\ staging' = staging
    BY <1>1, <1>9 DEF WriteFlash, FilesInv
  <2>2. cur' = cur /\ cur = Vars(staging)
    BY <1>2, <2>1, CurIs
  <2>3. CASE wpc = "save"
    <3>1. flash'.st = "torn"
      BY <1>1, <1>9, <2>3 DEF WriteFlash, Files
    <3>2. saved' = Store!AllLost
      BY <1>2, <3>1
    <3> QED
      BY <2>2, <3>2 DEF Store!Next, Store!SaveBegins
  <2>4. CASE wpc # "save"
    <3>1. flash.st = "torn" /\ flash' = staging
      BY <1>1, <1>9, <2>4 DEF WriteFlash, FilesInv, SavedInv
    <3>2. saved = Store!AllLost /\ saved' = Vars(staging)
      BY <1>2, <2>1, <3>1, CurIs
    <3> QED
      BY <2>2, <3>2 DEF Store!Next, Store!SaveEnds
  <2> QED
    BY <2>3, <2>4
<1>10. CASE Unlink
  <2>1. /\ flash = staging /\ staging.st = "whole" /\ flash' = flash /\ staging'.st = "none"
    BY <1>1, <1>10 DEF Unlink, FilesInv, SavedInv, NoFile, Image
  <2>2. saved' = saved /\ cur = saved /\ cur' = saved'
    BY <1>2, <2>1, CurIs
  <2> QED
    BY <2>2
<1>11. CASE Reboot
  <2>1. flash' = flash /\ staging'.st = "none"
    BY <1>11 DEF Reboot, NoFile, Image
  <2>2. saved' = saved /\ cur' = saved'
    BY <1>2, <2>1, CurIs
  <2> QED
    BY <2>2 DEF Store!Next, Store!Reboot
<1>12. CASE Start \/ FindStaging \/ (CopyToStaging /\ staging' = staging) \/ MapStaging \/ MaskTuple
            \/ UnmaskTuple \/ FillBacked \/ Edit \/ Reload \/ Close \/ ReadStaging
  <2>1. UNCHANGED <<flash, staging>> /\ wpc # "write"
    BY <1>12 DEF Start, FindStaging, CopyToStaging, MapStaging, MaskTuple,
       UnmaskTuple, FillBacked, Edit, Reload, Close, ReadStaging
  <2>2. staging.st # "open"
    BY <1>1, <2>1 DEF FilesInv
  <2> QED
    BY <1>3, <2>1, <2>2
<1>13. CASE (\E r \in Readers : Reader(r)) \/ UNCHANGED vars
  <2>1. UNCHANGED <<flash, staging, table>>
    BY <1>13 DEF vars, writerVars, Reader, FindSource, MapSource, ReadEnds, ReadTuple, ReadOn, Answer
  <2> QED
    BY <1>3, <2>1, SMTT(60)
<1> QED
  BY <1>4, <1>5, <1>6, <1>7, <1>8, <1>9, <1>10, <1>11, <1>12, <1>13 DEF Next, Writer

\* Where all variables fit, callers see a store: no variable is lost or changed but by
\* the command that names it, readers, power cuts and a full /tmp included.
THEOREM StoreIsImplemented ==
    ASSUME NEW longest, Roomy(longest)
    PROVE  Spec => Implements
<1>1. Init => StoreInv(longest) /\ Store!Init
  <2> SUFFICES ASSUME Init PROVE StoreInv(longest) /\ Store!Init
    OBVIOUS
  <2>1. TypeInv
    BY TypesBegin
  <2>2. HeaderInv /\ LoadInv /\ WrittenInv(longest) /\ SavedInv
    BY DEF Init, HeaderInv, LoadInv, WrittenInv, SavedInv
  <2>3. flash \in Files /\ flash.st = "whole" /\ staging.st = "none"
    BY <2>1 DEF Init, TypeInv, Types, FileTypes, NoFile, Image
  <2>4. saved = Vars(flash) /\ cur = saved
    BY <2>3, CurIs
  <2>5. saved \in [Names -> Values \cup {Absent}]
    BY <2>3, <2>4, VarsType
  <2> QED
    BY <2>1, <2>2, <2>4, <2>5 DEF StoreInv, Store!Init, Store!Stores
<1>2. StoreInv(longest) /\ [Next]_vars => StoreInv(longest)'
  BY TypesStay, HeaderStep, LoadStep, WrittenStep, SavedStep DEF StoreInv
<1>3. StoreInv(longest) /\ [Next]_vars => [Store!Next]_<<cur, saved>>
  BY StoreStep
<1> QED
  BY <1>1, <1>2, <1>3, PTL DEF Spec, Implements, Store!Spec

=============================================================================
