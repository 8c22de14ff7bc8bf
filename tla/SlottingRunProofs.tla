-------------------------- MODULE SlottingRunProofs --------------------------
(***************************************************************************)
(* For any options, any states of CartonCloud and any number of extracts,  *)
(* failed or not: what a run finds is of one extract, and the types.  And  *)
(* for any sheet, any export and any orders: how products are placed, how  *)
(* they are zoned, and that nothing is lost on the way.                    *)
(***************************************************************************)
EXTENDS SlottingRun, SequenceTheorems, FiniteSetTheorems, WellFoundedInduction, TLAPS

KindNo == 1 .. 3

File == [of : Nat, era : Nat, whole : BOOLEAN]

ExtractType ==
  [at : Pulls \union {"idle", "writing"},
   asked : [with_products : BOOLEAN, named : BOOLEAN, dry : BOOLEAN],
   pulled : [KindNo -> Nat], next : 1 .. 4, open : BOOLEAN]

TypedExtract ==
  /\ cc \in Nat \ {0} /\ extracts \in Nat /\ excused \in BOOLEAN
  /\ extract \in ExtractType

TypedFiles == files \in [KindNo -> Seq(File)]

TypedRun ==
  /\ DOMAIN run = DOMAIN NoRun /\ run.quiet \in BOOLEAN
  /\ run.next \in KindNo /\ run.found \in [KindNo -> Nat]

(* An extract that writes has pulled all it was asked for.                 *)
PulledSoFar ==
  /\ extract.at # "sale_orders" /\ extract.at # "idle" => extract.pulled[1] # 0
  /\ extract.at \in {"customer", "product_search", "writing"} => extract.pulled[2] # 0
  /\ extract.at = "writing" /\ extract.asked.with_products => extract.pulled[3] # 0

Untouched == extract.next = 1 /\ ~extract.open

(* Nothing is written before everything is pulled, or in a dry run.        *)
WritesLast == extract.at # "writing" \/ extract.asked.dry => Untouched

(* The files that the extract under way is ahead by, of each kind.         *)
Ahead(e, k) == IF k < e.next \/ (k = e.next /\ e.open) THEN 1 ELSE 0

(* There are as many files of each kind but for the extract under way, and *)
(* the i-th of each is of the same extract.                                *)
InStep ==
  /\ \A j, k \in KindNo : Len(files[j]) + Ahead(extract, k) = Len(files[k]) + Ahead(extract, j)
  /\ \A j, k \in KindNo : \A i \in 1 .. Len(files[j]) :
       i <= Len(files[k]) => files[j][i].of = files[k][i].of
  /\ \A k \in KindNo : Ahead(extract, k) = 1 => Len(files[k]) > 0 /\ files[k][Len(files[k])].of = extracts

(* While a run has not been disturbed, what it found is the newest.        *)
FoundNewest ==
  run.quiet =>
    /\ \A k \in KindNo : run.found[k] \in {0, Len(files[k])}
    /\ Untouched \/ (run.at = "none" /\ \A k \in KindNo : run.found[k] = 0)

IInv ==
  /\ TypedExtract /\ TypedFiles /\ TypedRun
  /\ PulledSoFar /\ WritesLast
  /\ ~excused => InStep
  /\ ~excused => FoundNewest

LEMMA KindsOfFile == DOMAIN Kinds = KindNo /\ Len(Kinds) = 3
  BY DEF Kinds, KindNo

(* An extract that has written nothing is ahead of no kind.                *)
LEMMA NoneAhead ==
  ASSUME TypedExtract, Untouched
  PROVE  \A k \in KindNo : Ahead(extract, k) = 0
  BY DEF TypedExtract, ExtractType, Untouched, Ahead, KindNo

LEMMA NoExtractTyped == NoExtract \in ExtractType
  BY KindsOfFile DEF NoExtract, NoOption, KindNo, ExtractType

LEMMA EndTyped ==
  ASSUME TypedExtract, extract' = NoExtract, cc' = cc, extracts' = extracts, excused' \in BOOLEAN
  PROVE  TypedExtract' /\ PulledSoFar' /\ Untouched'
  BY NoExtractTyped DEF TypedExtract, ExtractType, NoExtract, PulledSoFar, Untouched

LEMMA Initially == Init => IInv
<1> SUFFICES ASSUME Init PROVE IInv
  OBVIOUS
<1>1. TypedExtract /\ PulledSoFar /\ WritesLast /\ Untouched
  <2>1. cc = 1 /\ extracts = 0 /\ excused = FALSE /\ extract = NoExtract
    BY DEF Init
  <2>2. TypedExtract
    <3>1. cc \in Nat \ {0} /\ extracts \in Nat
      BY <2>1
    <3> QED BY <2>1, <3>1, NoExtractTyped DEF TypedExtract
  <2>3. extract.at = "idle" /\ extract.next = 1 /\ extract.open = FALSE
    BY <2>1 DEF NoExtract
  <2> QED BY <2>2, <2>3 DEF PulledSoFar, WritesLast, Untouched
<1>2. TypedFiles /\ \A k \in KindNo : Len(files[k]) = 0
  BY KindsOfFile DEF Init, TypedFiles
<1>3. run.quiet = TRUE /\ run.next = 1 /\ run.at = "none" /\ run.found = [k \in KindNo |-> 0]
  BY KindsOfFile DEF Init, NoRun
<1>5. TypedRun
  <2>1. DOMAIN run = DOMAIN NoRun
    BY DEF Init
  <2>2. 1 \in KindNo
    BY DEF KindNo
  <2>3. run.quiet \in BOOLEAN
    BY <1>3
  <2>4. [k \in KindNo |-> 0] \in [KindNo -> Nat]
    OBVIOUS
  <2> QED BY <1>3, <2>1, <2>2, <2>3, <2>4 DEF TypedRun
<1>6. FoundNewest
  BY <1>3 DEF FoundNewest
<1>4. InStep
  BY <1>1, <1>2, NoneAhead DEF InStep
<1> QED BY <1>1, <1>2, <1>4, <1>5, <1>6 DEF IInv

-----------------------------------------------------------------------------
(* The steps of an extract that leave the files alone. *)

LEMMA TradeKeeps ==
  ASSUME IInv, Trade
  PROVE  IInv'
<1>1. TypedExtract' /\ TypedFiles' /\ TypedRun'
  BY DEF IInv, Trade, extractVars, TypedExtract, ExtractType, TypedFiles, TypedRun
<1>2. PulledSoFar' /\ WritesLast'
  BY DEF IInv, Trade, extractVars, PulledSoFar, WritesLast, Untouched
<1>3. ~excused' => InStep'
  BY DEF IInv, Trade, extractVars, InStep
<1>4. ~excused' => FoundNewest'
  BY DEF IInv, Trade, extractVars, FoundNewest, Untouched
<1> QED BY <1>1, <1>2, <1>3, <1>4 DEF IInv

(* An extract that starts, fails, is a dry run, or is stopped before it    *)
(* has written anything.                                                   *)
LEMMA BeforeFilesKeeps ==
  ASSUME IInv, Untouched, Untouched', TypedExtract', PulledSoFar', excused' = excused,
         files' = files, run' = run
  PROVE  IInv'
<1>1. TypedFiles' /\ TypedRun' /\ WritesLast'
  BY DEF IInv, TypedFiles, TypedRun, WritesLast
<1>2. \A k \in KindNo : Ahead(extract, k) = 0 /\ Ahead(extract', k) = 0
  BY DEF IInv, TypedExtract, ExtractType, Untouched, Ahead, KindNo
<1>3. ~excused' => InStep'
  BY <1>2 DEF IInv, InStep
<1>4. ~excused' => FoundNewest'
  BY DEF IInv, FoundNewest
<1> QED BY <1>1, <1>3, <1>4 DEF IInv

LEMMA StartKeeps ==
  ASSUME IInv, StartExtract
  PROVE  IInv'
<1>1. PICK asked \in Options : extract' = [NoExtract EXCEPT !.at = "sale_orders", !.asked = asked]
  BY DEF StartExtract
<1>2. asked \in [with_products : BOOLEAN, named : BOOLEAN, dry : BOOLEAN]
  BY OptionsAssumption
<1>3. /\ extract' = [at |-> "sale_orders", asked |-> asked,
                     pulled |-> [k \in KindNo |-> 0], next |-> 1, open |-> FALSE]
      /\ extracts' = extracts + 1
  BY <1>1, KindsOfFile DEF StartExtract, NoExtract
<1>4. TypedExtract'
  <2>1. [k \in KindNo |-> 0] \in [KindNo -> Nat] /\ "sale_orders" \in Pulls
    BY DEF Pulls
  <2>2. extract' \in ExtractType
    BY <1>2, <1>3, <2>1 DEF ExtractType
  <2> QED BY <1>3, <2>2 DEF IInv, StartExtract, TypedExtract
<1>6. PulledSoFar' /\ Untouched'
  BY <1>3 DEF PulledSoFar, Untouched
<1>5. Untouched
  BY DEF IInv, WritesLast, StartExtract
<1> QED BY <1>4, <1>5, <1>6, BeforeFilesKeeps DEF StartExtract

LEMMA PullKeeps ==
  ASSUME IInv, Pull
  PROVE  IInv'
<1> DEFINE pulled == [k \in KindNo |-> IF k \in PulledBy(extract.at) THEN cc ELSE extract.pulled[k]]
<1>1. TypedExtract /\ PulledSoFar /\ Untouched /\ extract.at \in Pulls
  BY DEF IInv, WritesLast, Pull, Pulls
<1>2. extract' = [extract EXCEPT !.at = PlaceAfter(extract.at), !.pulled = pulled]
  BY <1>1, KindsOfFile DEF Pull, TypedExtract, ExtractType
<1>3. PlaceAfter(extract.at) \in Pulls \union {"writing"} /\ pulled \in [KindNo -> Nat]
  BY <1>1 DEF PlaceAfter, Pulls, TypedExtract, ExtractType
<1>4. TypedExtract' /\ Untouched'
  BY <1>1, <1>2, <1>3 DEF Pull, TypedExtract, ExtractType, Untouched
<1>5. PulledSoFar'
  <2>1. /\ extract'.at = PlaceAfter(extract.at) /\ extract'.asked = extract.asked
        /\ \A k \in KindNo : extract'.pulled[k] = IF k \in PulledBy(extract.at) THEN cc ELSE extract.pulled[k]
        /\ cc # 0
    BY <1>1, <1>2 DEF TypedExtract, ExtractType
  <2>2. CASE extract.at = "sale_orders"
    <3>1. PlaceAfter(extract.at) = "purchase_orders"
      BY <2>2 DEF PlaceAfter
    <3>2. PulledBy(extract.at) = {1}
      BY <2>2 DEF PulledBy
    <3> QED BY <2>1, <3>1, <3>2 DEF PulledSoFar, KindNo
  <2>3. CASE extract.at = "purchase_orders"
    <3>1. /\ PlaceAfter(extract.at) \in {"writing", "customer", "product_search"}
          /\ PlaceAfter(extract.at) = "writing" => ~extract.asked.with_products
      BY <2>3 DEF PlaceAfter
    <3>2. PulledBy(extract.at) = {2}
      BY <2>3 DEF PulledBy
    <3> QED BY <1>1, <2>1, <2>3, <3>1, <3>2 DEF PulledSoFar, KindNo
  <2>4. CASE extract.at = "customer"
    <3>1. PlaceAfter(extract.at) = "product_search"
      BY <2>4 DEF PlaceAfter
    <3>2. PulledBy(extract.at) = {}
      BY <2>4 DEF PulledBy
    <3> QED BY <1>1, <2>1, <2>4, <3>1, <3>2 DEF PulledSoFar, KindNo
  <2>5. CASE extract.at = "product_search"
    <3>1. PulledBy(extract.at) = {3}
      BY <2>5 DEF PulledBy
    <3> QED BY <1>1, <2>1, <2>5, <3>1 DEF PulledSoFar, KindNo
  <2> QED BY <1>1, <2>2, <2>3, <2>4, <2>5 DEF Pulls
<1> QED BY <1>1, <1>4, <1>5, BeforeFilesKeeps DEF Pull

LEMMA PullFailsKeeps ==
  ASSUME IInv, PullFails \/ DryRun
  PROVE  IInv'
<1>1. TypedExtract /\ Untouched
  BY DEF IInv, WritesLast, PullFails, DryRun, Pulls
<1>2. TypedExtract' /\ PulledSoFar' /\ Untouched'
  BY <1>1, EndTyped DEF PullFails, DryRun, TypedExtract, ExtractType
<1> QED BY <1>1, <1>2, BeforeFilesKeeps DEF PullFails, DryRun
-----------------------------------------------------------------------------
(* The steps of an extract that writes. *)

LEMMA WritingFacts ==
  ASSUME IInv, NEW k \in DOMAIN Kinds, Writing(k)
  PROVE  /\ extract \in ExtractType /\ k \in KindNo /\ k = extract.next
         /\ extract.at = "writing" /\ ~extract.asked.dry
         /\ files \in [KindNo -> Seq(File)] /\ extracts \in Nat
  BY KindsOfFile DEF IInv, TypedExtract, TypedFiles, Writing

LEMMA SkipKeeps ==
  ASSUME IInv, NEW k \in DOMAIN Kinds, SkipFile(k)
  PROVE  IInv'
<1>1. /\ extract \in ExtractType /\ k \in KindNo /\ extract.at = "writing" /\ ~extract.asked.dry
      /\ extract' = [extract EXCEPT !.next = k + 1]
  BY WritingFacts DEF SkipFile
<1>2. excused' = TRUE
  <2>1. extract.pulled[k] # 0 \/ ~extract.asked.with_products
    BY <1>1 DEF IInv, PulledSoFar, KindNo
  <2> QED BY <2>1 DEF SkipFile
<1>3. extract' \in ExtractType
  BY <1>1 DEF ExtractType, KindNo
<1>4. TypedExtract' /\ TypedFiles' /\ TypedRun'
  BY <1>2, <1>3 DEF IInv, SkipFile, TypedExtract, TypedFiles, TypedRun
<1>5. /\ extract'.at = "writing" /\ extract'.asked = extract.asked /\ extract'.pulled = extract.pulled
  BY <1>1 DEF ExtractType
<1>6. PulledSoFar' /\ WritesLast'
  BY <1>1, <1>5 DEF IInv, PulledSoFar, WritesLast
<1> QED BY <1>2, <1>4, <1>6 DEF IInv

(* What OpenFile and CloseFile have in common.                             *)
LEMMA DisturbKeeps ==
  ASSUME IInv, run' = [run EXCEPT !.quiet = FALSE], UNCHANGED <<cc, extracts, excused>>,
         extract \in ExtractType, extract' \in ExtractType,
         extract.at = "writing", ~extract.asked.dry,
         extract'.at = extract.at, extract'.asked = extract.asked, extract'.pulled = extract.pulled,
         TypedFiles', ~excused => InStep'
  PROVE  IInv'
<1>1. TypedExtract' /\ PulledSoFar' /\ WritesLast'
  BY DEF IInv, TypedExtract, PulledSoFar, WritesLast
<1>2. TypedRun' /\ run'.quiet = FALSE
  BY DEF IInv, TypedRun, NoRun
<1> QED BY <1>1, <1>2 DEF IInv, FoundNewest

(* As many files more as there are fewer to come.                          *)
LEMMA Balance ==
  ASSUME NEW a \in Int, NEW b \in Int, NEW c \in Int, NEW d \in Int, a + b = c + d
  PROVE  (a + 1) + b = c + (d + 1)
  OBVIOUS

LEMMA OpenKeeps ==
  ASSUME IInv, NEW k \in DOMAIN Kinds, OpenFile(k)
  PROVE  IInv'
<1> DEFINE new == [of |-> extracts, era |-> extract.pulled[k], whole |-> FALSE]
<1>1. /\ extract \in ExtractType /\ k \in KindNo /\ k = extract.next /\ ~extract.open
      /\ extract.at = "writing" /\ ~extract.asked.dry
      /\ files \in [KindNo -> Seq(File)] /\ extracts \in Nat
      /\ extract' = [extract EXCEPT !.open = TRUE] /\ UNCHANGED <<extracts, excused>>
      /\ files' = [files EXCEPT ![k] = Append(@, new)]
  BY WritingFacts DEF OpenFile
<1>2. /\ extract' \in ExtractType
      /\ extract'.at = extract.at /\ extract'.asked = extract.asked /\ extract'.pulled = extract.pulled
      /\ extract'.next = extract.next /\ extract'.open = TRUE
  BY <1>1 DEF ExtractType
<1>3. new \in File /\ new.of = extracts
  BY <1>1 DEF ExtractType, File
<1> HIDE DEF new
<1>4. /\ files'[k] \in Seq(File) /\ Len(files'[k]) = Len(files[k]) + 1
      /\ \A i \in 1 .. Len(files[k]) : files'[k][i] = files[k][i]
      /\ files'[k][Len(files[k]) + 1].of = extracts
      /\ \A j \in KindNo \ {k} : files'[j] = files[j]
  <2>1. files[k] \in Seq(File)
    BY <1>1
  <2>2. files'[k] = Append(files[k], new) /\ \A j \in KindNo \ {k} : files'[j] = files[j]
    BY <1>1
  <2> QED BY <1>3, <2>1, <2>2, AppendProperties
<1>5. TypedFiles'
  BY <1>1, <1>4 DEF TypedFiles
<1>6. Ahead(extract, k) = 0 /\ Ahead(extract', k) = 1 /\ \A j \in KindNo \ {k} : Ahead(extract', j) = Ahead(extract, j)
  BY <1>1, <1>2 DEF Ahead, KindNo
<1>7. ASSUME ~excused PROVE InStep'
  <2>1. InStep /\ \A j \in KindNo : Len(files[j]) \in Nat /\ Ahead(extract, j) \in 0 .. 1
    BY <1>1, <1>7 DEF IInv, Ahead
  <2>2. \A j \in KindNo : /\ j # k => files'[j] = files[j] /\ Ahead(extract', j) = Ahead(extract, j)
                          /\ j = k => Ahead(extract', j) = Ahead(extract, j) + 1 /\ Len(files'[j]) = Len(files[j]) + 1
    BY <1>4, <1>6
  <2>3. \A i, j \in KindNo : Len(files'[i]) + Ahead(extract', j) = Len(files'[j]) + Ahead(extract', i)
    <3> SUFFICES ASSUME NEW i \in KindNo, NEW j \in KindNo
                 PROVE  Len(files'[i]) + Ahead(extract', j) = Len(files'[j]) + Ahead(extract', i)
      OBVIOUS
    <3>1. Len(files[i]) + Ahead(extract, j) = Len(files[j]) + Ahead(extract, i)
      BY <2>1 DEF InStep
    <3>2. /\ Len(files[i]) \in Nat /\ Ahead(extract, i) \in 0 .. 1
          /\ Len(files[j]) \in Nat /\ Ahead(extract, j) \in 0 .. 1
      BY <2>1
    <3>3. CASE i = k /\ j = k
      BY <3>3
    <3>4. CASE i = k /\ j # k
      <4>1. Len(files'[j]) = Len(files[j]) /\ Ahead(extract', j) = Ahead(extract, j)
        BY <2>2, <3>4
      <4>2. Len(files'[i]) = Len(files[i]) + 1 /\ Ahead(extract', i) = Ahead(extract, i) + 1
        BY <2>2, <3>4
      <4>3. /\ Len(files[i]) \in Int /\ Ahead(extract, i) \in Int
            /\ Len(files[j]) \in Int /\ Ahead(extract, j) \in Int
        BY <3>2
      <4>4. (Len(files[i]) + 1) + Ahead(extract, j) = Len(files[j]) + (Ahead(extract, i) + 1)
        BY <3>1, <4>3, Balance
      <4> QED BY <4>1, <4>2, <4>4, Zenon
    <3>5. CASE i # k /\ j = k
      <4>1. Len(files'[i]) = Len(files[i]) /\ Ahead(extract', i) = Ahead(extract, i)
        BY <2>2, <3>5
      <4>2. Len(files'[j]) = Len(files[j]) + 1 /\ Ahead(extract', j) = Ahead(extract, j) + 1
        BY <2>2, <3>5
      <4>3. /\ Len(files[i]) \in Int /\ Ahead(extract, i) \in Int
            /\ Len(files[j]) \in Int /\ Ahead(extract, j) \in Int
        BY <3>2
      <4>4. (Len(files[j]) + 1) + Ahead(extract, i) = Len(files[i]) + (Ahead(extract, j) + 1)
        BY <3>1, <4>3, Balance
      <4> QED BY <4>1, <4>2, <4>4, Zenon
    <3>6. CASE i # k /\ j # k
      BY <2>2, <3>1, <3>6
    <3> QED BY <3>3, <3>4, <3>5, <3>6
  <2>4. \A j \in KindNo : Ahead(extract', j) = 1 =>
          Len(files'[j]) > 0 /\ files'[j][Len(files'[j])].of = extracts'
    BY <1>1, <1>4, <2>1, <2>2 DEF InStep
  <2>5. ASSUME NEW j \in KindNo, j # k, NEW i \in 1 .. Len(files[j]), i <= Len(files[k]) + 1
        PROVE  files'[j][i].of = files'[k][i].of
    <3>1. files'[j] = files[j] /\ Len(files[j]) = Len(files[k]) + Ahead(extract, j)
      BY <1>1, <1>6, <2>1, <2>2, <2>5 DEF InStep
    <3>2. CASE i <= Len(files[k])
      BY <1>1, <1>4, <2>1, <2>5, <3>1, <3>2 DEF InStep
    <3>3. CASE i = Len(files[k]) + 1
      <4>1. Ahead(extract, j) = 1 /\ Len(files[j]) = i
        BY <1>1, <2>1, <2>5, <3>1, <3>3
      <4> QED BY <1>4, <2>1, <2>5, <3>1, <3>3, <4>1 DEF InStep
    <3> QED BY <1>1, <2>1, <2>5, <3>2, <3>3
  <2>6. \A i, j \in KindNo : \A n \in 1 .. Len(files'[i]) :
          n <= Len(files'[j]) => files'[i][n].of = files'[j][n].of
    BY <1>1, <1>4, <2>1, <2>2, <2>5 DEF InStep
  <2> QED BY <2>3, <2>4, <2>6 DEF InStep
<1>8. run' = [run EXCEPT !.quiet = FALSE] /\ UNCHANGED <<cc, extracts, excused>>
  BY DEF OpenFile
<1> QED BY <1>1, <1>2, <1>5, <1>7, <1>8, DisturbKeeps

(* Closing the file of a kind changes nothing of it but that it is whole.  *)
LEMMA ClosedFile ==
  ASSUME IInv, NEW k \in DOMAIN Kinds, CloseFile(k)
  PROVE  /\ files'[k] \in Seq(File) /\ Len(files'[k]) = Len(files[k]) /\ Len(files[k]) \in Nat
         /\ \A i \in 1 .. Len(files[k]) :
              /\ files'[k][i].of = files[k][i].of /\ files'[k][i].era = files[k][i].era
              /\ files'[k][i].whole <=> files[k][i].whole \/ i = Len(files[k])
         /\ \A j \in KindNo \ {k} : files'[j] = files[j]
<1> DEFINE s == files[k]
           last == Len(s)
           closed == [s[last] EXCEPT !.whole = TRUE]
<1>1. /\ k \in KindNo /\ files \in [KindNo -> Seq(File)]
      /\ files' = [files EXCEPT ![k][Len(files[k])].whole = TRUE]
  BY WritingFacts DEF CloseFile
<1>2. s \in Seq(File) /\ last \in Nat
  BY <1>1
<1>3. files'[k] = [s EXCEPT ![last] = closed] /\ \A j \in KindNo \ {k} : files'[j] = files[j]
  <2>1. \A j \in KindNo \ {k} : files'[j] = files[j]
    BY <1>1, Zenon
  <2>2. files'[k] = [s EXCEPT ![last].whole = TRUE]
    BY <1>1, Zenon
  <2>3. [s EXCEPT ![last].whole = TRUE] = [s EXCEPT ![last] = closed]
    BY Zenon
  <2> QED BY <2>1, <2>2, <2>3
<1>4. \A i \in 1 .. last : s[i] \in File
  <2> HIDE DEF s
  <2> QED BY <1>2, ElementOfSeq
<1>5. CASE last = 0
  <2>1. s = <<>>
    BY <1>2, <1>5
  <2>2. files'[k] = <<>>
    BY <1>2, <1>3, <1>5, <2>1
  <2>3. Len(files[k]) = 0 /\ files[k] = <<>>
    BY <1>5, <2>1
  <2> HIDE DEF closed, last, s
  <2>4. <<>> \in Seq(File) /\ 1 .. 0 = {}
    OBVIOUS
  <2> QED BY <1>3, <2>2, <2>3, <2>4
<1>6. CASE last # 0
  <2>1. last \in 1 .. Len(s) /\ s[last] \in File
    BY <1>2, <1>4, <1>6
  <2>2. closed \in File /\ closed.of = s[last].of /\ closed.era = s[last].era /\ closed.whole = TRUE
    <3> HIDE DEF s, last
    <3> QED BY <2>1 DEF File, closed
  <2> HIDE DEF closed, last
  <2>3. /\ files'[k] \in Seq(File) /\ Len(files'[k]) = Len(s)
        /\ \A i \in 1 .. Len(s) : files'[k][i] = IF i = last THEN closed ELSE s[i]
    <3> HIDE DEF s
    <3> QED BY <1>2, <1>3, <2>1, <2>2, ExceptSeq
  <2> QED BY <1>2, <1>3, <1>4, <2>1, <2>2, <2>3 DEF last, File
<1> QED BY <1>5, <1>6

LEMMA CloseKeeps ==
  ASSUME IInv, NEW k \in DOMAIN Kinds, CloseFile(k)
  PROVE  IInv'
<1>1. /\ extract \in ExtractType /\ k \in KindNo /\ k = extract.next /\ extract.open
      /\ extract.at = "writing" /\ ~extract.asked.dry
      /\ files \in [KindNo -> Seq(File)] /\ extracts \in Nat
      /\ extract' = [extract EXCEPT !.open = FALSE, !.next = k + 1]
      /\ UNCHANGED <<extracts, excused>>
      /\ files' = [files EXCEPT ![k][Len(files[k])].whole = TRUE]
  BY WritingFacts DEF CloseFile
<1>2. /\ extract' \in ExtractType
      /\ extract'.at = extract.at /\ extract'.asked = extract.asked /\ extract'.pulled = extract.pulled
      /\ extract'.next = k + 1 /\ extract'.open = FALSE
  <2>1. k + 1 \in 1 .. 4
    BY <1>1 DEF KindNo
  <2> QED BY <1>1, <2>1 DEF ExtractType
<1>3. /\ files'[k] \in Seq(File) /\ Len(files'[k]) = Len(files[k])
      /\ \A i \in 1 .. Len(files[k]) : files'[k][i].of = files[k][i].of
      /\ \A j \in KindNo \ {k} : files'[j] = files[j]
  BY ClosedFile
<1>4. TypedFiles'
  BY <1>1, <1>3 DEF TypedFiles
<1>5. \A j \in KindNo : Ahead(extract', j) = Ahead(extract, j)
  BY <1>1, <1>2 DEF Ahead, KindNo
<1>6. ASSUME ~excused PROVE InStep'
  <2>1. InStep /\ \A j \in KindNo : Len(files[j]) \in Nat
    BY <1>1, <1>6 DEF IInv
  <2>2. \A j \in KindNo : /\ Len(files'[j]) = Len(files[j])
                          /\ \A i \in 1 .. Len(files[j]) : files'[j][i].of = files[j][i].of
    BY <1>3
  <2> QED BY <1>1, <1>5, <2>1, <2>2 DEF InStep
<1>7. run' = [run EXCEPT !.quiet = FALSE] /\ UNCHANGED <<cc, extracts, excused>>
  BY DEF CloseFile
<1> QED BY <1>1, <1>2, <1>4, <1>6, <1>7, DisturbKeeps

LEMMA ManifestKeeps ==
  ASSUME IInv, WriteManifest
  PROVE  IInv'
<1>1. /\ TypedExtract' /\ PulledSoFar' /\ Untouched' /\ WritesLast' /\ TypedFiles' /\ TypedRun'
  BY EndTyped DEF IInv, WriteManifest, TypedExtract, WritesLast, TypedFiles, TypedRun
<1>2. \A k \in KindNo : Ahead(extract, k) = 1 /\ Ahead(extract', k) = 0
  <2>1. extract \in ExtractType /\ extract.next > 3
    BY KindsOfFile DEF IInv, TypedExtract, WriteManifest
  <2>2. extract'.next = 1 /\ extract'.open = FALSE
    BY DEF WriteManifest, NoExtract
  <2> QED BY <2>1, <2>2 DEF Ahead, KindNo, ExtractType
<1>3. ASSUME ~excused PROVE InStep'
  <2>1. InStep /\ files' = files /\ \A j \in KindNo : Len(files[j]) \in Nat
    BY <1>3 DEF IInv, WriteManifest, TypedFiles
  <2> QED BY <1>2, <2>1 DEF InStep
<1>4. ~excused => FoundNewest'
  BY <1>1 DEF IInv, WriteManifest, FoundNewest
<1> QED BY <1>1, <1>3, <1>4 DEF IInv, WriteManifest

LEMMA StopExtractKeeps ==
  ASSUME IInv, StopExtract
  PROVE  IInv'
<1>1. excused \in BOOLEAN /\ excused' \in BOOLEAN
  BY DEF IInv, TypedExtract, StopExtract
<1>2. TypedExtract' /\ PulledSoFar' /\ Untouched'
  BY <1>1, EndTyped DEF IInv, StopExtract
<1>3. CASE excused' = excused /\ Untouched
  BY <1>2, <1>3, BeforeFilesKeeps DEF StopExtract
<1>4. CASE excused'
  BY <1>2, <1>4 DEF IInv, StopExtract, TypedFiles, TypedRun, WritesLast
<1>5. CASE ~excused'
  <2>1. ~excused /\ ~(extract.next > 1) /\ ~extract.open
    BY <1>5 DEF StopExtract
  <2>2. extract.next = 1
    BY <2>1 DEF IInv, TypedExtract, ExtractType
  <2> QED BY <1>1, <1>3, <1>5, <2>1, <2>2 DEF Untouched
<1> QED BY <1>4, <1>5

-----------------------------------------------------------------------------
(* The run.  It leaves the files and the extract alone. *)

LEMMA RunKeeps ==
  ASSUME IInv, UNCHANGED <<cc, extractVars>>, TypedRun', ~excused => FoundNewest'
  PROVE  IInv'
<1>1. TypedExtract' /\ TypedFiles' /\ PulledSoFar' /\ WritesLast'
  BY DEF IInv, extractVars, TypedExtract, TypedFiles, PulledSoFar, WritesLast, Untouched
<1>2. ~excused' => InStep'
  BY DEF IInv, extractVars, InStep
<1> QED BY <1>1, <1>2 DEF IInv, extractVars

(* Whatever a run publishes and wherever it ends.                          *)
LEMMA GoesOnKeeps ==
  ASSUME IInv, UNCHANGED <<cc, extractVars>>, run.at # "none",
         DOMAIN run' = DOMAIN run, run'.quiet = run.quiet, run'.found = run.found, run'.next \in KindNo
  PROVE  IInv'
<1>1. TypedRun'
  BY DEF IInv, TypedRun
<1>2. ~excused => FoundNewest'
  BY DEF IInv, FoundNewest, extractVars, Untouched
<1> QED BY <1>1, <1>2, RunKeeps

LEMMA EndKeeps ==
  ASSUME IInv, UNCHANGED <<cc, extractVars>>, run.at # "none",
         NEW how, NEW result,
         run' = [run EXCEPT !.at = how] \/ run' = [run EXCEPT !.at = how, !.published = result]
  PROVE  IInv'
<1>1. TypedRun
  BY DEF IInv
<1>2. DOMAIN run' = DOMAIN run /\ run'.quiet = run.quiet /\ run'.found = run.found /\ run'.next = run.next
  BY <1>1 DEF TypedRun, NoRun
<1> QED BY <1>1, <1>2, GoesOnKeeps DEF TypedRun
LEMMA StartRunKeeps ==
  ASSUME IInv, StartRun
  PROVE  IInv'
<1>1. PICK script \in {"assign", "analyze"} :
        run' = [NoRun EXCEPT !.script = script, !.at = "finding", !.quiet = extract.at # "writing"]
  BY DEF StartRun
<1>2. run' = [script |-> script, at |-> "finding", next |-> 1, found |-> [k \in KindNo |-> 0],
              quiet |-> (extract.at # "writing"), published |-> <<>>]
  BY <1>1, KindsOfFile DEF NoRun
<1>3. TypedRun'
  <2>1. DOMAIN run' = DOMAIN NoRun
    BY <1>2 DEF NoRun
  <2>2. run'.quiet \in BOOLEAN
    BY <1>2
  <2>3. run'.next \in KindNo
    BY <1>2 DEF KindNo
  <2>4. run'.found \in [KindNo -> Nat]
    BY <1>2
  <2> QED BY <2>1, <2>2, <2>3, <2>4 DEF TypedRun
<1>4. FoundNewest'
  <2>1. \A k \in KindNo : run'.found[k] = 0
    BY <1>2
  <2>2. run'.quiet => Untouched'
    BY <1>2 DEF IInv, StartRun, extractVars, WritesLast, Untouched
  <2> QED BY <2>1, <2>2 DEF FoundNewest
<1> QED BY <1>3, <1>4, RunKeeps DEF StartRun

LEMMA NextKind ==
  ASSUME TypedRun
  PROVE  (IF run.next = Len(Kinds) THEN 1 ELSE run.next + 1) \in KindNo
  BY KindsOfFile DEF TypedRun, KindNo

LEMMA FindKeeps ==
  ASSUME IInv, FindLatest
  PROVE  IInv'
<1>1. TypedRun /\ run.at = "finding" /\ UNCHANGED <<cc, extractVars>>
  BY DEF IInv, FindLatest
<1>2. CASE files[run.next] = <<>>
  BY <1>1, <1>2, EndKeeps DEF FindLatest, RunEnds
<1>3. CASE files[run.next] # <<>>
  <2> DEFINE place == IF run.next = Len(Kinds) THEN "reading" ELSE "finding"
             then == IF run.next = Len(Kinds) THEN 1 ELSE run.next + 1
  <2>1. then \in KindNo
    BY <1>1, NextKind
  <2>2. run' = [run EXCEPT !.found[run.next] = Len(files[run.next]), !.at = place, !.next = then]
    BY <1>3 DEF FindLatest, Latest
  <2>3. place # "none"
    OBVIOUS
  <2> HIDE DEF place, then
  <2>4. /\ DOMAIN run' = DOMAIN run /\ run'.quiet = run.quiet /\ run'.next = then
        /\ run'.found = [run.found EXCEPT ![run.next] = Len(files[run.next])] /\ run'.at = place
    BY <1>1, <2>2 DEF TypedRun, NoRun
  <2>5. Len(files[run.next]) \in Nat
    BY <1>1 DEF IInv, TypedFiles, TypedRun
  <2>6. TypedRun'
    BY <1>1, <2>1, <2>4, <2>5 DEF TypedRun
  <2>7. ASSUME ~excused PROVE FoundNewest'
    <3>1. FoundNewest /\ files' = files /\ extract' = extract
      BY <1>1, <2>7 DEF IInv, extractVars
    <3>2. \A k \in KindNo :
            run'.found[k] = IF k = run.next THEN Len(files[k]) ELSE run.found[k]
      BY <1>1, <2>4 DEF TypedRun
    <3> QED BY <1>1, <2>3, <2>4, <3>1, <3>2 DEF FoundNewest, Untouched
  <2> QED BY <1>1, <2>6, <2>7, RunKeeps
<1> QED BY <1>2, <1>3

LEMMA ReadKeeps ==
  ASSUME IInv, ReadParquet
  PROVE  IInv'
<1>1. TypedRun /\ run.at = "reading" /\ UNCHANGED <<cc, extractVars>>
  BY DEF IInv, ReadParquet
<1>2. CASE ~Found(run.next).whole
  BY <1>1, <1>2, EndKeeps DEF ReadParquet, RunEnds
<1>3. CASE Found(run.next).whole
  <2> DEFINE place == IF run.next = Len(Kinds) THEN "loading" ELSE "reading"
             then == IF run.next = Len(Kinds) THEN 1 ELSE run.next + 1
  <2>1. then \in KindNo
    BY <1>1, NextKind
  <2>2. run' = [run EXCEPT !.at = place, !.next = then]
    BY <1>3 DEF ReadParquet
  <2> HIDE DEF place, then
  <2>3. DOMAIN run' = DOMAIN run /\ run'.quiet = run.quiet /\ run'.found = run.found /\ run'.next = then
    BY <1>1, <2>2 DEF TypedRun, NoRun
  <2> QED BY <1>1, <2>1, <2>3, GoesOnKeeps
<1> QED BY <1>2, <1>3

LEMMA LoadKeeps ==
  ASSUME IInv, LoadSheet
  PROVE  IInv'
<1>1. run.at = "loading" /\ UNCHANGED <<cc, extractVars>>
  BY DEF LoadSheet
<1>2. PICK how \in {"refused", "raised", "computing"} : run' = [run EXCEPT !.at = how]
  BY DEF LoadSheet, RunEnds
<1> QED BY <1>1, <1>2, EndKeeps

LEMMA AssignKeeps ==
  ASSUME IInv, Assign
  PROVE  IInv'
<1>1. run.at = "computing" /\ UNCHANGED <<cc, extractVars>>
  BY DEF Assign
<1>2. PICK how, result :
        run' = [run EXCEPT !.at = how] \/ run' = [run EXCEPT !.at = how, !.published = result]
  BY DEF Assign, RunEnds, Publish
<1> QED BY <1>1, <1>2, EndKeeps

LEMMA AnalyzeKeeps ==
  ASSUME IInv, Analyze
  PROVE  IInv'
<1>1. run.at = "computing" /\ UNCHANGED <<cc, extractVars>>
  BY DEF Analyze
<1>2. PICK how, result :
        run' = [run EXCEPT !.at = how] \/ run' = [run EXCEPT !.at = how, !.published = result]
  BY DEF Analyze, RunEnds, Publish
<1> QED BY <1>1, <1>2, EndKeeps

LEMMA StopRunKeeps ==
  ASSUME IInv, StopRun
  PROVE  IInv'
<1>1. run.at # "none" /\ UNCHANGED <<cc, extractVars>> /\ run' = [run EXCEPT !.at = "stopped"]
  BY DEF StopRun, RunEnds
<1> QED BY <1>1, EndKeeps

LEMMA StutterKeeps ==
  ASSUME IInv, UNCHANGED vars
  PROVE  IInv'
<1>1. TypedRun' /\ UNCHANGED <<cc, extractVars>>
  BY DEF IInv, TypedRun, vars, extractVars
<1>2. ~excused => FoundNewest'
  BY DEF IInv, FoundNewest, vars, Untouched
<1> QED BY <1>1, <1>2, RunKeeps

LEMMA StepKeeps ==
  ASSUME IInv, [Next]_vars
  PROVE  IInv'
<1>1. CASE Trade
  BY <1>1, TradeKeeps
<1>2. CASE Extract
  BY <1>2, StartKeeps, PullKeeps, PullFailsKeeps, ManifestKeeps, StopExtractKeeps, SkipKeeps, OpenKeeps, CloseKeeps
     DEF Extract
<1>3. CASE StartRun \/ FindLatest \/ ReadParquet \/ LoadSheet \/ Assign \/ Analyze \/ StopRun
  BY <1>3, StartRunKeeps, FindKeeps, ReadKeeps, LoadKeeps, AssignKeeps, AnalyzeKeeps, StopRunKeeps
<1>4. CASE UNCHANGED vars
  BY <1>4, StutterKeeps
<1> QED BY <1>1, <1>2, <1>3, <1>4 DEF Next

LEMMA TogetherFollows == IInv => OneSnapshot
<1> SUFFICES ASSUME IInv, run.quiet, ~excused, \A j \in DOMAIN Kinds : run.found[j] > 0, NEW k \in DOMAIN Kinds
             PROVE  Found(k).of = Found(1).of
  BY DEF OneSnapshot
<1>1. k \in KindNo /\ 1 \in KindNo /\ TypedExtract /\ TypedFiles /\ InStep /\ FoundNewest
  BY KindsOfFile DEF IInv, KindNo
<1>2. run.found[k] # 0 /\ run.found[1] # 0
  BY <1>1, KindsOfFile
<1>3. run.found[k] = Len(files[k]) /\ run.found[1] = Len(files[1])
  BY <1>1, <1>2 DEF FoundNewest
<1>4. Untouched
  BY <1>1, <1>2 DEF FoundNewest
<1>5. Len(files[k]) = Len(files[1]) /\ Len(files[k]) \in Nat
  BY <1>1, <1>4, NoneAhead DEF InStep, TypedFiles
<1>6. Len(files[k]) \in 1 .. Len(files[k])
  BY <1>2, <1>3, <1>5
<1> QED BY <1>1, <1>3, <1>5, <1>6 DEF InStep, Found

-----------------------------------------------------------------------------
(* However many extracts fail, are dry runs or are under way, and whatever *)
(* CartonCloud holds meanwhile: analysis/loaders.py hands a run that no    *)
(* writing extract disturbed three files of one extract.                   *)
THEOREM FilesOfOneExtract == Spec => []OneSnapshot
<1>1. IInv /\ [Next]_vars => IInv'
  BY StepKeeps
<1> QED BY Initially, TogetherFollows, <1>1, PTL DEF Spec
-----------------------------------------------------------------------------
(* The types.  A file that is not whole is one an extract left behind, or  *)
(* the last one of the kind being written; every file has rows, since a    *)
(* kind without any gets no file.                                          *)
Places == {"none", "finding", "reading", "loading", "computing",
           "published", "raised", "refused", "stopped"}

ExtractWithin ==
  /\ cc \in DOMAIN Eras /\ extracts <= MaxExtracts
  /\ extract.asked \in Options \union {NoOption}
  /\ \A k \in KindNo : extract.pulled[k] <= Len(Eras)
  /\ extract.at # "idle" => extracts > 0

FileOK(k, i) ==
  /\ files[k][i].of \in 1 .. extracts
  /\ files[k][i].era \in DOMAIN Eras /\ Rows(k, files[k][i].era) # <<>>
  /\ ~files[k][i].whole => excused \/ (extract.open /\ k = extract.next /\ i = Len(files[k]))

FilesWithin == \A k \in KindNo : \A i \in 1 .. Len(files[k]) : FileOK(k, i)

RunWithin ==
  /\ run.script \in {"none", "assign", "analyze"} /\ run.at \in Places
  /\ \A k \in KindNo : run.found[k] <= Len(files[k])

Within == ExtractWithin /\ FilesWithin /\ RunWithin

LEMMA ErasType == /\ Len(Eras) \in Nat \ {0} /\ DOMAIN Eras = 1 .. Len(Eras)
<1>1. Eras \in Seq(ToSet(Eras)) /\ Eras # <<>>
  BY ErasAssumption
<1> QED BY <1>1, EmptySeq

LEMMA NoExtractWithin ==
  /\ NoExtract.asked = NoOption /\ NoExtract.at = "idle" /\ NoExtract.open = FALSE
  /\ \A k \in KindNo : NoExtract.pulled[k] = 0
  BY KindsOfFile DEF NoExtract

LEMMA InitWithin == Init => Within
<1> SUFFICES ASSUME Init PROVE Within
  OBVIOUS
<1>1. /\ cc = 1 /\ extracts = 0 /\ extract = NoExtract /\ run = NoRun
      /\ files = [k \in KindNo |-> <<>>]
  BY KindsOfFile DEF Init
<1>2. ExtractWithin
  BY <1>1, NoExtractWithin, ErasType, ErasAssumption DEF ExtractWithin
<1>3. \A k \in KindNo : Len(files[k]) = 0
  BY <1>1
<1>4. FilesWithin
  BY <1>3 DEF FilesWithin
<1>5. RunWithin
  <2>1. run.script = "none" /\ run.at = "none" /\ run.found = [k \in KindNo |-> 0]
    BY <1>1, KindsOfFile DEF NoRun
  <2> QED BY <1>3, <2>1 DEF RunWithin, Places
<1> QED BY <1>2, <1>4, <1>5 DEF Within

(* A step that leaves the files alone, and none of them half written       *)
(* unless it is excused.                                                   *)
LEMMA FilesAlone ==
  ASSUME IInv, Within, files' = files, extracts' \in Nat, extracts <= extracts',
         excused => excused',
         excused' \/ ~extract.open \/ (extract'.open /\ extract'.next = extract.next)
  PROVE  FilesWithin'
<1> SUFFICES ASSUME NEW k \in KindNo, NEW i \in 1 .. Len(files[k]) PROVE FileOK(k, i)'
  BY DEF FilesWithin
<1>1. FileOK(k, i)
  BY DEF Within, FilesWithin
<1>2. extracts \in Nat
  BY DEF IInv, TypedExtract
<1>3. files'[k][i].of \in 1 .. extracts'
  BY <1>1, <1>2 DEF FileOK
<1> QED BY <1>1, <1>3 DEF FileOK

LEMMA RunAlone ==
  ASSUME Within, files' = files, run' = run
  PROVE  RunWithin'
  BY DEF Within, RunWithin

LEMMA EndsWithin ==
  ASSUME IInv, Within, extract' = NoExtract, UNCHANGED <<cc, files, extracts, run>>,
         excused => excused', excused' \/ ~extract.open
  PROVE  Within'
<1>1. ExtractWithin'
  BY NoExtractWithin, ErasType DEF Within, ExtractWithin
<1>2. FilesWithin'
  <2>1. extracts \in Nat
    BY DEF IInv, TypedExtract
  <2> QED BY <2>1, FilesAlone
<1> QED BY <1>1, <1>2, RunAlone DEF Within

LEMMA TradeWithin == ASSUME IInv, Within, Trade PROVE Within'
<1>1. UNCHANGED <<files, extracts, extract, excused, run>> /\ cc' = cc + 1 /\ cc < Len(Eras)
  BY DEF Trade, extractVars
<1>2. ExtractWithin'
  BY <1>1, ErasType DEF Within, ExtractWithin
<1>3. FilesWithin'
  <2>1. extracts \in Nat
    BY DEF IInv, TypedExtract
  <2> QED BY <1>1, <2>1, FilesAlone
<1> QED BY <1>1, <1>2, <1>3, RunAlone DEF Within

LEMMA StartWithin == ASSUME IInv, Within, StartExtract PROVE Within'
<1>1. PICK asked \in Options : extract' = [NoExtract EXCEPT !.at = "sale_orders", !.asked = asked]
  BY DEF StartExtract
<1>2. /\ extract'.asked = asked /\ extract'.open = FALSE
      /\ \A k \in KindNo : extract'.pulled[k] = 0
  BY <1>1, KindsOfFile DEF NoExtract
<1>3. /\ extracts' = extracts + 1 /\ extracts < MaxExtracts /\ extracts \in Nat
      /\ extract.at = "idle" /\ UNCHANGED <<cc, files, excused, run>>
  BY DEF IInv, TypedExtract, StartExtract
<1>4. ExtractWithin'
  BY <1>2, <1>3, ErasType, ErasAssumption DEF Within, ExtractWithin
<1>5. ~extract.open
  BY <1>3 DEF IInv, WritesLast, Untouched
<1>6. FilesWithin'
  BY <1>3, <1>5, FilesAlone
<1> QED BY <1>3, <1>4, <1>6, RunAlone DEF Within

LEMMA PullWithin == ASSUME IInv, Within, Pull PROVE Within'
<1>1. /\ extract \in ExtractType /\ extract.at \in Pulls /\ extracts \in Nat
      /\ UNCHANGED <<cc, files, extracts, excused, run>>
  BY DEF IInv, TypedExtract, Pull
<1>2. extract' = [extract EXCEPT !.at = PlaceAfter(extract.at),
         !.pulled = [k \in KindNo |-> IF k \in PulledBy(extract.at) THEN cc ELSE @[k]]]
  BY KindsOfFile DEF Pull
<1>3. /\ extract'.asked = extract.asked /\ extract'.open = extract.open
      /\ extract'.next = extract.next
      /\ \A k \in KindNo : extract'.pulled[k] \in {cc, extract.pulled[k]}
  BY <1>1, <1>2 DEF ExtractType
<1>4. ExtractWithin'
  <2>1. extract.at # "idle" /\ cc <= Len(Eras)
    BY <1>1, ErasType DEF Pulls, Within, ExtractWithin
  <2> QED BY <1>1, <1>3, <2>1 DEF Within, ExtractWithin
<1>5. FilesWithin'
  BY <1>1, <1>3, FilesAlone
<1> QED BY <1>1, <1>4, <1>5, RunAlone DEF Within

LEMMA FailsWithin ==
  ASSUME IInv, Within, PullFails \/ DryRun \/ WriteManifest \/ StopExtract
  PROVE  Within'
<1>1. extract' = NoExtract /\ UNCHANGED <<cc, files, extracts, run>> /\ (excused => excused')
  <2>1. CASE PullFails \/ DryRun \/ WriteManifest
    BY <2>1 DEF PullFails, DryRun, WriteManifest
  <2>2. CASE StopExtract
    <3>1. excused => excused'
      BY <2>2 DEF StopExtract
    <3> QED BY <2>2, <3>1 DEF StopExtract
  <2> QED BY <2>1, <2>2
<1>2. CASE PullFails \/ DryRun
  <2>1. ~extract.open
    BY <1>2 DEF IInv, WritesLast, Untouched, PullFails, DryRun, Pulls
  <2> QED BY <1>1, <2>1, EndsWithin
<1>3. CASE StopExtract
  <2>1. excused' \/ ~extract.open
    BY <1>3 DEF StopExtract
  <2> QED BY <1>1, <2>1, EndsWithin
<1>4. CASE WriteManifest
  <2>1. ExtractWithin'
    BY <1>1, NoExtractWithin, ErasType DEF Within, ExtractWithin
  <2>2. extract.next \notin KindNo /\ excused' = excused
    BY <1>4, KindsOfFile DEF IInv, TypedExtract, ExtractType, KindNo, WriteManifest
  <2>3. FilesWithin'
    <3> SUFFICES ASSUME NEW k \in KindNo, NEW i \in 1 .. Len(files[k]) PROVE FileOK(k, i)'
      BY <1>1 DEF FilesWithin
    <3>1. FileOK(k, i)
      BY DEF Within, FilesWithin
    <3> QED BY <1>1, <2>2, <3>1 DEF FileOK
  <2> QED BY <1>1, <2>1, <2>3, RunAlone DEF Within
<1> QED BY <1>2, <1>3, <1>4

LEMMA SkipWithin == ASSUME IInv, Within, NEW k \in DOMAIN Kinds, SkipFile(k) PROVE Within'
<1>1. /\ extract \in ExtractType /\ k \in KindNo /\ extract.at = "writing" /\ ~extract.asked.dry
      /\ extract' = [extract EXCEPT !.next = k + 1] /\ extracts \in Nat
      /\ UNCHANGED <<cc, files, extracts, run>>
  BY WritingFacts DEF SkipFile
<1>2. excused'
  <2>1. extract.pulled[k] # 0 \/ ~extract.asked.with_products
    BY <1>1 DEF IInv, PulledSoFar, KindNo
  <2> QED BY <2>1 DEF SkipFile
<1>3. /\ extract'.asked = extract.asked /\ extract'.pulled = extract.pulled
      /\ extract'.at = extract.at
  BY <1>1 DEF ExtractType
<1>4. ExtractWithin'
  BY <1>1, <1>3 DEF Within, ExtractWithin
<1>5. FilesWithin'
  BY <1>1, <1>2, FilesAlone
<1> QED BY <1>1, <1>4, <1>5, RunAlone DEF Within

LEMMA OpenWithin == ASSUME IInv, Within, NEW k \in DOMAIN Kinds, OpenFile(k) PROVE Within'
<1> DEFINE new == [of |-> extracts, era |-> extract.pulled[k], whole |-> FALSE]
<1>1. /\ extract \in ExtractType /\ k \in KindNo /\ k = extract.next /\ extract.at = "writing"
      /\ files \in [KindNo -> Seq(File)] /\ extracts \in Nat /\ ~extract.open
      /\ Rows(k, extract.pulled[k]) # <<>>
      /\ extract' = [extract EXCEPT !.open = TRUE] /\ UNCHANGED <<cc, extracts, excused>>
      /\ files' = [files EXCEPT ![k] = Append(@, new)] /\ run' = [run EXCEPT !.quiet = FALSE]
  BY WritingFacts DEF OpenFile
<1>2. /\ extract'.asked = extract.asked /\ extract'.pulled = extract.pulled
      /\ extract'.at = extract.at /\ extract'.next = extract.next /\ extract'.open = TRUE
  BY <1>1 DEF ExtractType
<1>3. ExtractWithin'
  BY <1>1, <1>2 DEF Within, ExtractWithin
<1>4. new \in File /\ new.of = extracts /\ new.era = extract.pulled[k] /\ new.whole = FALSE
  BY <1>1 DEF ExtractType, File
<1> HIDE DEF new
<1>5. /\ Len(files[k]) \in Nat /\ Len(files'[k]) = Len(files[k]) + 1
      /\ \A i \in 1 .. Len(files[k]) : files'[k][i] = files[k][i]
      /\ files'[k][Len(files[k]) + 1] = new
      /\ \A j \in KindNo \ {k} : files'[j] = files[j]
  <2>1. files[k] \in Seq(File)
    BY <1>1
  <2>2. files'[k] = Append(files[k], new) /\ \A j \in KindNo \ {k} : files'[j] = files[j]
    BY <1>1
  <2> QED BY <1>4, <2>1, <2>2, AppendProperties
<1>6. extract.pulled[k] \in DOMAIN Eras
  <2>1. extract.pulled[k] # 0
    BY <1>1 DEF Rows
  <2>2. extract.pulled[k] \in Nat /\ extract.pulled[k] <= Len(Eras)
    BY <1>1 DEF ExtractType, Within, ExtractWithin
  <2> QED BY <2>1, <2>2, ErasType
<1>7. extracts > 0
  BY <1>1 DEF Within, ExtractWithin
<1>8. FilesWithin'
  <2> SUFFICES ASSUME NEW j \in KindNo, NEW i \in 1 .. Len(files'[j]) PROVE FileOK(j, i)'
    BY DEF FilesWithin
  <2>1. CASE j # k \/ i \in 1 .. Len(files[k])
    <3>1. i \in 1 .. Len(files[j]) /\ files'[j][i] = files[j][i]
      BY <1>5, <2>1
    <3>2. FileOK(j, i)
      BY <3>1 DEF Within, FilesWithin
    <3> QED BY <1>1, <3>1, <3>2 DEF FileOK
  <2>2. CASE j = k /\ i = Len(files[k]) + 1
    BY <1>1, <1>2, <1>4, <1>5, <1>6, <1>7, <2>2 DEF FileOK
  <2> QED BY <1>5, <2>1, <2>2
<1>9. RunWithin'
  <2>1. run'.script = run.script /\ run'.at = run.at /\ run'.found = run.found
    BY <1>1 DEF IInv, TypedRun, NoRun
  <2>2. \A j \in KindNo : Len(files[j]) \in Nat /\ Len(files'[j]) >= Len(files[j]) /\ run.found[j] \in Nat
    BY <1>1, <1>5 DEF IInv, TypedRun
  <2> QED BY <2>1, <2>2 DEF Within, RunWithin
<1> QED BY <1>3, <1>8, <1>9 DEF Within

LEMMA CloseWithin == ASSUME IInv, Within, NEW k \in DOMAIN Kinds, CloseFile(k) PROVE Within'
<1>1. /\ extract \in ExtractType /\ k \in KindNo /\ k = extract.next /\ extract.at = "writing"
      /\ files \in [KindNo -> Seq(File)] /\ extracts \in Nat /\ extract.open
      /\ extract' = [extract EXCEPT !.open = FALSE, !.next = k + 1]
      /\ UNCHANGED <<cc, extracts, excused>>
      /\ files' = [files EXCEPT ![k][Len(files[k])].whole = TRUE]
      /\ run' = [run EXCEPT !.quiet = FALSE]
  BY WritingFacts DEF CloseFile
<1>2. /\ extract'.asked = extract.asked /\ extract'.pulled = extract.pulled
      /\ extract'.at = extract.at
  BY <1>1 DEF ExtractType
<1>3. ExtractWithin'
  BY <1>1, <1>2 DEF Within, ExtractWithin
<1>4. \A j \in KindNo : /\ Len(files[j]) \in Nat /\ Len(files'[j]) = Len(files[j])
                        /\ \A i \in 1 .. Len(files[j]) :
                             /\ files'[j][i].of = files[j][i].of /\ files'[j][i].era = files[j][i].era
                             /\ ~files'[j][i].whole => ~files[j][i].whole
                             /\ j = k /\ i = Len(files[k]) => files'[j][i].whole
  <2>1. \A j \in KindNo : Len(files[j]) \in Nat
    BY <1>1
  <2> QED BY <2>1, ClosedFile
<1>5. FilesWithin'
  <2> SUFFICES ASSUME NEW j \in KindNo, NEW i \in 1 .. Len(files'[j]) PROVE FileOK(j, i)'
    BY DEF FilesWithin
  <2>1. i \in 1 .. Len(files[j])
    BY <1>4
  <2>2. FileOK(j, i)
    BY <2>1 DEF Within, FilesWithin
  <2>3. /\ files'[j][i].of = files[j][i].of /\ files'[j][i].era = files[j][i].era
        /\ ~files'[j][i].whole => ~files[j][i].whole
        /\ j = k /\ i = Len(files[k]) => files'[j][i].whole
    BY <1>4, <2>1
  <2> QED BY <1>1, <2>2, <2>3 DEF FileOK
<1>6. RunWithin'
  <2>1. run'.script = run.script /\ run'.at = run.at /\ run'.found = run.found
    BY <1>1 DEF IInv, TypedRun, NoRun
  <2> QED BY <1>4, <2>1 DEF Within, RunWithin
<1> QED BY <1>3, <1>5, <1>6 DEF Within

(* The steps of a run.                                                     *)
LEMMA RunStepWithin ==
  ASSUME IInv, Within, UNCHANGED <<cc, extractVars>>, RunWithin'
  PROVE  Within'
<1>1. UNCHANGED <<cc, files, extracts, extract, excused>> /\ extracts \in Nat
  BY DEF extractVars, IInv, TypedExtract
<1>2. ExtractWithin'
  BY <1>1 DEF Within, ExtractWithin
<1>3. FilesWithin'
  BY <1>1, FilesAlone
<1> QED BY <1>2, <1>3 DEF Within

LEMMA RunAtWithin ==
  ASSUME IInv, Within, UNCHANGED <<cc, extractVars>>, NEW how \in Places, NEW next, NEW result,
         \/ run' = [run EXCEPT !.at = how]
         \/ run' = [run EXCEPT !.at = how, !.next = next]
         \/ run' = [run EXCEPT !.at = how, !.published = result]
  PROVE  Within'
<1>1. run'.script = run.script /\ run'.at = how /\ run'.found = run.found
  BY DEF IInv, TypedRun, NoRun
<1>2. RunWithin'
  BY <1>1 DEF Within, RunWithin, extractVars
<1> QED BY <1>2, RunStepWithin

LEMMA RunsWithin ==
  ASSUME IInv, Within,
         StartRun \/ FindLatest \/ ReadParquet \/ LoadSheet \/ Assign \/ Analyze \/ StopRun
  PROVE  Within'
<1>1. UNCHANGED <<cc, extractVars>>
  BY DEF StartRun, FindLatest, ReadParquet, LoadSheet, Assign, Analyze, StopRun
<1>2. CASE StartRun
  <2>1. PICK script \in {"assign", "analyze"} :
          run' = [NoRun EXCEPT !.script = script, !.at = "finding", !.quiet = extract.at # "writing"]
    BY <1>2 DEF StartRun
  <2>2. run'.script = script /\ run'.at = "finding" /\ run'.found = [k \in KindNo |-> 0]
    BY <2>1, KindsOfFile DEF NoRun
  <2>3. \A k \in KindNo : Len(files[k]) \in Nat /\ files' = files
    BY <1>1 DEF IInv, TypedFiles, extractVars
  <2>4. RunWithin'
    BY <2>2, <2>3 DEF RunWithin, Places
  <2> QED BY <1>1, <2>4, RunStepWithin
<1>3. CASE FindLatest
  <2>1. CASE files[run.next] = <<>>
    BY <1>1, <1>3, <2>1, RunAtWithin DEF FindLatest, RunEnds, Places
  <2>2. CASE files[run.next] # <<>>
    <3> DEFINE place == IF run.next = Len(Kinds) THEN "reading" ELSE "finding"
               then == IF run.next = Len(Kinds) THEN 1 ELSE run.next + 1
    <3>1. run' = [run EXCEPT !.found[run.next] = Len(files[run.next]), !.at = place, !.next = then]
      BY <1>3, <2>2 DEF FindLatest, Latest
    <3>2. place \in Places
      BY DEF Places
    <3> HIDE DEF place, then
    <3>3. /\ run'.script = run.script /\ run'.at = place
          /\ run'.found = [run.found EXCEPT ![run.next] = Len(files[run.next])]
      BY <3>1 DEF IInv, TypedRun, NoRun
    <3>4. \A k \in KindNo : Len(files[k]) \in Nat /\ run'.found[k] \in {run.found[k], Len(files[k])}
      BY <3>3 DEF IInv, TypedRun, TypedFiles
    <3>5. RunWithin'
      BY <1>1, <3>2, <3>3, <3>4 DEF Within, RunWithin, extractVars
    <3> QED BY <1>1, <3>5, RunStepWithin
  <2> QED BY <2>1, <2>2
<1>4. CASE ReadParquet
  <2>1. PICK how, next : /\ how \in Places
                         /\ \/ run' = [run EXCEPT !.at = how]
                            \/ run' = [run EXCEPT !.at = how, !.next = next]
    <3>1. CASE ~Found(run.next).whole
      BY <1>4, <3>1 DEF ReadParquet, RunEnds, Places
    <3>2. CASE Found(run.next).whole
      <4> DEFINE place == IF run.next = Len(Kinds) THEN "loading" ELSE "reading"
                 then == IF run.next = Len(Kinds) THEN 1 ELSE run.next + 1
      <4>1. run' = [run EXCEPT !.at = place, !.next = then]
        BY <1>4, <3>2 DEF ReadParquet
      <4>2. place \in Places
        BY DEF Places
      <4> HIDE DEF place, then
      <4> QED BY <4>1, <4>2
    <3> QED BY <3>1, <3>2
  <2> QED BY <1>1, <2>1, RunAtWithin
<1>5. CASE LoadSheet
  <2>1. PICK how \in {"refused", "raised", "computing"} : run' = [run EXCEPT !.at = how]
    BY <1>5 DEF LoadSheet, RunEnds
  <2>2. how \in Places
    BY DEF Places
  <2> QED BY <1>1, <2>1, <2>2, RunAtWithin
<1>6. CASE Assign \/ Analyze
  <2>1. PICK how \in {"raised", "published"} :
          \E result : \/ run' = [run EXCEPT !.at = how]
                      \/ run' = [run EXCEPT !.at = how, !.published = result]
    BY <1>6 DEF Assign, Analyze, RunEnds, Publish
  <2>2. how \in Places
    BY DEF Places
  <2> QED BY <1>1, <2>1, <2>2, RunAtWithin
<1>7. CASE StopRun
  BY <1>1, <1>7, RunAtWithin DEF StopRun, RunEnds, Places
<1> QED BY <1>2, <1>3, <1>4, <1>5, <1>6, <1>7

LEMMA StepWithin == ASSUME IInv, Within, [Next]_vars PROVE Within'
<1>1. CASE Trade
  BY <1>1, TradeWithin
<1>2. CASE Extract
  BY <1>2, StartWithin, PullWithin, FailsWithin, SkipWithin, OpenWithin, CloseWithin DEF Extract
<1>3. CASE StartRun \/ FindLatest \/ ReadParquet \/ LoadSheet \/ Assign \/ Analyze \/ StopRun
  BY <1>3, RunsWithin
<1>4. CASE UNCHANGED vars
  <2>1. UNCHANGED <<cc, extractVars>> /\ RunWithin'
    BY <1>4 DEF vars, extractVars, Within, RunWithin
  <2> QED BY <2>1, RunStepWithin
<1> QED BY <1>1, <1>2, <1>3, <1>4 DEF Next

LEMMA TypeFollows == IInv /\ Within => TypeOK
<1> SUFFICES ASSUME IInv, Within PROVE TypeOK
  OBVIOUS
<1>1. cc \in DOMAIN Eras /\ extracts \in 0 .. MaxExtracts /\ excused \in BOOLEAN
  BY ErasAssumption DEF IInv, TypedExtract, Within, ExtractWithin
<1>2. extract \in [at : Pulls \union {"idle", "writing"}, asked : Options \union {NoOption},
                   pulled : [DOMAIN Kinds -> 0 .. Len(Eras)], next : 1 .. Len(Kinds) + 1, open : BOOLEAN]
  <2>1. extract \in ExtractType
    BY DEF IInv, TypedExtract
  <2>2. extract.pulled \in [KindNo -> 0 .. Len(Eras)]
    BY <2>1, ErasType DEF ExtractType, Within, ExtractWithin
  <2>3. extract.asked \in Options \union {NoOption}
    BY DEF Within, ExtractWithin
  <2> QED BY <2>1, <2>2, <2>3, KindsOfFile DEF ExtractType
<1>3. \A k \in KindNo : files[k] \in Seq(File) /\ DOMAIN files[k] = 1 .. Len(files[k])
  BY DEF IInv, TypedFiles
<1>4. \A k \in KindNo : \A i \in DOMAIN files[k] : FileOK(k, i)
  BY <1>3 DEF Within, FilesWithin
<1>5. /\ run.script \in {"none", "assign", "analyze"}
      /\ Over \/ run.at \in {"none", "finding", "reading", "loading", "computing"}
  BY DEF Within, RunWithin, Places, Over
<1>6. \A k \in KindNo : run.found[k] \in 0 .. Len(files[k])
  BY <1>3 DEF IInv, TypedRun, Within, RunWithin
<1> QED BY <1>1, <1>2, <1>4, <1>5, <1>6, KindsOfFile DEF TypeOK, FileOK

(* Type correctness of extracts and runs: what a run may find are the      *)
(* files there are; each is of an extract that was started, holds rows of  *)
(* its kind from a state CartonCloud was in, and is whole unless an        *)
(* extract is at it or was stopped (scripts/extract.py).                   *)
THEOREM TypeCorrect == Spec => []TypeOK
<1>1. IInv /\ Within /\ [Next]_vars => (IInv /\ Within)'
  BY StepKeeps, StepWithin
<1>2. Init => IInv /\ Within
  BY Initially, InitWithin
<1> QED BY <1>1, <1>2, TypeFollows, PTL DEF Spec
-----------------------------------------------------------------------------
(* A collection of subsets of a finite set has a smallest member.          *)
LEMMA SmallestSet ==
  ASSUME NEW S, IsFiniteSet(S), NEW B \in SUBSET (SUBSET S), B # {}
  PROVE  \E s \in B : \A t \in B : t \subseteq s => t = s
<1>1. IsWellFoundedOn(StrictSubsetOrdering(S), SUBSET S)
  BY FS_StrictSubsetOrderingWellFounded, FS_FiniteSubsetsOfFinite
<1>2. PICK s \in B : \A t \in B : ~(<<t, s>> \in StrictSubsetOrdering(S))
  BY <1>1, WFMin
<1>3. \A t \in B : t \subseteq s => t = s
  BY <1>2 DEF StrictSubsetOrdering
<1> QED BY <1>3

(* A set of numbers has a least one.                                       *)
LEMMA LeastNumber ==
  ASSUME NEW B \in SUBSET Nat, B # {}
  PROVE  \E n \in B : \A m \in B : n <= m
<1> DEFINE R == {r \in Nat \X Nat : r[1] < r[2]}
<1>1. IsWellFoundedOn(R, Nat)
  BY NatLessThanWellFounded DEF OpToRel
<1>2. PICK n \in B : \A m \in B : ~(<<m, n>> \in R)
  <2> HIDE DEF R
  <2> QED BY <1>1, WFMin
<1>3. \A m \in B : ~(m < n)
  BY <1>2
<1> QED BY <1>3

(* Folds.  it is the fold of the subsets of S that takes the elements of a *)
(* set away in the order of choice and combines them by step.              *)
IsFold(it, S, base, choice, step) ==
  /\ DOMAIN it = SUBSET S
  /\ \A s \in SUBSET S :
       it[s] = IF s = {} THEN base ELSE step[<<choice[s], it[s \ {choice[s]}]>>]

Chooses(choice, S) == \A s \in SUBSET S : s # {} => choice[s] \in s

(* Of one set and one choice there is one fold.                            *)
LEMMA FoldUnique ==
  ASSUME NEW S, IsFiniteSet(S), NEW base, NEW choice, Chooses(choice, S), NEW step,
         NEW T, S \subseteq T,
         NEW g, IsFold(g, S, base, choice, step),
         NEW h, IsFold(h, T, base, choice, step)
  PROVE  g[S] = h[S]
<1> DEFINE B == {s \in SUBSET S : g[s] # h[s]}
<1> SUFFICES ASSUME B # {} PROVE FALSE
  OBVIOUS
<1>1. PICK s \in B : \A t \in B : t \subseteq s => t = s
  <2> HIDE DEF B
  <2>1. B \in SUBSET (SUBSET S)
    BY DEF B
  <2> QED BY <2>1, SmallestSet
<1>2. CASE s = {}
  BY <1>2 DEF IsFold
<1>3. CASE s # {}
  <2>1. choice[s] \in s
    BY <1>3 DEF Chooses
  <2>2. s \ {choice[s]} \in SUBSET S /\ s \ {choice[s]} # s /\ s \ {choice[s]} \subseteq s
    BY <2>1
  <2>3. g[s \ {choice[s]}] = h[s \ {choice[s]}]
    BY <1>1, <2>2
  <2> QED BY <1>3, <2>3 DEF IsFold
<1> QED BY <1>2, <1>3

(* And there is one.                                                       *)
LEMMA FoldExists ==
  ASSUME NEW S, IsFiniteSet(S), NEW V, NEW base \in V, NEW choice, Chooses(choice, S),
         NEW step \in [S \X V -> V]
  PROVE  \E it \in [SUBSET S -> V] : IsFold(it, S, base, choice, step)
<1> DEFINE Good(u) == \E it \in [SUBSET u -> V] : IsFold(it, u, base, choice, step)
           B == {u \in SUBSET S : ~Good(u)}
           sol(u) == CHOOSE it \in [SUBSET u -> V] : IsFold(it, u, base, choice, step)
<1> SUFFICES ASSUME B # {} PROVE FALSE
  OBVIOUS
<1>1. PICK u \in B : \A t \in B : t \subseteq u => t = u
  <2> HIDE DEF B
  <2>1. B \in SUBSET (SUBSET S)
    BY DEF B
  <2> QED BY <2>1, SmallestSet
<1>2. \A t \in SUBSET u : t # u => sol(t) \in [SUBSET t -> V] /\ IsFold(sol(t), t, base, choice, step)
  <2> SUFFICES ASSUME NEW t \in SUBSET u, t # u
               PROVE  sol(t) \in [SUBSET t -> V] /\ IsFold(sol(t), t, base, choice, step)
    OBVIOUS
  <2>1. Good(t)
    BY <1>1
  <2> QED BY <2>1
<1> HIDE DEF sol
<1> DEFINE last(s) == s \ {choice[s]}
           it == [s \in SUBSET u |-> IF s = {} THEN base ELSE step[<<choice[s], sol(last(s))[last(s)]>>]]
<1>3. \A s \in SUBSET u : s # {} => choice[s] \in s /\ last(s) \in SUBSET u /\ last(s) # u /\ last(s) # s
  BY DEF Chooses
<1>4. it \in [SUBSET u -> V]
  <2> SUFFICES ASSUME NEW s \in SUBSET u, s # {} PROVE step[<<choice[s], sol(last(s))[last(s)]>>] \in V
    OBVIOUS
  <2>1. sol(last(s))[last(s)] \in V
    <3> DEFINE t == last(s)
    <3>1. sol(t) \in [SUBSET t -> V]
      BY <1>2, <1>3
    <3>2. t \in SUBSET t
      OBVIOUS
    <3> HIDE DEF t
    <3>3. sol(t)[t] \in V
      BY <3>1, <3>2
    <3> QED BY <3>3 DEF t
  <2>2. choice[s] \in S
    BY <1>3
  <2> QED BY <2>1, <2>2
<1>5. \A s \in SUBSET u : s # {} => it[last(s)] = sol(last(s))[last(s)]
  <2> SUFFICES ASSUME NEW s \in SUBSET u, s # {} PROVE it[last(s)] = sol(last(s))[last(s)]
    OBVIOUS
  <2> DEFINE t == last(s)
  <2>1. t \in SUBSET u /\ t # u
    BY <1>3
  <2>2. IsFold(sol(t), t, base, choice, step)
    BY <1>2, <2>1
  <2>3. CASE t = {}
    BY <2>2, <2>3 DEF IsFold
  <2>4. CASE t # {}
    <3>1. last(t) \in SUBSET t /\ last(t) \in SUBSET u /\ last(t) # u /\ choice[t] \in t
      BY <1>3, <2>1, <2>4
    <3>2. IsFold(sol(last(t)), last(t), base, choice, step)
      BY <1>2, <3>1
    <3>3. IsFiniteSet(last(t)) /\ Chooses(choice, last(t))
      BY <3>1, FS_Subset DEF Chooses
    <3>4. sol(last(t))[last(t)] = sol(t)[last(t)]
      <4> DEFINE r == last(t)
                 g == sol(r)
                 h == sol(t)
      <4>1. IsFold(h, t, base, choice, step)
        BY <2>2
      <4>3. IsFold(g, r, base, choice, step) /\ IsFiniteSet(r) /\ Chooses(choice, r) /\ r \subseteq t
        BY <3>1, <3>2, <3>3
      <4> HIDE DEF r, g, h, t
      <4>5. g[r] = h[r]
        <5>1. r \subseteq t
          BY <4>3
        <5>2. /\ IsFiniteSet(r) /\ Chooses(choice, r)
              /\ IsFold(g, r, base, choice, step) /\ IsFold(h, t, base, choice, step)
          BY <4>1, <4>3
        <5> HIDE DEF it, last, B, Good
        <5> QED BY ONLY <5>1, <5>2, FoldUnique
      <4> QED BY <4>5 DEF r, g, h
    <3>5. it[t] = step[<<choice[t], sol(last(t))[last(t)]>>]
      BY <2>1, <2>4
    <3>6. sol(t)[t] = step[<<choice[t], sol(t)[last(t)]>>]
      BY <2>2, <2>4 DEF IsFold
    <3> QED BY <3>4, <3>5, <3>6
  <2> QED BY <2>3, <2>4
<1>6. IsFold(it, u, base, choice, step)
  BY <1>5 DEF IsFold
<1>7. Good(u)
  BY <1>4, <1>6
<1> QED BY <1>7
(* Sums over a finite set.                                                 *)
Addends(f, S, V) == IsFiniteSet(S) /\ V \in {Nat, Int} /\ \A x \in S : f[x] \in V

Chosen(S) == [s \in SUBSET S |-> CHOOSE x \in s : TRUE]
Plus(f, S, V) == [p \in S \X V |-> f[p[1]] + p[2]]

(* it adds up the subsets of T, a subset of S.                             *)
Folded(it, f, T, S, V) ==
  /\ it \in [SUBSET T -> V]
  /\ IsFold(it, T, 0, Chosen(S), Plus(f, S, V))
  /\ SumFunctionOnSet(f, T) = it[T]

(* The sum over a set is a fold of it, whichever element it takes first.   *)
LEMMA SumIsFold ==
  ASSUME NEW S, NEW V, NEW f, Addends(f, S, V), NEW T \in SUBSET S
  PROVE  \E it : Folded(it, f, T, S, V)
<1> DEFINE choice == Chosen(S)
           plus == Plus(f, S, V)
<1> USE DEF Chosen, Plus
<1> DEFINE body(it) ==
             [s \in SUBSET T |->
               IF s = {} THEN 0
               ELSE f[CHOOSE x \in s : TRUE] + it[s \ {CHOOSE x \in s : TRUE}]]
           iter == CHOOSE it : it = body(it)
<1>0. V \subseteq Int /\ 0 \in V /\ \A x \in S, v \in V : f[x] + v \in V
  BY DEF Addends
<1>1. Chooses(choice, S) /\ Chooses(choice, T) /\ IsFiniteSet(T)
  BY FS_Subset DEF Chooses, Addends
<1>2. plus \in [S \X V -> V] /\ \A a \in S, v \in V : plus[<<a, v>>] = f[a] + v
  BY <1>0
<1>3. PICK it \in [SUBSET S -> V] : IsFold(it, S, 0, choice, plus)
  <2>1. IsFiniteSet(S)
    BY DEF Addends
  <2> QED BY <1>0, <1>1, <1>2, <2>1, FoldExists
<1>4. \A h \in [SUBSET T -> V] : h = body(h) <=> IsFold(h, T, 0, choice, plus)
  <2> SUFFICES ASSUME NEW h \in [SUBSET T -> V]
               PROVE  h = body(h) <=> IsFold(h, T, 0, choice, plus)
    OBVIOUS
  <2>1. \A s \in SUBSET T : s # {} =>
          plus[<<choice[s], h[s \ {choice[s]}]>>] = f[CHOOSE x \in s : TRUE] + h[s \ {CHOOSE x \in s : TRUE}]
    <3> SUFFICES ASSUME NEW s \in SUBSET T, s # {}
                 PROVE  plus[<<choice[s], h[s \ {choice[s]}]>>]
                          = f[CHOOSE x \in s : TRUE] + h[s \ {CHOOSE x \in s : TRUE}]
      OBVIOUS
    <3>1. choice[s] = CHOOSE x \in s : TRUE
      OBVIOUS
    <3>2. choice[s] \in S /\ h[s \ {choice[s]}] \in V
      BY <1>1 DEF Chooses
    <3>3. plus[<<choice[s], h[s \ {choice[s]}]>>] = f[choice[s]] + h[s \ {choice[s]}]
      BY <1>2, <3>2
    <3> QED BY <3>1, <3>3
  <2>2. h = body(h) <=> \A s \in SUBSET T :
          h[s] = IF s = {} THEN 0 ELSE f[CHOOSE x \in s : TRUE] + h[s \ {CHOOSE x \in s : TRUE}]
    OBVIOUS
  <2>3. DOMAIN h = SUBSET T
    OBVIOUS
  <2> HIDE DEF body
  <2> QED BY <2>1, <2>2, <2>3 DEF IsFold
<1>7. SumFunctionOnSet(f, T) = iter[T]
  BY DEF SumFunctionOnSet, FoldFunctionOnSet, MapThenFoldSet
<1>8. PICK h \in [SUBSET T -> V] : h = body(h)
  <2> DEFINE h == [s \in SUBSET T |-> it[s]]
  <2>1. h \in [SUBSET T -> V]
    OBVIOUS
  <2>2. IsFold(h, T, 0, choice, plus)
    BY <1>3 DEF IsFold
  <2> HIDE DEF h, body
  <2> QED BY <1>4, <2>1, <2>2
<1>6. iter = body(iter)
  <2> HIDE DEF body
  <2> QED BY <1>8
<1>9. iter = h
  <2> DEFINE B == {s \in SUBSET T : iter[s] # h[s]}
  <2>1. B = {}
    <3> SUFFICES ASSUME B # {} PROVE FALSE
      OBVIOUS
    <3>1. B \in SUBSET (SUBSET T)
      OBVIOUS
    <3>2. PICK s \in B : \A t \in B : t \subseteq s => t = s
      <4> HIDE DEF B
      <4> QED BY <1>1, <3>1, SmallestSet
    <3>3. CASE s = {}
      BY <1>6, <1>8, <3>3
    <3>4. CASE s # {}
      <4> DEFINE c == CHOOSE x \in s : TRUE
      <4>1. c \in s
        BY <3>4
      <4>2. iter[s] = f[c] + iter[s \ {c}]
        BY <1>6, <3>4
      <4>3. h[s] = f[c] + h[s \ {c}]
        BY <1>8, <3>4
      <4> HIDE DEF c, body, iter
      <4>4. iter[s \ {c}] = h[s \ {c}]
        BY <3>2, <4>1
      <4> QED BY <4>2, <4>3, <4>4
    <3> QED BY <3>3, <3>4
  <2>2. DOMAIN iter = SUBSET T /\ DOMAIN h = SUBSET T /\ iter = [s \in SUBSET T |-> iter[s]]
    BY <1>6
  <2> HIDE DEF iter, body
  <2> QED BY <1>8, <2>1, <2>2
<1>10. IsFold(iter, T, 0, choice, plus) /\ iter \in [SUBSET T -> V]
  <2> HIDE DEF iter, body
  <2> QED BY <1>4, <1>8, <1>9
<1> HIDE DEF iter
<1> QED BY <1>7, <1>10 DEF Folded

(* Induction on the subsets of a finite set, G those it is proved for.     *)
LEMMA SetInduction ==
  ASSUME NEW S, IsFiniteSet(S), NEW G \in SUBSET (SUBSET S), {} \in G,
         \A T \in SUBSET S : T # {} /\ (\A x \in T : T \ {x} \in G) => T \in G
  PROVE  G = SUBSET S
<1> DEFINE B == (SUBSET S) \ G
<1> SUFFICES ASSUME B # {} PROVE FALSE
  OBVIOUS
<1>1. PICK s \in B : \A t \in B : t \subseteq s => t = s
  <2>1. B \in SUBSET (SUBSET S)
    OBVIOUS
  <2> HIDE DEF B
  <2> QED BY <2>1, SmallestSet
<1>2. \A x \in s : s \ {x} \in G
  BY <1>1
<1> QED BY <1>2

LEMMA SumType ==
  ASSUME NEW S, NEW V, NEW f, Addends(f, S, V), NEW T \in SUBSET S
  PROVE  SumFunctionOnSet(f, T) \in V
<1>1. PICK it : Folded(it, f, T, S, V)
  BY SumIsFold
<1> QED BY <1>1 DEF Folded

LEMMA SumEmpty ==
  ASSUME NEW f
  PROVE  SumFunctionOnSet(f, {}) = 0
<1>1. Addends(f, {}, Nat)
  BY FS_EmptySet DEF Addends
<1>2. PICK it : Folded(it, f, {}, {}, Nat)
  BY <1>1, SumIsFold
<1> QED BY <1>2 DEF Folded, IsFold

(* The sum less the element that was chosen first.                         *)
LEMMA SumChoose ==
  ASSUME NEW S, NEW V, NEW f, Addends(f, S, V), NEW T \in SUBSET S, T # {}
  PROVE  \E x \in T : SumFunctionOnSet(f, T) = f[x] + SumFunctionOnSet(f, T \ {x})
<1> DEFINE choice == Chosen(S)
           plus == Plus(f, S, V)
           x == choice[T]
           U == T \ {x}
<1>1. x \in T /\ Chooses(choice, U) /\ \A a \in S, v \in V : plus[<<a, v>>] = f[a] + v
  BY DEF Chooses, Chosen, Plus, Addends
<1>2. IsFiniteSet(U) /\ U \in SUBSET S /\ U \subseteq T
  BY FS_Subset DEF Addends
<1> HIDE DEF choice, plus, U, x
<1>a. PICK it : Folded(it, f, T, S, V)
  BY SumIsFold
<1>b. PICK jt : Folded(jt, f, U, S, V)
  BY <1>2, SumIsFold
<1>3. it \in [SUBSET T -> V] /\ IsFold(it, T, 0, choice, plus) /\ SumFunctionOnSet(f, T) = it[T]
  BY <1>a DEF choice, plus, Folded
<1>4. IsFold(jt, U, 0, choice, plus) /\ SumFunctionOnSet(f, U) = jt[U]
  BY <1>b DEF choice, plus, Folded
<1>5. jt[U] = it[U]
  BY ONLY <1>1, <1>2, <1>3, <1>4, FoldUnique
<1>6. it[T] = plus[<<x, it[U]>>]
  BY <1>3 DEF IsFold, x, U
<1>7. it[U] \in V
  BY <1>2, <1>3
<1>8. it[T] = f[x] + it[U]
  BY <1>1, <1>6, <1>7
<1> QED BY <1>1, <1>3, <1>4, <1>5, <1>8 DEF U

(* Any element may be taken first.                                         *)
LEMMA SumPick ==
  ASSUME NEW S, NEW V, NEW f, Addends(f, S, V), NEW x \in S
  PROVE  SumFunctionOnSet(f, S) = f[x] + SumFunctionOnSet(f, S \ {x})
<1> DEFINE sum(T) == SumFunctionOnSet(f, T)
           G == {T \in SUBSET S : \A y \in T : sum(T) = f[y] + sum(T \ {y})}
<1>0. IsFiniteSet(S) /\ V \subseteq Int /\ \A y \in S : f[y] \in V
  BY DEF Addends
<1>1. \A T \in SUBSET S : T # {} /\ (\A y \in T : T \ {y} \in G) => T \in G
  <2> SUFFICES ASSUME NEW T \in SUBSET S, T # {}, \A y \in T : T \ {y} \in G, NEW y \in T
               PROVE  sum(T) = f[y] + sum(T \ {y})
    OBVIOUS
  <2> HIDE DEF sum
  <2>1. PICK c \in T : sum(T) = f[c] + sum(T \ {c})
    BY SumChoose DEF sum
  <2>2. CASE c = y
    BY <2>1, <2>2
  <2>3. CASE c # y
    <3> DEFINE U == (T \ {c}) \ {y}
    <3>1. U = (T \ {y}) \ {c} /\ y \in T \ {c} /\ c \in T \ {y}
      BY <2>3
    <3>2. sum(T \ {c}) = f[y] + sum(U)
      BY <3>1
    <3>3. sum(T \ {y}) = f[c] + sum(U)
      BY <3>1
    <3>4. sum(U) \in V
      BY SumType DEF sum
    <3>5. f[c] \in Int /\ f[y] \in Int /\ sum(U) \in Int
      BY <1>0, <3>4
    <3> HIDE DEF U, G
    <3> QED BY <2>1, <3>2, <3>3, <3>5
  <2> QED BY <2>2, <2>3
<1>2. G = SUBSET S
  <2>1. G \in SUBSET (SUBSET S) /\ {} \in G
    OBVIOUS
  <2> HIDE DEF G
  <2> QED BY <1>0, <1>1, <2>1, SetInduction
<1> QED BY <1>2

LEMMA SumSingleton ==
  ASSUME NEW x, NEW f, f[x] \in Int
  PROVE  SumFunctionOnSet(f, {x}) = f[x]
<1>1. Addends(f, {x}, Int) /\ {x} \ {x} = {}
  BY FS_Singleton DEF Addends
<1>2. SumFunctionOnSet(f, {x}) = f[x] + SumFunctionOnSet(f, {})
  BY <1>1, SumPick
<1> QED BY <1>2, SumEmpty

LEMMA AddendsOfSubset ==
  ASSUME NEW S, NEW V, NEW f, Addends(f, S, V), NEW T \in SUBSET S
  PROVE  Addends(f, T, V)
  BY FS_Subset DEF Addends

LEMMA AddendsInt ==
  ASSUME NEW S, NEW V, NEW f, Addends(f, S, V)
  PROVE  Addends(f, S, Int) /\ SumFunctionOnSet(f, S) \in Int
<1>1. Addends(f, S, Int)
  BY DEF Addends
<1> QED BY <1>1, SumType

(* Sums of multiples, of equals, of zeros.                                 *)
LEMMA SumScale ==
  ASSUME NEW S, NEW f, Addends(f, S, Int), NEW n \in Int,
         NEW h, \A x \in S : h[x] = n * f[x]
  PROVE  SumFunctionOnSet(h, S) = n * SumFunctionOnSet(f, S)
<1> DEFINE sum(e, T) == SumFunctionOnSet(e, T)
           G == {T \in SUBSET S : sum(h, T) = n * sum(f, T)}
<1>0. IsFiniteSet(S) /\ \A x \in S : f[x] \in Int /\ h[x] \in Int
  BY DEF Addends
<1>1. \A T \in SUBSET S : T # {} /\ (\A y \in T : T \ {y} \in G) => T \in G
  <2> SUFFICES ASSUME NEW T \in SUBSET S, NEW x \in T, T \ {x} \in G
               PROVE  sum(h, T) = n * sum(f, T)
    OBVIOUS
  <2> HIDE DEF sum
  <2> DEFINE U == T \ {x}
  <2>1. Addends(f, T, Int) /\ Addends(h, T, Int)
    BY <1>0, FS_Subset DEF Addends
  <2>2. sum(f, T) = f[x] + sum(f, U) /\ sum(h, T) = h[x] + sum(h, U)
    BY <2>1, SumPick DEF sum
  <2>3. sum(f, U) \in Int
    BY <2>1, SumType DEF sum
  <2>4. sum(h, U) = n * sum(f, U) /\ h[x] = n * f[x] /\ f[x] \in Int
    BY <1>0
  <2> HIDE DEF U
  <2>5. n * (f[x] + sum(f, U)) = n * f[x] + n * sum(f, U)
    BY <2>3, <2>4
  <2> QED BY <2>2, <2>4, <2>5
<1>2. G = SUBSET S
  <2>1. G \in SUBSET (SUBSET S)
    OBVIOUS
  <2>2. {} \in G
    BY SumEmpty
  <2> HIDE DEF G
  <2> QED BY <1>0, <1>1, <2>1, <2>2, SetInduction
<1> QED BY <1>2

LEMMA SumEqual ==
  ASSUME NEW S, NEW f, Addends(f, S, Int), NEW h, \A x \in S : h[x] = f[x]
  PROVE  SumFunctionOnSet(h, S) = SumFunctionOnSet(f, S)
<1>1. \A x \in S : h[x] = 1 * f[x]
  BY DEF Addends
<1>2. SumFunctionOnSet(h, S) = 1 * SumFunctionOnSet(f, S)
  BY <1>1, SumScale
<1> QED BY <1>2, SumType

LEMMA SumZero ==
  ASSUME NEW S, IsFiniteSet(S), NEW f, \A x \in S : f[x] = 0
  PROVE  SumFunctionOnSet(f, S) = 0
<1>1. Addends(f, S, Int) /\ \A x \in S : f[x] = 0 * f[x]
  BY DEF Addends
<1>2. SumFunctionOnSet(f, S) = 0 * SumFunctionOnSet(f, S)
  BY <1>1, SumScale
<1> QED BY <1>1, <1>2, SumType

(* A sum is the sum of the sums of the parts that key parts S into.        *)
Parts(f, S, key, K) == [y \in K |-> SumFunctionOnSet(f, {x \in S : key[x] = y})]

(* A sum over a set is the sum over its parts by key.                      *)
LEMMA SumOfParts ==
  ASSUME NEW S, NEW f, Addends(f, S, Int), NEW K, IsFiniteSet(K),
         NEW key, \A x \in S : key[x] \in K
  PROVE  /\ SumFunctionOnSet(f, S) = SumFunctionOnSet(Parts(f, S, key, K), K)
         /\ Addends(Parts(f, S, key, K), K, Int)
<1> DEFINE sum(e, T) == SumFunctionOnSet(e, T)
           part(T, y) == {x \in T : key[x] = y}
           parts(T) == Parts(f, T, key, K)
           G == {T \in SUBSET S : sum(f, T) = sum(parts(T), K)}
<1>0. IsFiniteSet(S) /\ \A x \in S : f[x] \in Int
  BY DEF Addends
<1>4. \A T \in SUBSET S : Addends(parts(T), K, Int)
  <2> SUFFICES ASSUME NEW T \in SUBSET S, NEW y \in K PROVE sum(f, part(T, y)) \in Int
    BY DEF Addends, Parts
  <2> QED BY SumType
<1>1. \A T \in SUBSET S : T # {} /\ (\A y \in T : T \ {y} \in G) => T \in G
  <2> SUFFICES ASSUME NEW T \in SUBSET S, NEW x \in T, T \ {x} \in G
               PROVE  sum(f, T) = sum(parts(T), K)
    OBVIOUS
  <2> DEFINE U == T \ {x}
             k == key[x]
             J == K \ {k}
  <2>0. k \in K /\ U \in SUBSET S /\ J \in SUBSET K /\ Addends(f, T, Int)
    BY AddendsOfSubset
  <2>1. sum(f, T) = f[x] + sum(f, U)
    BY <2>0, SumPick
  <2>2. sum(parts(T), K) = parts(T)[k] + sum(parts(T), J)
    BY <1>4, <2>0, SumPick
  <2>3. sum(parts(U), K) = parts(U)[k] + sum(parts(U), J)
    BY <1>4, <2>0, SumPick
  <2>4. sum(parts(T), J) = sum(parts(U), J)
    <3>1. \A y \in J : part(T, y) = part(U, y)
      OBVIOUS
    <3>2. \A y \in J : parts(T)[y] = parts(U)[y]
      BY <3>1 DEF Parts
    <3>3. Addends(parts(U), J, Int)
      BY <1>4, <2>0, AddendsOfSubset
    <3> HIDE DEF parts, J
    <3> QED BY <3>2, <3>3, SumEqual
  <2>5. parts(T)[k] = f[x] + parts(U)[k]
    <3>1. x \in part(T, k) /\ part(T, k) \ {x} = part(U, k)
      OBVIOUS
    <3>2. Addends(f, part(T, k), Int)
      BY <1>0, FS_Subset DEF Addends
    <3>3. sum(f, part(T, k)) = f[x] + sum(f, part(U, k))
      <4> DEFINE P == part(T, k)
                 Q == part(U, k)
      <4>1. x \in P /\ P \ {x} = Q /\ Addends(f, P, Int)
        BY <3>1, <3>2
      <4> HIDE DEF P, Q
      <4>2. SumFunctionOnSet(f, P) = f[x] + SumFunctionOnSet(f, P \ {x})
        BY ONLY <4>1, SumPick
      <4> QED BY <4>1, <4>2 DEF P, Q
    <3>4. parts(T)[k] = sum(f, part(T, k)) /\ parts(U)[k] = sum(f, part(U, k))
      BY <2>0 DEF Parts
    <3> QED BY <3>3, <3>4
  <2>6. sum(f, U) = sum(parts(U), K)
    OBVIOUS
  <2>7. parts(U)[k] \in Int /\ sum(parts(U), J) \in Int /\ f[x] \in Int
    <3>1. Addends(parts(U), K, Int)
      BY <1>4, <2>0
    <3> QED BY <1>0, <2>0, <3>1, SumType DEF Addends
  <2> HIDE DEF U, k, J, parts, sum
  <2> QED BY <2>1, <2>2, <2>3, <2>4, <2>5, <2>6, <2>7
<1>2. G = SUBSET S
  <2>1. G \in SUBSET (SUBSET S)
    OBVIOUS
  <2>2. {} \in G
    <3>1. \A y \in K : part({}, y) = {}
      OBVIOUS
    <3>2. \A y \in K : parts({})[y] = 0
      BY <3>1, SumEmpty DEF Parts
    <3>3. sum(parts({}), K) = 0
      <4> HIDE DEF parts
      <4> QED BY <3>2, SumZero
    <3> QED BY <3>3, SumEmpty
  <2> HIDE DEF G
  <2> QED BY <1>0, <1>1, <2>1, <2>2, SetInduction
<1>3. sum(f, S) = sum(parts(S), K)
  BY <1>2
<1> QED BY <1>3, <1>4

(* Counting along a bijection.                                             *)
LEMMA SumAlong ==
  ASSUME NEW A, IsFiniteSet(A), NEW S, NEW b \in [A -> S], IsFiniteSet(S),
         \A x, y \in A : b[x] = b[y] => x = y, \A s \in S : \E x \in A : b[x] = s,
         NEW f, Addends(f, S, Int), NEW h, \A x \in A : h[x] = f[b[x]]
  PROVE  SumFunctionOnSet(h, A) = SumFunctionOnSet(f, S)
<1>1. Addends(h, A, Int)
  BY DEF Addends
<1>2. SumFunctionOnSet(h, A) = SumFunctionOnSet(Parts(h, A, b, S), S)
  BY <1>1, SumOfParts
<1>3. \A s \in S : Parts(h, A, b, S)[s] = f[s]
  <2> SUFFICES ASSUME NEW s \in S PROVE SumFunctionOnSet(h, {x \in A : b[x] = s}) = f[s]
    BY DEF Parts
  <2>1. PICK x \in A : b[x] = s
    OBVIOUS
  <2>2. {z \in A : b[z] = s} = {x}
    BY <2>1
  <2>3. h[x] = f[s] /\ h[x] \in Int
    BY <2>1 DEF Addends
  <2> QED BY <2>2, <2>3, SumSingleton
<1> QED BY <1>2, <1>3, SumEqual

(* Finite sets of integers have a largest and a smallest member.           *)
----------------------------------------------------------------------------
(***************************************************************************)
(* Finite sets, and sequences made of them.                                *)
(***************************************************************************)
LEMMA MaxInSet ==
  ASSUME NEW S \in SUBSET Int, IsFiniteSet(S), S # {}
  PROVE  Max(S) \in S /\ \A y \in S : Max(S) >= y
<1> DEFINE G == {T \in SUBSET S : T # {} => \E x \in T : \A y \in T : x >= y}
<1>1. \A T \in SUBSET S : T # {} /\ (\A x \in T : T \ {x} \in G) => T \in G
  <2> SUFFICES ASSUME NEW T \in SUBSET S, NEW x \in T, T \ {x} \in G
               PROVE  \E m \in T : \A y \in T : m >= y
    OBVIOUS
  <2>1. CASE T = {x}
    BY <2>1
  <2>2. CASE T # {x}
    <3>1. PICK m \in T \ {x} : \A y \in T \ {x} : m >= y
      BY <2>2
    <3>2. m \in Int /\ x \in Int /\ \A y \in T : y \in Int
      OBVIOUS
    <3>3. CASE m >= x
      BY <3>1, <3>2, <3>3
    <3>4. CASE x > m
      <4>1. \A y \in T : x >= y
        BY <3>1, <3>2, <3>4
      <4> QED BY <4>1
    <3> QED BY <3>2, <3>3, <3>4
  <2> QED BY <2>1, <2>2
<1>2. G = SUBSET S
  <2>1. G \in SUBSET (SUBSET S) /\ {} \in G
    OBVIOUS
  <2> HIDE DEF G
  <2> QED BY <1>1, <2>1, SetInduction
<1>3. \E x \in S : \A y \in S : x >= y
  BY <1>2
<1> QED BY <1>3 DEF Max

(* The values of a finite function are finitely many.                      *)
LEMMA FiniteImage ==
  ASSUME NEW S, IsFiniteSet(S), NEW f
  PROVE  IsFiniteSet({f[x] : x \in S})
<1> DEFINE T == {f[x] : x \in S}
           g == [x \in S |-> f[x]]
<1>1. g \in Surjection(S, T)
  BY DEF Surjection
<1> HIDE DEF g, T
<1>2. IsFiniteSet(T)
  BY <1>1, FS_Surjection
<1> QED BY <1>2 DEF T

(* Joining sequences.                                                      *)
LEMMA FlattenTrail ==
  ASSUME NEW S, NEW ss \in Seq(Seq(S))
  PROVE  \E f \in [1 .. Len(ss) -> Seq(S)] :
           /\ \A i \in 1 .. Len(ss) : f[i] = IF i = 1 THEN ss[i] ELSE f[i - 1] \o ss[i]
           /\ FlattenSeq(ss) = IF ss = <<>> THEN <<>> ELSE f[Len(ss)]
<1> DEFINE n == Len(ss)
           body(f) == [i \in 1 .. n |-> IF i = 1 THEN ss[i] ELSE f[i - 1] \o ss[i]]
           flatten == CHOOSE f : f = body(f)
<1>0. n \in Nat /\ \A i \in 1 .. n : ss[i] \in Seq(S)
  OBVIOUS
<1>1. CASE n = 0
  <2>1. ss = <<>> /\ FlattenSeq(ss) = <<>>
    BY <1>1 DEF FlattenSeq
  <2> DEFINE f == [i \in 1 .. n |-> <<>>]
  <2>2. 1 .. n = {}
    BY <1>1
  <2>3. f \in [1 .. Len(ss) -> Seq(S)]
    BY <2>2
  <2> HIDE DEF f
  <2>4. \A i \in 1 .. Len(ss) : f[i] = IF i = 1 THEN ss[i] ELSE f[i - 1] \o ss[i]
    BY <2>2
  <2>5. FlattenSeq(ss) = IF ss = <<>> THEN <<>> ELSE f[Len(ss)]
    BY <2>1
  <2> QED BY <2>3, <2>4, <2>5
<1>2. CASE n # 0
  <2> DEFINE Good(k) == \E f \in [1 .. k -> Seq(S)] :
                          \A i \in 1 .. k : f[i] = IF i = 1 THEN ss[i] ELSE f[i - 1] \o ss[i]
             B == {k \in 1 .. n : ~Good(k)}
  <2>1. Good(n)
    <3> HIDE DEF Good
    <3> SUFFICES ASSUME B # {} PROVE FALSE
      <4>1. n \in 1 .. n
        BY <1>0, <1>2
      <4> QED BY <4>1
    <3>1. PICK k \in B : \A m \in B : k <= m
      <4>1. B \in SUBSET Nat
        BY <1>0
      <4> HIDE DEF B
      <4> QED BY <4>1, LeastNumber
    <3>2. CASE k = 1
      <4> DEFINE f == [i \in 1 .. 1 |-> ss[1]]
      <4>1. f \in [1 .. k -> Seq(S)] /\ \A i \in 1 .. k : f[i] = ss[i] /\ i = 1
        BY <1>0, <3>2
      <4>2. Good(k)
        BY <4>1 DEF Good
      <4> QED BY <3>1, <4>2
    <3>3. CASE k # 1
      <4>1. k - 1 \in 1 .. n /\ k \in 1 .. n
        BY <3>1, <3>3
      <4>2. Good(k - 1)
        <5>1. k - 1 \notin B
          <6> HIDE DEF B
          <6> QED BY <3>1, <4>1
        <5> QED BY <4>1, <5>1
      <4>3. PICK f \in [1 .. (k - 1) -> Seq(S)] :
              \A i \in 1 .. (k - 1) : f[i] = IF i = 1 THEN ss[i] ELSE f[i - 1] \o ss[i]
        BY <4>2 DEF Good
      <4> DEFINE h == [i \in 1 .. k |-> IF i = k THEN f[k - 1] \o ss[k] ELSE f[i]]
      <4>4. f[k - 1] \o ss[k] \in Seq(S)
        BY <1>0, <4>1, <4>3, ConcatProperties
      <4>5. h \in [1 .. k -> Seq(S)]
        BY <4>1, <4>4
      <4>6. \A i \in 1 .. k : h[i] = IF i = 1 THEN ss[i] ELSE h[i - 1] \o ss[i]
        <5> SUFFICES ASSUME NEW i \in 1 .. k
                     PROVE  h[i] = IF i = 1 THEN ss[i] ELSE h[i - 1] \o ss[i]
          OBVIOUS
        <5>1. CASE i = k
          <6>1. k - 1 \in 1 .. k /\ k \in 1 .. k /\ k - 1 # k
            BY <4>1
          <6>2. h[k - 1] = f[k - 1] /\ h[k] = f[k - 1] \o ss[k]
            BY <6>1
          <6> HIDE DEF h
          <6> QED BY <3>3, <5>1, <6>2
        <5>2. CASE i # k
          <6>1. i \in 1 .. (k - 1) /\ (i # 1 => i - 1 \in 1 .. k /\ i - 1 # k)
            BY <4>1, <5>2
          <6>2. h[i] = f[i] /\ (i # 1 => h[i - 1] = f[i - 1])
            BY <5>2, <6>1
          <6>3. f[i] = IF i = 1 THEN ss[i] ELSE f[i - 1] \o ss[i]
            BY <4>3, <6>1
          <6> HIDE DEF h
          <6> QED BY <6>2, <6>3
        <5> QED BY <5>1, <5>2
      <4> HIDE DEF h
      <4>7. Good(k)
        BY <4>5, <4>6 DEF Good
      <4> QED BY <3>1, <4>7
    <3> QED BY <3>2, <3>3
  <2>2. PICK f \in [1 .. n -> Seq(S)] :
          \A i \in 1 .. n : f[i] = IF i = 1 THEN ss[i] ELSE f[i - 1] \o ss[i]
    BY <2>1 DEF Good
  <2>3. f = body(f)
    BY <2>2
  <2>4. flatten = body(flatten)
    <3> HIDE DEF body
    <3> QED BY <2>3
  <2>5. \A i \in 1 .. n : flatten[i] \in Seq(S)
    <3> HIDE DEF flatten
    <3> DEFINE C == {i \in 1 .. n : flatten[i] \notin Seq(S)}
    <3> SUFFICES ASSUME C # {} PROVE FALSE
      OBVIOUS
    <3>1. PICK k \in C : \A m \in C : k <= m
      <4>1. C \in SUBSET Nat
        BY <1>0
      <4> HIDE DEF C
      <4> QED BY <4>1, LeastNumber
    <3>2. flatten[k] = IF k = 1 THEN ss[k] ELSE flatten[k - 1] \o ss[k]
      BY <2>4
    <3>3. CASE k = 1
      BY <1>0, <3>2, <3>3
    <3>4. CASE k # 1
      <4>1. k - 1 \in 1 .. n /\ k - 1 \notin C
        BY <1>0, <3>1, <3>4
      <4>2. flatten[k - 1] \o ss[k] \in Seq(S)
        BY <1>0, <4>1, ConcatProperties
      <4> QED BY <3>2, <3>4, <4>2
    <3> QED BY <3>3, <3>4
  <2>6. FlattenSeq(ss) = flatten[n] /\ ss # <<>>
    BY <1>2 DEF FlattenSeq
  <2>7. flatten \in [1 .. n -> Seq(S)]
    <3>1. flatten = [i \in 1 .. n |-> flatten[i]]
      BY <2>4
    <3> HIDE DEF flatten
    <3> QED BY <2>5, <3>1
  <2>8. \A i \in 1 .. n : flatten[i] = IF i = 1 THEN ss[i] ELSE flatten[i - 1] \o ss[i]
    BY <2>4
  <2> HIDE DEF flatten, body
  <2> QED BY <2>6, <2>7, <2>8
<1> QED BY <1>1, <1>2

(* t has, in order, the members of the first n sequences of ss: its i-th   *)
(* is the one at place q[i] of the sequence number o[i].                   *)
Flat(t, ss, n, o, q) ==
  /\ \A i \in DOMAIN t : o[i] \in 1 .. n /\ q[i] \in DOMAIN ss[o[i]] /\ t[i] = ss[o[i]][q[i]]
  /\ \A k \in 1 .. n : \A j \in DOMAIN ss[k] : \E i \in DOMAIN t : o[i] = k /\ q[i] = j
  /\ \A i, j \in DOMAIN t : i < j => o[i] < o[j] \/ (o[i] = o[j] /\ q[i] < q[j])

LEMMA FlatMore ==
  ASSUME NEW S, NEW t \in Seq(S), NEW ss, NEW n \in Nat, NEW o, NEW q, Flat(t, ss, n, o, q),
         ss[n + 1] \in Seq(S)
  PROVE  \E p, r : Flat(t \o ss[n + 1], ss, n + 1, p, r)
<1> DEFINE s == ss[n + 1]
           m == Len(t)
           u == t \o s
           p == [i \in 1 .. m + Len(s) |-> IF i <= m THEN o[i] ELSE n + 1]
           r == [i \in 1 .. m + Len(s) |-> IF i <= m THEN q[i] ELSE i - m]
<1>1. m \in Nat /\ Len(s) \in Nat /\ DOMAIN t = 1 .. m /\ DOMAIN s = 1 .. Len(s) /\ s \in Seq(S)
  OBVIOUS
<1>2. /\ u \in Seq(S) /\ Len(u) = m + Len(s)
      /\ \A i \in 1 .. m + Len(s) : u[i] = IF i <= m THEN t[i] ELSE s[i - m]
  <2> HIDE DEF s
  <2> QED BY <1>1, ConcatProperties
<1>3. DOMAIN u = 1 .. m + Len(s)
  BY <1>2
<1>4. /\ \A i \in 1 .. m : p[i] = o[i] /\ r[i] = q[i] /\ u[i] = t[i] /\ i \in DOMAIN u /\ i \in DOMAIN t
      /\ \A i \in m + 1 .. m + Len(s) :
           p[i] = n + 1 /\ r[i] = i - m /\ u[i] = s[i - m] /\ i - m \in DOMAIN s /\ i \in DOMAIN u
      /\ \A i \in DOMAIN u : i \in 1 .. m \/ i \in m + 1 .. m + Len(s)
  BY <1>1, <1>2, <1>3
<1> HIDE DEF u, p, r
<1>5. \A i \in 1 .. m : o[i] \in 1 .. n /\ q[i] \in DOMAIN ss[o[i]] /\ t[i] = ss[o[i]][q[i]]
  BY <1>1 DEF Flat
<1>6. ASSUME NEW i \in DOMAIN u
      PROVE  p[i] \in 1 .. n + 1 /\ r[i] \in DOMAIN ss[p[i]] /\ u[i] = ss[p[i]][r[i]]
  <2>1. CASE i \in 1 .. m
    BY <1>4, <1>5, <2>1
  <2>2. CASE i \in m + 1 .. m + Len(s)
    BY <1>4, <2>2
  <2> QED BY <1>4, <2>1, <2>2
<1>7. ASSUME NEW k \in 1 .. n + 1, NEW j \in DOMAIN ss[k]
      PROVE  \E i \in DOMAIN u : p[i] = k /\ r[i] = j
  <2>1. CASE k = n + 1
    <3>1. m + j \in m + 1 .. m + Len(s) /\ (m + j) - m = j
      BY <1>1, <2>1
    <3> QED BY <1>4, <2>1, <3>1
  <2>2. CASE k # n + 1
    <3>1. k \in 1 .. n
      BY <2>2
    <3>2. PICK i \in DOMAIN t : o[i] = k /\ q[i] = j
      BY <3>1 DEF Flat
    <3> QED BY <1>1, <1>4, <3>2
  <2> QED BY <2>1, <2>2
<1>8. ASSUME NEW i \in DOMAIN u, NEW j \in DOMAIN u, i < j
      PROVE  p[i] < p[j] \/ (p[i] = p[j] /\ r[i] < r[j])
  <2>1. CASE j \in 1 .. m
    <3>1. i \in 1 .. m
      BY <1>1, <1>3, <1>8, <2>1
    <3>2. o[i] < o[j] \/ (o[i] = o[j] /\ q[i] < q[j])
      BY <1>1, <1>8, <2>1, <3>1 DEF Flat
    <3> QED BY <1>4, <2>1, <3>1, <3>2
  <2>2. CASE j \in m + 1 .. m + Len(s) /\ i \in 1 .. m
    <3>1. p[j] = n + 1 /\ p[i] = o[i] /\ o[i] \in 1 .. n
      BY <1>4, <1>5, <2>2
    <3> QED BY <3>1
  <2>3. CASE j \in m + 1 .. m + Len(s) /\ i \in m + 1 .. m + Len(s)
    <3>1. p[j] = n + 1 /\ p[i] = n + 1 /\ r[j] = j - m /\ r[i] = i - m
      BY <1>4, <2>3
    <3> QED BY <1>1, <1>8, <2>3, <3>1
  <2> QED BY <1>4, <2>1, <2>2, <2>3
<1>9. Flat(u, ss, n + 1, p, r)
  BY <1>6, <1>7, <1>8 DEF Flat
<1> QED BY <1>9 DEF u

(* FlattenSeq joins sequences in this way.                                 *)
LEMMA FlattenFlat ==
  ASSUME NEW S, NEW ss \in Seq(Seq(S))
  PROVE  /\ FlattenSeq(ss) \in Seq(S)
         /\ \E o, q : Flat(FlattenSeq(ss), ss, Len(ss), o, q)
<1> DEFINE n == Len(ss)
<1>0. n \in Nat /\ \A i \in 1 .. n : ss[i] \in Seq(S)
  OBVIOUS
<1>1. PICK f \in [1 .. n -> Seq(S)] :
        /\ \A i \in 1 .. n : f[i] = IF i = 1 THEN ss[i] ELSE f[i - 1] \o ss[i]
        /\ FlattenSeq(ss) = IF ss = <<>> THEN <<>> ELSE f[n]
  BY FlattenTrail
<1>2. Flat(<<>>, ss, 0, <<>>, <<>>)
  BY DEF Flat
<1>3. CASE ss = <<>>
  <2>1. FlattenSeq(ss) = <<>> /\ n = 0
    BY <1>1, <1>3
  <2>2. <<>> \in Seq(S)
    OBVIOUS
  <2> HIDE DEF n
  <2>3. Flat(FlattenSeq(ss), ss, n, <<>>, <<>>)
    BY <1>2, <2>1
  <2> QED BY <2>1, <2>2, <2>3 DEF n
<1>4. CASE ss # <<>>
  <2> DEFINE Good(k) == \E o, q : Flat(f[k], ss, k, o, q)
             B == {k \in 1 .. n : ~Good(k)}
  <2>1. n \in 1 .. n
    BY <1>0, <1>4
  <2>2. Good(n)
    <3> HIDE DEF Good
    <3> SUFFICES ASSUME B # {} PROVE FALSE
      BY <2>1
    <3>1. PICK k \in B : \A m \in B : k <= m
      <4>1. B \in SUBSET Nat
        BY <1>0
      <4> HIDE DEF B
      <4> QED BY <4>1, LeastNumber
    <3>2. k \in 1 .. n /\ ss[k] \in Seq(S) /\ ~Good(k)
      BY <1>0
    <3>3. CASE k = 1
      <4>1. f[k] = ss[k]
        BY <1>1, <3>2, <3>3
      <4>2. \E p, r : Flat(<<>> \o ss[0 + 1], ss, 0 + 1, p, r)
        <5>1. <<>> \in Seq(S) /\ 0 \in Nat /\ ss[0 + 1] \in Seq(S)
          BY <3>2, <3>3
        <5> QED BY <1>2, <5>1, FlatMore
      <4>3. <<>> \o ss[1] = ss[1]
        BY <3>2, <3>3, ConcatEmptySeq
      <4>4. Good(1)
        BY <3>3, <4>1, <4>2, <4>3 DEF Good
      <4> QED BY <3>2, <3>3, <4>4
    <3>4. CASE k # 1
      <4> DEFINE j == k - 1
      <4>1. j \in 1 .. n /\ j \in Nat /\ j + 1 = k /\ j < k
        BY <1>0, <3>2, <3>4
      <4>2. Good(j)
        <5>1. j \notin B
          <6> HIDE DEF B, j
          <6> QED BY <3>1, <4>1
        <5> QED BY <4>1, <5>1
      <4>3. f[k] = f[j] \o ss[k] /\ f[j] \in Seq(S)
        BY <1>1, <3>2, <3>4, <4>1
      <4> HIDE DEF j
      <4>4. PICK o, q : Flat(f[j], ss, j, o, q)
        BY <4>2 DEF Good
      <4>5. \E p, r : Flat(f[j] \o ss[j + 1], ss, j + 1, p, r)
        <5>1. ss[j + 1] \in Seq(S)
          BY <3>2, <4>1
        <5> QED BY <4>1, <4>3, <4>4, <5>1, FlatMore
      <4>6. Good(k)
        BY <4>1, <4>3, <4>5 DEF Good
      <4> QED BY <3>2, <4>6
    <3> QED BY <3>3, <3>4
  <2>3. FlattenSeq(ss) = f[n] /\ f[n] \in Seq(S)
    BY <1>1, <1>4, <2>1
  <2> QED BY <2>2, <2>3
<1> QED BY <1>3, <1>4
-----------------------------------------------------------------------------
(* t is the rows of table with the numbers in rows: its i-th is the row    *)
(* b[i], and none is skipped, repeated or moved.                           *)
Picks(t, table, rows, b) ==
  /\ b \in [DOMAIN t -> DOMAIN table \intersect rows]
  /\ \A i \in DOMAIN t : t[i] = table[b[i]]
  /\ \A k \in DOMAIN table \intersect rows : \E i \in DOMAIN t : b[i] = k
  /\ \A i, j \in DOMAIN t : i < j => b[i] < b[j]

(* A function on 1 .. n is a sequence of length n.                         *)
LEMMA MadeSeq ==
  ASSUME NEW n \in Nat, NEW S, NEW s, DOMAIN s = 1 .. n, s = [k \in 1 .. n |-> s[k]],
         \A k \in 1 .. n : s[k] \in S
  PROVE  s \in Seq(S) /\ Len(s) = n
<1>1. s \in [1 .. n -> S]
  OBVIOUS
<1> QED BY <1>1

(* RowsAt picks so.                                                        *)
LEMMA RowsAtPicks ==
  ASSUME NEW S, NEW table \in Seq(S), NEW rows
  PROVE  /\ RowsAt(table, rows) \in Seq(S)
         /\ \E b : Picks(RowsAt(table, rows), table, rows, b)
<1> DEFINE ss == [k \in DOMAIN table |-> IF k \in rows THEN <<table[k]>> ELSE <<>>]
           n == Len(table)
           t == FlattenSeq(ss)
<1>1. n \in Nat /\ DOMAIN table = 1 .. n /\ \A k \in 1 .. n : table[k] \in S
  OBVIOUS
<1>2. \A k \in 1 .. n : ss[k] = IF k \in rows THEN <<table[k]>> ELSE <<>>
  BY <1>1
<1>3. ss \in Seq(Seq(S)) /\ Len(ss) = n
  <2>1. \A k \in 1 .. n : ss[k] \in Seq(S)
    BY <1>1, <1>2
  <2>2. DOMAIN ss = 1 .. n /\ ss = [k \in 1 .. n |-> ss[k]]
    BY <1>1
  <2> HIDE DEF ss, n
  <2> QED BY <1>1, <2>1, <2>2, MadeSeq
<1>4. RowsAt(table, rows) = t
  BY DEF RowsAt
<1> HIDE DEF ss, n
<1>5. t \in Seq(S) /\ \E o, q : Flat(t, ss, n, o, q)
  BY <1>3, FlattenFlat
<1>6. PICK o, q : Flat(t, ss, n, o, q)
  BY <1>5
<1> HIDE DEF t
<1> DEFINE b == [i \in DOMAIN t |-> o[i]]
<1>7. \A k \in 1 .. n : DOMAIN ss[k] = IF k \in rows THEN {1} ELSE {}
  <2> SUFFICES ASSUME NEW k \in 1 .. n PROVE DOMAIN ss[k] = IF k \in rows THEN {1} ELSE {}
    OBVIOUS
  <2>1. CASE k \in rows
    <3>1. ss[k] = <<table[k]>>
      BY <1>2, <2>1
    <3>2. DOMAIN <<table[k]>> = {1}
      OBVIOUS
    <3> QED BY <2>1, <3>1, <3>2
  <2>2. CASE k \notin rows
    <3>1. ss[k] = <<>>
      BY <1>2, <2>2
    <3>2. DOMAIN <<>> = {}
      OBVIOUS
    <3> QED BY <2>2, <3>1, <3>2
  <2> QED BY <2>1, <2>2
<1>8. ASSUME NEW i \in DOMAIN t
      PROVE  o[i] \in 1 .. n /\ o[i] \in rows /\ q[i] = 1 /\ t[i] = table[o[i]]
  <2>1. o[i] \in 1 .. n /\ q[i] \in DOMAIN ss[o[i]] /\ t[i] = ss[o[i]][q[i]]
    BY <1>6 DEF Flat
  <2>2. o[i] \in rows /\ q[i] = 1
    BY <1>7, <2>1
  <2>3. ss[o[i]] = <<table[o[i]]>>
    BY <1>2, <2>1, <2>2
  <2> QED BY <2>1, <2>2, <2>3
<1>9. ASSUME NEW k \in DOMAIN table \intersect rows PROVE \E i \in DOMAIN t : o[i] = k
  <2>1. k \in 1 .. n /\ 1 \in DOMAIN ss[k]
    BY <1>1, <1>7
  <2> QED BY <1>6, <2>1 DEF Flat
<1>10. ASSUME NEW i \in DOMAIN t, NEW j \in DOMAIN t, i < j PROVE o[i] < o[j]
  <2>1. o[i] < o[j] \/ (o[i] = o[j] /\ q[i] < q[j])
    BY <1>6, <1>10 DEF Flat
  <2>2. q[i] = 1 /\ q[j] = 1
    BY <1>8
  <2> QED BY <2>1, <2>2
<1>11. Picks(t, table, rows, b)
  BY <1>1, <1>8, <1>9, <1>10 DEF Picks
<1> QED BY <1>4, <1>5, <1>11

(* What follows when the numbers do not matter.                            *)
LEMMA RowsAtHas ==
  ASSUME NEW S, NEW table \in Seq(S), NEW rows
  PROVE  /\ RowsAt(table, rows) \in Seq(S)
         /\ \A i \in DOMAIN RowsAt(table, rows) :
              \E k \in DOMAIN table : k \in rows /\ RowsAt(table, rows)[i] = table[k]
         /\ \A k \in DOMAIN table :
              k \in rows => \E i \in DOMAIN RowsAt(table, rows) : RowsAt(table, rows)[i] = table[k]
<1> DEFINE t == RowsAt(table, rows)
<1>1. t \in Seq(S) /\ \E b : Picks(t, table, rows, b)
  BY RowsAtPicks
<1> HIDE DEF t
<1>2. PICK b : Picks(t, table, rows, b)
  BY <1>1
<1>3. \A i \in DOMAIN t : \E k \in DOMAIN table : k \in rows /\ t[i] = table[k]
  BY <1>2 DEF Picks
<1>4. \A k \in DOMAIN table : k \in rows => \E i \in DOMAIN t : t[i] = table[k]
  BY <1>2 DEF Picks
<1> QED BY <1>1, <1>3, <1>4 DEF t

(* No row is picked twice.                                                 *)
LEMMA PicksOne ==
  ASSUME NEW S, NEW t \in Seq(S), NEW table, NEW rows, NEW b, Picks(t, table, rows, b),
         NEW i \in DOMAIN t, NEW j \in DOMAIN t, b[i] = b[j], DOMAIN table \subseteq Int
  PROVE  i = j
<1>1. i \in Int /\ j \in Int /\ b[i] \in Int
  BY DEF Picks
<1> QED BY <1>1 DEF Picks

(* A sum over the rows picked is one over their numbers.                   *)
LEMMA SumOfRows ==
  ASSUME NEW S, NEW table \in Seq(S), NEW rows,
         NEW f, Addends(f, DOMAIN table \intersect rows, Int),
         NEW h, \A k \in DOMAIN table \intersect rows :
                  \A i \in DOMAIN RowsAt(table, rows) : RowsAt(table, rows)[i] = table[k] => h[i] = f[k]
  PROVE  SumFunctionOnSet(h, DOMAIN RowsAt(table, rows)) = SumFunctionOnSet(f, DOMAIN table \intersect rows)
<1> DEFINE t == RowsAt(table, rows)
           K == DOMAIN table \intersect rows
<1>1. t \in Seq(S) /\ \E b : Picks(t, table, rows, b)
  BY RowsAtPicks
<1>2. \A k \in K : \A i \in DOMAIN t : t[i] = table[k] => h[i] = f[k]
  OBVIOUS
<1>3. Addends(f, K, Int)
  OBVIOUS
<1>4. K \subseteq Int
  OBVIOUS
<1> HIDE DEF t
<1>5. PICK b : Picks(t, table, rows, b)
  BY <1>1
<1>6. /\ b \in [DOMAIN t -> K] /\ \A i \in DOMAIN t : t[i] = table[b[i]]
      /\ \A k \in K : \E i \in DOMAIN t : b[i] = k
  BY <1>5 DEF Picks
<1>7. \A i, j \in DOMAIN t : b[i] = b[j] => i = j
  <2>1. DOMAIN table \subseteq Int
    OBVIOUS
  <2> QED BY <1>1, <1>5, <2>1, PicksOne
<1>8. \A i \in DOMAIN t : h[i] = f[b[i]]
  BY <1>2, <1>6
<1>9. IsFiniteSet(DOMAIN t) /\ IsFiniteSet(K)
  <2>1. DOMAIN t = 1 .. Len(t) /\ Len(t) \in Nat
    BY <1>1
  <2>2. IsFiniteSet(1 .. Len(t))
    BY <2>1, FS_Interval
  <2> QED BY <1>3, <2>1, <2>2 DEF Addends
<1> HIDE DEF K
<1>10. SumFunctionOnSet(h, DOMAIN t) = SumFunctionOnSet(f, K)
  BY ONLY <1>3, <1>6, <1>7, <1>8, <1>9, SumAlong
<1> QED BY <1>10 DEF t, K
-----------------------------------------------------------------------------
(* before is a strict total order on S.                                    *)
StrictOrder(S, before) ==
  /\ \A x \in S : <<x, x>> \notin before
  /\ \A x, y, z \in S : <<x, y>> \in before /\ <<y, z>> \in before => <<x, z>> \in before
  /\ \A x, y \in S : x # y => <<x, y>> \in before \/ <<y, x>> \in before

Below(S, before, x) == {y \in S : <<y, x>> \in before}

(* Who comes later in the order has more below.                            *)
LEMMA BelowGrows ==
  ASSUME NEW S, IsFiniteSet(S), NEW before, StrictOrder(S, before), NEW x \in S, NEW y \in S,
         <<x, y>> \in before
  PROVE  Cardinality(Below(S, before, x)) < Cardinality(Below(S, before, y))
<1> DEFINE X == Below(S, before, x)
           Y == Below(S, before, y)
<1>1. x \notin X /\ X \cup {x} \subseteq Y /\ X \in SUBSET S /\ Y \in SUBSET S
  BY DEF StrictOrder, Below
<1> HIDE DEF X, Y
<1>2. IsFiniteSet(X) /\ IsFiniteSet(Y) /\ Cardinality(X) \in Nat /\ Cardinality(Y) \in Nat
  BY <1>1, FS_Subset, FS_CardinalityType
<1>3. Cardinality(X \cup {x}) = Cardinality(X) + 1
  BY <1>1, <1>2, FS_AddElement
<1>4. Cardinality(X \cup {x}) <= Cardinality(Y)
  BY <1>1, <1>2, FS_Subset
<1> QED BY <1>2, <1>3, <1>4 DEF X, Y

(* Sorted has all members of the set once, in the order.                   *)
LEMMA SortedOrder ==
  ASSUME NEW S, IsFiniteSet(S), NEW before, StrictOrder(S, before)
  PROVE  /\ Sorted(S, before) \in Seq(S) /\ Len(Sorted(S, before)) = Cardinality(S)
         /\ \A x \in S : \E i \in DOMAIN Sorted(S, before) : Sorted(S, before)[i] = x
         /\ \A i, j \in DOMAIN Sorted(S, before) :
              i < j => <<Sorted(S, before)[i], Sorted(S, before)[j]>> \in before
         /\ \A i \in DOMAIN Sorted(S, before) :
              Cardinality(Below(S, before, Sorted(S, before)[i])) = i - 1
<1> DEFINE n == Cardinality(S)
           card(x) == Cardinality(Below(S, before, x))
           r == [x \in S |-> card(x) + 1]
           s == Sorted(S, before)
<1>1. n \in Nat /\ IsFiniteSet(1 .. n) /\ Cardinality(1 .. n) = n
  <2>1. n \in Nat
    BY FS_CardinalityType
  <2> HIDE DEF n
  <2>2. n \in Int /\ 1 \in Int
    BY <2>1
  <2>3. IsFiniteSet(1 .. n) /\ Cardinality(1 .. n) = IF 1 > n THEN 0 ELSE n - 1 + 1
    BY <2>2, FS_Interval
  <2> QED BY <2>1, <2>3
<1>2. ASSUME NEW x \in S PROVE card(x) \in Nat /\ card(x) < n
  <2>1. Below(S, before, x) \in SUBSET S /\ Below(S, before, x) # S
    BY DEF Below, StrictOrder
  <2>2. IsFiniteSet(Below(S, before, x)) /\ card(x) <= n /\ card(x) # n
    BY <2>1, FS_Subset
  <2>3. card(x) \in Nat
    BY <2>2, FS_CardinalityType
  <2> QED BY <1>1, <2>2, <2>3
<1>3. ASSUME NEW x \in S, NEW y \in S, <<x, y>> \in before PROVE card(x) < card(y)
  BY <1>3, BelowGrows
<1> HIDE DEF card, n
<1>4. r \in [S -> 1 .. n]
  BY <1>1, <1>2
<1>5. \A x, y \in S : r[x] = r[y] => x = y
  <2> SUFFICES ASSUME NEW x \in S, NEW y \in S, r[x] = r[y] PROVE x = y
    OBVIOUS
  <2>1. card(x) = card(y) /\ card(x) \in Nat
    BY <1>2
  <2>2. <<x, y>> \notin before /\ <<y, x>> \notin before
    BY <1>3, <2>1
  <2> QED BY <2>2 DEF StrictOrder
<1>6. r \in Surjection(S, 1 .. n)
  <2>1. r \in Injection(S, 1 .. n)
    BY <1>4, <1>5 DEF Injection, IsInjective
  <2> QED BY <1>1, <2>1, FS_Injection DEF n
<1>7. \A i \in 1 .. n : \E x \in S : card(x) = i - 1
  <2> SUFFICES ASSUME NEW i \in 1 .. n PROVE \E x \in S : card(x) = i - 1
    OBVIOUS
  <2>1. PICK x \in S : r[x] = i
    BY <1>6 DEF Surjection
  <2>2. r[x] = card(x) + 1
    OBVIOUS
  <2> QED BY <1>2, <2>1, <2>2
<1>8. s = [i \in 1 .. n |-> CHOOSE x \in S : card(x) = i - 1]
  BY DEF Sorted, card, Below, n
<1>9. \A i \in 1 .. n : s[i] \in S /\ card(s[i]) = i - 1
  BY <1>7, <1>8
<1>10. s \in Seq(S) /\ Len(s) = n /\ DOMAIN s = 1 .. n
  <2>1. DOMAIN s = 1 .. n /\ s = [i \in 1 .. n |-> s[i]]
    BY <1>8
  <2> HIDE DEF s
  <2> QED BY <1>1, <1>9, <2>1, MadeSeq
<1> HIDE DEF s
<1>11. ASSUME NEW x \in S PROVE \E i \in 1 .. n : s[i] = x
  <2>1. r[x] \in 1 .. n /\ r[x] = card(x) + 1
    BY <1>4
  <2>2. s[r[x]] \in S /\ card(s[r[x]]) = card(x)
    BY <1>2, <1>9, <2>1
  <2>3. r[s[r[x]]] = r[x]
    BY <2>1, <2>2
  <2> QED BY <1>5, <2>1, <2>2, <2>3
<1>12. ASSUME NEW i \in 1 .. n, NEW j \in 1 .. n, i < j PROVE <<s[i], s[j]>> \in before
  <2>1. s[i] \in S /\ s[j] \in S /\ card(s[i]) = i - 1 /\ card(s[j]) = j - 1
    BY <1>9
  <2>2. s[i] # s[j]
    BY <1>12, <2>1
  <2>3. CASE <<s[j], s[i]>> \in before
    <3>1. card(s[j]) < card(s[i])
      BY <1>3, <2>1, <2>3
    <3> QED BY <1>12, <2>1, <3>1
  <2> QED BY <2>1, <2>2, <2>3 DEF StrictOrder
<1> QED BY <1>9, <1>10, <1>11, <1>12 DEF s, n, card

(* The number of a place among the chosen ones up to it.  Every number up  *)
(* to how many there are is the number of one place.                       *)
LEMMA RankOf ==
  ASSUME NEW S \in SUBSET Nat, IsFiniteSet(S)
  PROVE  /\ Cardinality(S) \in Nat
         /\ \A x \in S : Cardinality({y \in S : y <= x}) \in 1 .. Cardinality(S)
         /\ \A x, y \in S : Cardinality({z \in S : z <= x}) = Cardinality({z \in S : z <= y}) => x = y
         /\ \A x, y \in S : x < y => Cardinality({z \in S : z <= x}) < Cardinality({z \in S : z <= y})
         /\ \A n \in 1 .. Cardinality(S) : \E x \in S : Cardinality({y \in S : y <= x}) = n
<1> DEFINE less == {p \in S \X S : p[1] < p[2]}
           card(x) == Cardinality(Below(S, less, x))
           rank(x) == Cardinality({y \in S : y <= x})
           n == Cardinality(S)
           s == Sorted(S, less)
<1>1. StrictOrder(S, less)
  BY DEF StrictOrder
<1>2. \A x \in S : Below(S, less, x) = {y \in S : y < x}
  BY DEF Below
<1>3. n \in Nat
  BY FS_CardinalityType
<1>4. ASSUME NEW x \in S PROVE rank(x) = card(x) + 1 /\ rank(x) \in 1 .. n /\ card(x) \in Nat
  <2> DEFINE B == Below(S, less, x)
             C == {y \in S : y <= x}
  <2>0. B = {y \in S : y < x}
    BY <1>2
  <2>1. C = B \cup {x} /\ x \notin B /\ B \in SUBSET S /\ C \in SUBSET S
    <3>1. \A y \in S : y <= x <=> y < x \/ y = x
      OBVIOUS
    <3>2. ~(x < x)
      OBVIOUS
    <3>3. \A y : y \in B <=> y \in S /\ y < x
      BY <2>0
    <3>4. \A y : y \in C <=> y \in S /\ y <= x
      OBVIOUS
    <3> HIDE DEF B, C
    <3> QED BY <3>1, <3>2, <3>3, <3>4
  <2> HIDE DEF B, C
  <2>2. IsFiniteSet(B) /\ IsFiniteSet(C) /\ Cardinality(C) <= n
    BY <2>1, FS_Subset
  <2>3. Cardinality(C) = Cardinality(B) + 1
    BY <2>1, <2>2, FS_AddElement
  <2>4. Cardinality(B) \in Nat
    BY <2>2, FS_CardinalityType
  <2> HIDE DEF n
  <2> QED BY <1>3, <2>2, <2>3, <2>4 DEF B, C
<1>5. ASSUME NEW x \in S, NEW y \in S, x < y PROVE rank(x) < rank(y)
  <2>1. <<x, y>> \in less
    BY <1>5
  <2>2. card(x) < card(y)
    <3> HIDE DEF less
    <3> QED BY <1>1, <2>1, BelowGrows
  <2> HIDE DEF card, rank
  <2> QED BY <1>4, <2>2
<1>6. ASSUME NEW x \in S, NEW y \in S, rank(x) = rank(y) PROVE x = y
  <2>1. x \in Nat /\ y \in Nat /\ rank(x) \in Nat /\ ~(x < y) /\ ~(y < x)
    <3> HIDE DEF rank, n, card
    <3> QED BY <1>3, <1>4, <1>5, <1>6
  <2> QED BY <2>1
<1>7. ASSUME NEW i \in 1 .. n PROVE \E x \in S : rank(x) = i
  <2>1. s \in Seq(S) /\ Len(s) = n /\ \A k \in DOMAIN s : card(s[k]) = k - 1
    <3> HIDE DEF less
    <3> QED BY <1>1, SortedOrder
  <2> HIDE DEF s, n, card, rank, less
  <2>2. DOMAIN s = 1 .. n
    BY <2>1
  <2>3. i \in DOMAIN s /\ s[i] \in S
    BY <2>1, <2>2
  <2>6. i \in Int
    OBVIOUS
  <2>7. card(s[i]) = i - 1
    BY <2>1, <2>3
  <2>8. rank(s[i]) = card(s[i]) + 1
    BY <1>4, <2>3
  <2>4. rank(s[i]) = card(s[i]) + 1 /\ card(s[i]) = i - 1 /\ i \in Int
    BY <2>6, <2>7, <2>8
  <2>5. rank(s[i]) = i
    BY <2>4
  <2> QED BY <2>3, <2>5
<1> HIDE DEF less, card, s
<1> QED BY <1>3, <1>4, <1>5, <1>6, <1>7

(* A sum over a set is the sum over two parts of it.                       *)
LEMMA SumSplit ==
  ASSUME NEW S, NEW f, Addends(f, S, Int), NEW T \in SUBSET S
  PROVE  SumFunctionOnSet(f, S) = SumFunctionOnSet(f, T) + SumFunctionOnSet(f, S \ T)
<1> DEFINE key == [x \in S |-> IF x \in T THEN 1 ELSE 2]
           parts == Parts(f, S, key, {1, 2})
<1>1. IsFiniteSet({1, 2})
  <2>1. {1, 2} = {1} \cup {2}
    OBVIOUS
  <2>2. IsFiniteSet({1})
    BY FS_Singleton
  <2>3. IsFiniteSet({1} \cup {2})
    BY <2>2, FS_AddElement
  <2> QED BY <2>1, <2>3
<1>2. SumFunctionOnSet(f, S) = SumFunctionOnSet(parts, {1, 2}) /\ Addends(parts, {1, 2}, Int)
  <2>1. \A x \in S : key[x] \in {1, 2}
    OBVIOUS
  <2> HIDE DEF key
  <2> QED BY <1>1, <2>1, SumOfParts
<1>3. {x \in S : key[x] = 1} = T /\ {x \in S : key[x] = 2} = S \ T
  OBVIOUS
<1>4. parts[1] = SumFunctionOnSet(f, T) /\ parts[2] = SumFunctionOnSet(f, S \ T)
  BY <1>3 DEF Parts
<1> HIDE DEF parts
<1>5. SumFunctionOnSet(parts, {1, 2}) = parts[1] + SumFunctionOnSet(parts, {1, 2} \ {1})
  <2>1. 1 \in {1, 2}
    OBVIOUS
  <2> QED BY <1>2, <2>1, SumPick
<1>6. {1, 2} \ {1} = {2} /\ parts[2] \in Int
  BY <1>2 DEF Addends
<1>7. SumFunctionOnSet(parts, {2}) = parts[2]
  BY <1>6, SumSingleton
<1> QED BY <1>2, <1>4, <1>5, <1>6, <1>7
-----------------------------------------------------------------------------
(* Velocity.  The rows of a file: what an item is of and how much of it,   *)
(* either of which may be missing.                                         *)
Line(l) == l.sku \in Codes \union {NaN} /\ l.qty \in Int \union {NaN}

Table(t) == t \in Seq(ToSet(t)) /\ \A k \in DOMAIN t : Line(t[k])

Whole(l) == l.sku \in Codes /\ l.qty \in Int

WholeTable(t) == t \in Seq(ToSet(t)) /\ \A k \in DOMAIN t : Whole(t[k])

(* A sequence is one of its own members, and has finitely many.            *)
LEMMA OwnSeq ==
  ASSUME NEW S, NEW t \in Seq(S)
  PROVE  /\ t \in Seq(ToSet(t)) /\ Len(t) \in Nat /\ DOMAIN t = 1 .. Len(t)
         /\ IsFiniteSet(DOMAIN t) /\ DOMAIN t \subseteq Int
<1>1. DOMAIN t = 1 .. Len(t) /\ Len(t) \in Nat
  OBVIOUS
<1>2. \A k \in DOMAIN t : t[k] \in ToSet(t)
  BY DEF ToSet
<1>3. t = [k \in 1 .. Len(t) |-> t[k]]
  OBVIOUS
<1>4. t \in Seq(ToSet(t))
  BY <1>1, <1>2, <1>3, MadeSeq
<1>5. IsFiniteSet(1 .. Len(t))
  BY <1>1, FS_Interval
<1> QED BY <1>1, <1>4, <1>5

LEMMA NotANumber == NaN \notin Int /\ NaN \notin Codes /\ 0 \in Int
  BY NaNAssumption, VelocityAssumption

(* The codes, and their order.                                             *)
LEMMA CodesInOrder ==
  /\ IsFiniteSet(Codes)
  /\ \A c \in Codes : Code(c) \in Int
  /\ \A c, d \in Codes : Code(c) = Code(d) => c = d
<1>1. CodeOrder \in Seq(Codes)
  BY VelocityAssumption
<1>2. DOMAIN CodeOrder = 1 .. Len(CodeOrder) /\ IsFiniteSet(DOMAIN CodeOrder)
  BY <1>1, OwnSeq
<1>3. \A c \in Codes : Code(c) \in DOMAIN CodeOrder /\ CodeOrder[Code(c)] = c
  BY DEF Codes, ToSet, Code
<1>4. IsFiniteSet({CodeOrder[k] : k \in DOMAIN CodeOrder})
  BY <1>2, FiniteImage
<1>5. IsFiniteSet(Codes)
  BY <1>4 DEF Codes, ToSet
<1> QED BY <1>2, <1>3, <1>5

(* Some rows of a table.                                                   *)
LEMMA RowsTable ==
  ASSUME NEW t, Table(t), NEW rows
  PROVE  Table(RowsAt(t, rows))
<1>1. t \in Seq(ToSet(t)) /\ \A k \in DOMAIN t : Line(t[k])
  BY DEF Table
<1>2. /\ RowsAt(t, rows) \in Seq(ToSet(t))
      /\ \A i \in DOMAIN RowsAt(t, rows) : \E k \in DOMAIN t : RowsAt(t, rows)[i] = t[k]
  BY <1>1, RowsAtHas
<1>3. RowsAt(t, rows) \in Seq(ToSet(RowsAt(t, rows)))
  BY <1>2, OwnSeq
<1> QED BY <1>1, <1>2, <1>3 DEF Table

LEMMA WholeRows ==
  ASSUME NEW t, WholeTable(t), NEW rows
  PROVE  WholeTable(RowsAt(t, rows))
<1>1. t \in Seq(ToSet(t)) /\ \A k \in DOMAIN t : Whole(t[k])
  BY DEF WholeTable
<1>2. /\ RowsAt(t, rows) \in Seq(ToSet(t))
      /\ \A i \in DOMAIN RowsAt(t, rows) : \E k \in DOMAIN t : RowsAt(t, rows)[i] = t[k]
  BY <1>1, RowsAtHas
<1>3. RowsAt(t, rows) \in Seq(ToSet(RowsAt(t, rows)))
  BY <1>2, OwnSeq
<1> QED BY <1>1, <1>2, <1>3 DEF WholeTable

(* Cleaning leaves whole lines only; of these the quantities can be added. *)
LEMMA CleanWhole ==
  ASSUME NEW t, Table(t)
  PROVE  WholeTable(Clean(t))
<1> DEFINE rows == {k \in DOMAIN t : NaN \notin {t[k].sku, t[k].qty}}
<1>1. t \in Seq(ToSet(t)) /\ \A k \in DOMAIN t : Line(t[k])
  BY DEF Table
<1>2. /\ RowsAt(t, rows) \in Seq(ToSet(t))
      /\ \A i \in DOMAIN RowsAt(t, rows) : \E k \in DOMAIN t : k \in rows /\ RowsAt(t, rows)[i] = t[k]
  <2> HIDE DEF rows
  <2> QED BY <1>1, RowsAtHas
<1>3. RowsAt(t, rows) \in Seq(ToSet(RowsAt(t, rows)))
  BY <1>2, OwnSeq
<1>4. \A k \in rows : Whole(t[k])
  BY <1>1 DEF Line, Whole
<1> HIDE DEF rows
<1>5. WholeTable(RowsAt(t, rows))
  BY <1>2, <1>3, <1>4 DEF WholeTable
<1> QED BY <1>5 DEF rows, Clean

LEMMA ReceivedWhole ==
  ASSUME NEW po, Table(po)
  PROVE  WholeTable(Received(po))
  BY CleanWhole, WholeRows DEF Received

LEMMA WholeAddends ==
  ASSUME NEW t, WholeTable(t)
  PROVE  Addends([k \in DOMAIN t |-> t[k].qty], DOMAIN t, Int)
<1>1. IsFiniteSet(DOMAIN t)
  BY OwnSeq DEF WholeTable
<1> QED BY <1>1 DEF Addends, WholeTable, Whole

LEMMA TotalType ==
  ASSUME NEW t, WholeTable(t)
  PROVE  TotalQty(t) \in Int
<1> DEFINE f == [k \in DOMAIN t |-> t[k].qty]
<1>1. Addends(f, DOMAIN t, Int) /\ DOMAIN f = DOMAIN t
  BY WholeAddends
<1> HIDE DEF f
<1>2. SumFunctionOnSet(f, DOMAIN t) \in Int
  BY <1>1, SumType
<1> QED BY <1>1, <1>2 DEF TotalQty, SumFunction, f

LEMMA UnitsType ==
  ASSUME NEW so, Table(so), NEW sku
  PROVE  UnitsOf(so, sku) \in Int \union {NaN}
<1>1. WholeTable(LinesOf(Clean(so), sku))
  BY CleanWhole, WholeRows DEF LinesOf
<1> QED BY <1>1, TotalType DEF UnitsOf
-----------------------------------------------------------------------------
(* Metrics: of a product each, the fastest first.                          *)
Metric(m) == m.sku \in Codes /\ m.units \in Int \union {NaN}

Descending(M) ==
  /\ M \in Seq(ToSet(M)) /\ \A k \in DOMAIN M : Metric(M[k])
  /\ \A i, j \in DOMAIN M : i <= j => NoSlower(M[i], M[j])

(* One row for each of skus.                                               *)
OnceEach(M, skus) ==
  /\ \A k \in DOMAIN M : M[k].sku \in skus
  /\ \A s \in skus : \E k \in DOMAIN M : M[k].sku = s
  /\ \A i, j \in DOMAIN M : M[i].sku = M[j].sku => i = j

(* Faster is a strict order: a tie goes by the code.                       *)
LEMMA FasterOrders ==
  ASSUME NEW S, \A x \in S : Metric(x), \A x, y \in S : x.sku = y.sku => x = y
  PROVE  StrictOrder(S, {p \in S \X S : Faster(p[1], p[2])})
<1> DEFINE before == {p \in S \X S : Faster(p[1], p[2])}
<1>1. \A x, y \in S : <<x, y>> \in before <=> Faster(x, y)
  OBVIOUS
<1> HIDE DEF before
<1>2. \A x \in S : Code(x.sku) \in Int /\ x.units \in Int \union {NaN}
  BY CodesInOrder DEF Metric
<1>3. ASSUME NEW x \in S, NEW y \in S, x # y PROVE Code(x.sku) # Code(y.sku)
  BY <1>3, CodesInOrder DEF Metric
<1>4. \A x \in S : ~Faster(x, x)
  BY <1>2, NotANumber DEF Faster
<1>5. ASSUME NEW x \in S, NEW y \in S, NEW z \in S, Faster(x, y), Faster(y, z) PROVE Faster(x, z)
  BY <1>2, <1>5, NotANumber DEF Faster
<1>6. ASSUME NEW x \in S, NEW y \in S, x # y PROVE Faster(x, y) \/ Faster(y, x)
  BY <1>2, <1>3, <1>6, NotANumber DEF Faster
<1> QED BY <1>1, <1>4, <1>5, <1>6 DEF StrictOrder, before

LEMMA SkusFinite ==
  ASSUME NEW t, WholeTable(t)
  PROVE  IsFiniteSet(SkusOf(t)) /\ SkusOf(t) \subseteq Codes
<1>1. SkusOf(t) \in SUBSET Codes
  BY DEF SkusOf, WholeTable, Whole
<1> QED BY <1>1, CodesInOrder, FS_Subset

(* The velocity of what was sold or received.                              *)
SoldOrReceived(so, po) == SkusOf(Clean(so)) \union SkusOf(Received(po))

(* The metrics are one row for each product, the fastest first, of its     *)
(* units.                                                                  *)
LEMMA VelocityRows ==
  ASSUME NEW so, Table(so), NEW po, Table(po), NEW products
  PROVE  /\ Descending(ComputeVelocity(so, po, products))
         /\ OnceEach(ComputeVelocity(so, po, products), SoldOrReceived(so, po))
         /\ \A k \in DOMAIN ComputeVelocity(so, po, products) :
              ComputeVelocity(so, po, products)[k].units
                = UnitsOf(so, ComputeVelocity(so, po, products)[k].sku)
<1> DEFINE skus == SoldOrReceived(so, po)
           row(s) == [sku |-> s, units |-> UnitsOf(so, s), name |-> NameOf(so, products, s)]
           moved == {row(s) : s \in skus}
           before == {p \in moved \X moved : Faster(p[1], p[2])}
           rows == Sorted(moved, before)
           V == ComputeVelocity(so, po, products)
<1>1. skus \in SUBSET Codes /\ IsFiniteSet(skus)
  BY CodesInOrder, FS_Subset, SkusFinite, CleanWhole, ReceivedWhole DEF SoldOrReceived
<1>2. \A s \in skus : row(s).sku = s /\ row(s).units = UnitsOf(so, s)
  OBVIOUS
<1>3. V = [k \in DOMAIN rows |-> [sku |-> rows[k].sku, units |-> rows[k].units,
                                  name |-> rows[k].name, abc |-> AbcClass(rows, k)]]
  BY DEF ComputeVelocity, SoldOrReceived
<1> HIDE DEF skus, V
<1>4. IsFiniteSet(moved)
  <2> DEFINE f == [s \in skus |-> row(s)]
  <2>1. IsFiniteSet({f[s] : s \in skus})
    <3> HIDE DEF f
    <3> QED BY <1>1, FiniteImage
  <2>2. {f[s] : s \in skus} = moved
    OBVIOUS
  <2> QED BY <2>1, <2>2
<1> HIDE DEF row
<1>5. \A x \in moved : x.sku \in skus /\ x = row(x.sku) /\ Metric(x) /\ x.units = UnitsOf(so, x.sku)
  BY <1>1, <1>2, UnitsType DEF Metric
<1>6. \A s \in skus : \E x \in moved : x.sku = s
  BY <1>2
<1> HIDE DEF moved
<1>7. StrictOrder(moved, before)
  BY <1>5, FasterOrders
<1>8. /\ rows \in Seq(moved)
      /\ \A x \in moved : \E i \in DOMAIN rows : rows[i] = x
      /\ \A i, j \in DOMAIN rows : i < j => <<rows[i], rows[j]>> \in before
  <2> HIDE DEF before
  <2> QED BY <1>4, <1>7, SortedOrder
<1>9. \A i, j \in DOMAIN rows : i < j => Faster(rows[i], rows[j])
  BY <1>8
<1> HIDE DEF before, rows
<1>10. DOMAIN rows = 1 .. Len(rows) /\ Len(rows) \in Nat /\ \A i \in DOMAIN rows : rows[i] \in moved
  BY <1>8
<1>11. /\ DOMAIN V = DOMAIN rows
       /\ \A k \in DOMAIN rows : V[k].sku = rows[k].sku /\ V[k].units = rows[k].units
  BY <1>3
<1>12. V \in Seq(ToSet(V))
  <2>1. V = [k \in 1 .. Len(rows) |-> V[k]]
    BY <1>3, <1>10
  <2>2. \A k \in 1 .. Len(rows) : V[k] \in ToSet(V)
    BY <1>10, <1>11 DEF ToSet
  <2>3. DOMAIN V = 1 .. Len(rows)
    BY <1>10, <1>11
  <2> QED BY ONLY <1>10, <2>1, <2>2, <2>3, MadeSeq
<1>13. \A k \in DOMAIN V : Metric(V[k]) /\ V[k].sku \in skus /\ V[k].units = UnitsOf(so, V[k].sku)
  BY <1>5, <1>10, <1>11 DEF Metric
<1>14. ASSUME NEW i \in DOMAIN V, NEW j \in DOMAIN V, i <= j PROVE NoSlower(V[i], V[j])
  <2>0. V[i].units \in Int \union {NaN} /\ V[j].units \in Int \union {NaN}
    BY <1>13 DEF Metric
  <2>1. CASE i = j
    BY <2>0, <2>1 DEF NoSlower
  <2>2. CASE i # j
    <3>1. i < j /\ i \in DOMAIN rows /\ j \in DOMAIN rows
      BY <1>10, <1>11, <1>14, <2>2
    <3>2. Faster(rows[i], rows[j])
      BY <1>9, <3>1
    <3>3. V[i].units = rows[i].units /\ V[j].units = rows[j].units
      BY <1>11
    <3> QED BY <2>0, <3>2, <3>3 DEF Faster, NoSlower
  <2> QED BY <2>1, <2>2
<1>15. Descending(V)
  BY <1>12, <1>13, <1>14 DEF Descending
<1>16. OnceEach(V, skus)
  <2>1. \A s \in skus : \E k \in DOMAIN V : V[k].sku = s
    BY <1>6, <1>8, <1>11
  <2>2. ASSUME NEW i \in DOMAIN V, NEW j \in DOMAIN V, V[i].sku = V[j].sku, i < j PROVE FALSE
    <3>1. rows[i] = rows[j]
      BY <1>5, <1>10, <1>11, <2>2
    <3>2. <<rows[i], rows[i]>> \in before /\ rows[i] \in moved
      BY <1>8, <1>10, <1>11, <2>2, <3>1
    <3> QED BY <1>7, <3>2 DEF StrictOrder
  <2>3. ASSUME NEW i \in DOMAIN V, NEW j \in DOMAIN V, V[i].sku = V[j].sku PROVE i = j
    <3>1. i \in Int /\ j \in Int
      BY <1>10, <1>11
    <3> QED BY <2>2, <2>3, <3>1
  <2> QED BY <1>13, <2>1, <2>3 DEF OnceEach
<1> QED BY <1>13, <1>15, <1>16 DEF V, skus
-----------------------------------------------------------------------------
(* Tags, and what is to be placed.                                         *)
LEMMA AtLeastOne ==
  ASSUME NEW n \in Nat
  PROVE  Max({1, n}) \in Nat \ {0} /\ Max({1, n}) \in {1, n} /\ Max({1, n}) >= n
<1>1. IsFiniteSet({1} \cup {n}) /\ {1} \cup {n} = {1, n}
  BY FS_Singleton, FS_Union
<1>2. {1, n} \in SUBSET Int /\ {1, n} # {} /\ IsFiniteSet({1, n})
  BY <1>1
<1>3. Max({1, n}) \in {1, n} /\ \A y \in {1, n} : Max({1, n}) >= y
  BY ONLY <1>2, MaxInSet
<1> DEFINE m == Max({1, n})
<1>4. m \in {1, n} /\ m >= 1 /\ m >= n
  BY <1>3
<1> HIDE DEF m
<1>5. m \in Nat \ {0}
  BY <1>4
<1> QED BY <1>4, <1>5 DEF m

LEMMA RepeatsType ==
  ASSUME NEW dims, dims \in Seq(ToSet(dims)), NEW sku
  PROVE  /\ Repeats(dims, sku) \in Nat \ {0}
         /\ Len(RowsFor(dims, sku)) <= 1 => Repeats(dims, sku) = 1
<1> DEFINE L == Len(RowsFor(dims, sku))
           m == Max({1, L})
<1>1. L \in Nat
  <2>1. RowsFor(dims, sku) \in Seq(ToSet(dims))
    BY RowsAtHas DEF RowsFor
  <2> QED BY <2>1
<1>2. Repeats(dims, sku) = m * m
  BY DEF Repeats
<1> HIDE DEF L
<1>3. m \in Nat \ {0} /\ m \in {1, L} /\ m >= L
  BY <1>1, AtLeastOne
<1> HIDE DEF m
<1>4. L <= 1 => m = 1
  BY <1>1, <1>3
<1>5. m * m \in Nat /\ m * m # 0
  BY <1>3
<1> QED BY <1>2, <1>4, <1>5 DEF L

(* Joining sequences of one member each changes nothing but the nesting.   *)
LEMMA FlattenSingles ==
  ASSUME NEW S, NEW ss \in Seq(Seq(S)), \A k \in DOMAIN ss : Len(ss[k]) = 1,
         NEW table, DOMAIN table = DOMAIN ss, \A k \in DOMAIN ss : ss[k][1] = table[k]
  PROVE  /\ FlattenSeq(ss) \in Seq(S)
         /\ \E b : Picks(FlattenSeq(ss), table, DOMAIN table, b)
<1> DEFINE t == FlattenSeq(ss)
           n == Len(ss)
<1>1. t \in Seq(S) /\ \E o, q : Flat(t, ss, n, o, q)
  BY FlattenFlat
<1>2. DOMAIN ss = 1 .. n /\ \A k \in 1 .. n : ss[k] \in Seq(S) /\ DOMAIN ss[k] = {1}
  <2>1. DOMAIN ss = 1 .. n /\ \A k \in 1 .. n : ss[k] \in Seq(S)
    OBVIOUS
  <2> SUFFICES ASSUME NEW k \in 1 .. n PROVE DOMAIN ss[k] = {1}
    BY <2>1
  <2>2. ss[k] \in Seq(S) /\ Len(ss[k]) = 1
    BY <2>1
  <2>3. DOMAIN ss[k] = 1 .. 1
    BY <2>2
  <2> QED BY <2>3
<1> HIDE DEF t, n
<1>3. PICK o, q : Flat(t, ss, n, o, q)
  BY <1>1
<1> DEFINE b == [i \in DOMAIN t |-> o[i]]
<1>4. \A i \in DOMAIN t : o[i] \in 1 .. n /\ q[i] = 1 /\ t[i] = table[o[i]]
  BY <1>2, <1>3 DEF Flat
<1>5. \A k \in 1 .. n : \E i \in DOMAIN t : o[i] = k
  BY <1>2, <1>3 DEF Flat
<1>6. \A i, j \in DOMAIN t : i < j => o[i] < o[j]
  <2> SUFFICES ASSUME NEW i \in DOMAIN t, NEW j \in DOMAIN t, i < j PROVE o[i] < o[j]
    OBVIOUS
  <2>1. o[i] < o[j] \/ (o[i] = o[j] /\ q[i] < q[j])
    BY <1>3 DEF Flat
  <2>2. q[i] = 1 /\ q[j] = 1
    BY <1>4
  <2> QED BY <2>1, <2>2
<1>7. Picks(t, table, DOMAIN table, b)
  BY <1>2, <1>4, <1>5, <1>6 DEF Picks
<1> QED BY <1>1, <1>7 DEF t

(* Joining sequences of rows that each come of a row of M in its order.    *)
LEMMA FlattenDescending ==
  ASSUME NEW M, Descending(M), NEW ss, ss \in Seq(Seq(ToSet(FlattenSeq(ss)))), DOMAIN ss = DOMAIN M,
         \A k \in DOMAIN M : \A j \in DOMAIN ss[k] : ss[k][j].sku = M[k].sku /\ ss[k][j].units = M[k].units
  PROVE  Descending(FlattenSeq(ss))
<1> DEFINE t == FlattenSeq(ss)
           n == Len(ss)
<1>1. t \in Seq(ToSet(t)) /\ \E o, q : Flat(t, ss, n, o, q)
  BY FlattenFlat
<1>2. DOMAIN ss = 1 .. n
  OBVIOUS
<1> HIDE DEF t, n
<1>3. PICK o, q : Flat(t, ss, n, o, q)
  BY <1>1
<1>4. \A i \in DOMAIN t : o[i] \in DOMAIN M /\ t[i].sku = M[o[i]].sku /\ t[i].units = M[o[i]].units
  BY <1>2, <1>3 DEF Flat
<1>5. \A i \in DOMAIN t : Metric(t[i])
  BY <1>4 DEF Descending, Metric
<1>6. ASSUME NEW i \in DOMAIN t, NEW j \in DOMAIN t, i <= j PROVE NoSlower(t[i], t[j])
  <2>1. o[i] <= o[j]
    <3>1. i \in Int /\ j \in Int /\ o[i] \in Int /\ o[j] \in Int
      BY <1>1, <1>2, <1>3, OwnSeq DEF Flat
    <3>2. i < j => o[i] <= o[j]
      BY <1>3, <3>1 DEF Flat
    <3> QED BY <1>6, <3>1, <3>2
  <2>2. NoSlower(M[o[i]], M[o[j]])
    BY <1>4, <2>1 DEF Descending
  <2> QED BY <1>4, <2>2 DEF NoSlower
<1> QED BY <1>1, <1>5, <1>6 DEF Descending, t

LEMMA FlattenOwn ==
  ASSUME NEW S, NEW ss \in Seq(Seq(S))
  PROVE  ss \in Seq(Seq(ToSet(FlattenSeq(ss))))
<1> DEFINE t == FlattenSeq(ss)
           n == Len(ss)
<1>1. n \in Nat /\ DOMAIN ss = 1 .. n /\ ss = [k \in 1 .. n |-> ss[k]] /\ \A k \in 1 .. n : ss[k] \in Seq(S)
  OBVIOUS
<1>2. PICK o, q : Flat(t, ss, n, o, q)
  BY FlattenFlat
<1> HIDE DEF t, n
<1>3. ASSUME NEW k \in 1 .. n PROVE ss[k] \in Seq(ToSet(t))
  <2>1. \A j \in DOMAIN ss[k] : ss[k][j] \in ToSet(t)
    BY <1>2 DEF Flat, ToSet
  <2>2. DOMAIN ss[k] = 1 .. Len(ss[k]) /\ Len(ss[k]) \in Nat /\ ss[k] = [j \in 1 .. Len(ss[k]) |-> ss[k][j]]
    BY <1>1
  <2> QED BY <2>1, <2>2, MadeSeq
<1> QED BY ONLY <1>1, <1>3, MadeSeq DEF t

(* Tagging.                                                                *)
TagRows(M, dims) == [k \in DOMAIN M |-> [j \in 1 .. Repeats(dims, M[k].sku) |-> M[k]]]

LEMMA TagRowsType ==
  ASSUME NEW M, M \in Seq(ToSet(M)), NEW dims, dims \in Seq(ToSet(dims))
  PROVE  /\ TagRows(M, dims) \in Seq(Seq(ToSet(M))) /\ DOMAIN TagRows(M, dims) = DOMAIN M
         /\ ApplyTags(M, dims) = FlattenSeq(TagRows(M, dims))
         /\ \A k \in DOMAIN M : /\ Len(TagRows(M, dims)[k]) = Repeats(dims, M[k].sku)
                                /\ \A j \in DOMAIN TagRows(M, dims)[k] : TagRows(M, dims)[k][j] = M[k]
<1> DEFINE ss == TagRows(M, dims)
<1>1. ASSUME NEW k \in DOMAIN M
      PROVE  ss[k] \in Seq(ToSet(M)) /\ Len(ss[k]) = Repeats(dims, M[k].sku)
             /\ \A j \in DOMAIN ss[k] : ss[k][j] = M[k]
  <2> DEFINE n == Repeats(dims, M[k].sku)
  <2>1. ss[k] = [j \in 1 .. n |-> M[k]]
    BY DEF TagRows
  <2>2. n \in Nat /\ M[k] \in ToSet(M)
    BY RepeatsType DEF ToSet
  <2> HIDE DEF n, ss
  <2>3. DOMAIN ss[k] = 1 .. n /\ ss[k] = [j \in 1 .. n |-> ss[k][j]] /\ \A j \in 1 .. n : ss[k][j] = M[k]
    BY <2>1
  <2>4. ss[k] \in Seq(ToSet(M)) /\ Len(ss[k]) = n
    BY <2>2, <2>3, MadeSeq
  <2> QED BY <2>3, <2>4 DEF n
<1>2. DOMAIN ss = DOMAIN M /\ ss = [k \in DOMAIN M |-> ss[k]]
  BY DEF TagRows
<1> HIDE DEF ss
<1>3. ss \in Seq(Seq(ToSet(M)))
  <2>1. PICK n \in Nat : DOMAIN M = 1 .. n
    OBVIOUS
  <2>2. ss = [k \in 1 .. n |-> ss[k]] /\ DOMAIN ss = 1 .. n
    BY <1>2, <2>1
  <2>3. \A k \in 1 .. n : ss[k] \in Seq(ToSet(M))
    BY <1>1, <2>1
  <2> QED BY ONLY <2>1, <2>2, <2>3, MadeSeq
<1> QED BY <1>1, <1>2, <1>3 DEF ApplyTags, TagRows, ss

(* Tags repeat rows of the metrics and leave out none.                     *)
LEMMA TagsKeep ==
  ASSUME NEW M, Descending(M), NEW dims, dims \in Seq(ToSet(dims))
  PROVE  /\ Descending(ApplyTags(M, dims))
         /\ \A k \in DOMAIN M : \E i \in DOMAIN ApplyTags(M, dims) : ApplyTags(M, dims)[i] = M[k]
         /\ \A i \in DOMAIN ApplyTags(M, dims) : \E k \in DOMAIN M : ApplyTags(M, dims)[i] = M[k]
<1> DEFINE ss == TagRows(M, dims)
           t == ApplyTags(M, dims)
<1>1. M \in Seq(ToSet(M)) /\ \A k \in DOMAIN M : Repeats(dims, M[k].sku) \in Nat \ {0}
  BY RepeatsType DEF Descending
<1>2. /\ ss \in Seq(Seq(ToSet(M))) /\ DOMAIN ss = DOMAIN M /\ t = FlattenSeq(ss)
      /\ \A k \in DOMAIN M : Len(ss[k]) \in Nat \ {0} /\ \A j \in DOMAIN ss[k] : ss[k][j] = M[k]
  BY <1>1, TagRowsType
<1> HIDE DEF ss, t
<1>3. Descending(t)
  <2>1. ss \in Seq(Seq(ToSet(FlattenSeq(ss))))
    BY <1>2, FlattenOwn
  <2> QED BY <1>2, <2>1, FlattenDescending
<1>4. PICK o, q : Flat(t, ss, Len(ss), o, q)
  BY <1>2, FlattenFlat
<1>5. DOMAIN ss = 1 .. Len(ss) /\ \A k \in DOMAIN M : 1 \in DOMAIN ss[k]
  BY <1>2
<1>6. ASSUME NEW k \in DOMAIN M PROVE \E i \in DOMAIN t : t[i] = M[k]
  <2>0. k \in 1 .. Len(ss) /\ 1 \in DOMAIN ss[k]
    BY <1>2, <1>5
  <2>1. PICK i \in DOMAIN t : o[i] = k /\ q[i] = 1
    BY <1>4, <2>0 DEF Flat
  <2>2. t[i] = ss[k][1]
    BY <1>4, <2>1 DEF Flat
  <2> QED BY <1>2, <1>5, <2>2
<1>7. ASSUME NEW i \in DOMAIN t PROVE \E k \in DOMAIN M : t[i] = M[k]
  <2>1. o[i] \in DOMAIN M /\ q[i] \in DOMAIN ss[o[i]] /\ t[i] = ss[o[i]][q[i]]
    BY <1>2, <1>4, <1>5 DEF Flat
  <2> QED BY <1>2, <2>1
<1> QED BY <1>3, <1>6, <1>7 DEF t
-----------------------------------------------------------------------------
(* The assignment.                                                         *)
SheetOK(s) == s.rows \in Seq(ToSet(s.rows))

(* What the assignment has to know of an export.                           *)
ExportOK(locs) ==
  /\ locs \in Seq(ToSet(locs))
  /\ \A l \in DOMAIN locs : Valid(locs[l].name) => locs[l].name[1] \in ToSet(AisleOrder) /\ locs[l].name[2] \in Int

(* Each row of the sheet is read to a row for its code.                    *)
LEMMA DimsType ==
  ASSUME NEW s, SheetOK(s)
  PROVE  /\ LoadDimensions(s) \in Seq(ToSet(LoadDimensions(s)))
         /\ DOMAIN LoadDimensions(s) = DOMAIN s.rows
         /\ \A k \in DOMAIN s.rows :
              /\ LoadDimensions(s)[k] = LoadRow(s.rows[k], s.cols)
              /\ LoadDimensions(s)[k].product_code = s.rows[k].code
              /\ LoadDimensions(s)[k].pallet_height_bucket \in (1 .. 3) \union {NaN}
<1> DEFINE d == LoadDimensions(s)
<1>1. PICK n \in Nat : DOMAIN s.rows = 1 .. n
  BY DEF SheetOK
<1>2. d = [k \in 1 .. n |-> LoadRow(s.rows[k], s.cols)]
  BY <1>1 DEF LoadDimensions
<1> HIDE DEF d
<1>3. d = [k \in 1 .. n |-> d[k]] /\ DOMAIN d = 1 .. n /\ \A k \in 1 .. n : d[k] = LoadRow(s.rows[k], s.cols) /\ d[k] \in ToSet(d)
  BY <1>2 DEF ToSet
<1>4. d \in Seq(ToSet(d))
  BY ONLY <1>1, <1>3, MadeSeq
<1>5. \A row, cols : /\ LoadRow(row, cols).product_code = row.code
                     /\ LoadRow(row, cols).pallet_height_bucket = ParseBucket(Cell(row, BucketCol(cols)))
  BY DEF LoadRow
<1>6. \A cell : ParseBucket(cell) \in (1 .. 3) \union {NaN}
  BY DEF ParseBucket
<1> QED BY <1>1, <1>3, <1>4, <1>5, <1>6 DEF d

(* What one row of metrics asks for.                                       *)
AskedRows(m, dims) == RowsAt(dims, {j \in DOMAIN dims : dims[j].product_code = m.sku /\ Wanted(dims[j])})

Asked(m, dims) ==
  [j \in DOMAIN AskedRows(m, dims) |->
     [sku |-> m.sku, units |-> m.units, bucket |-> AskedRows(m, dims)[j].pallet_height_bucket,
      name |-> m.name, tag |-> AskedRows(m, dims)[j].tag]]

(* The demand d is of the row of dims with number j.                       *)
AskedBy(d, dims, j) ==
  /\ dims[j].product_code = d.sku /\ Wanted(dims[j])
  /\ d.bucket = dims[j].pallet_height_bucket /\ d.tag = dims[j].tag

LEMMA AskedType ==
  ASSUME NEW m, NEW dims, dims \in Seq(ToSet(dims))
  PROVE  /\ Asked(m, dims) \in Seq(ToSet(Asked(m, dims)))
         /\ \A i \in DOMAIN Asked(m, dims) :
              /\ Asked(m, dims)[i].sku = m.sku /\ Asked(m, dims)[i].units = m.units
              /\ \E j \in DOMAIN dims : AskedBy(Asked(m, dims)[i], dims, j)
         /\ Len(Asked(m, dims)) = Len(AskedRows(m, dims))
<1> DEFINE K == {j \in DOMAIN dims : dims[j].product_code = m.sku /\ Wanted(dims[j])}
           rows == AskedRows(m, dims)
           a == Asked(m, dims)
<1>1. /\ RowsAt(dims, K) \in Seq(ToSet(dims))
      /\ \A i \in DOMAIN RowsAt(dims, K) : \E k \in DOMAIN dims : k \in K /\ RowsAt(dims, K)[i] = dims[k]
  <2> HIDE DEF K
  <2> QED BY RowsAtHas
<1>2. /\ rows \in Seq(ToSet(dims))
      /\ \A i \in DOMAIN rows : \E k \in DOMAIN dims : k \in K /\ rows[i] = dims[k]
  BY <1>1 DEF AskedRows
<1>3. PICK n \in Nat : DOMAIN rows = 1 .. n /\ Len(rows) = n
  BY <1>2
<1>4. a = [j \in 1 .. n |-> [sku |-> m.sku, units |-> m.units, bucket |-> rows[j].pallet_height_bucket,
                             name |-> m.name, tag |-> rows[j].tag]]
  BY <1>3 DEF Asked
<1> HIDE DEF a, rows
<1>5. /\ a = [j \in 1 .. n |-> a[j]] /\ DOMAIN a = 1 .. n
      /\ \A j \in 1 .. n : a[j].sku = m.sku /\ a[j].units = m.units /\ a[j].bucket = rows[j].pallet_height_bucket
                           /\ a[j].tag = rows[j].tag /\ a[j] \in ToSet(a)
  BY <1>4 DEF ToSet
<1>6. a \in Seq(ToSet(a)) /\ Len(a) = n
  BY ONLY <1>3, <1>5, MadeSeq
<1>7. ASSUME NEW i \in 1 .. n PROVE \E j \in DOMAIN dims : AskedBy(a[i], dims, j)
  <2>1. PICK k \in DOMAIN dims : k \in K /\ rows[i] = dims[k]
    BY <1>2, <1>3
  <2>2. dims[k].product_code = a[i].sku /\ Wanted(dims[k]) /\ a[i].bucket = dims[k].pallet_height_bucket
        /\ a[i].tag = dims[k].tag
    BY <1>5, <2>1
  <2> QED BY <2>2 DEF AskedBy
<1> QED BY <1>3, <1>5, <1>6, <1>7 DEF a, rows

(* The demand is what the metrics ask for, the fastest first.              *)
LEMMA DemandRows ==
  ASSUME NEW M, Descending(M), NEW dims, dims \in Seq(ToSet(dims))
  PROVE  /\ Descending(Demand(M, dims))
         /\ \A i \in DOMAIN Demand(M, dims) : \E j \in DOMAIN dims : AskedBy(Demand(M, dims)[i], dims, j)
         /\ \E o, q : Flat(Demand(M, dims), [k \in DOMAIN M |-> Asked(M[k], dims)], Len(M), o, q)
<1> DEFINE ss == [k \in DOMAIN M |-> Asked(M[k], dims)]
           D == Demand(M, dims)
           S == UNION {ToSet(ss[k]) : k \in DOMAIN M}
<1>1. D = FlattenSeq(ss)
  BY DEF Demand, Asked, AskedRows
<1>2. M \in Seq(ToSet(M))
  BY DEF Descending
<1>3. PICK n \in Nat : DOMAIN M = 1 .. n /\ Len(M) = n
  BY <1>2
<1>4. DOMAIN ss = 1 .. n /\ ss = [k \in 1 .. n |-> ss[k]] /\ \A k \in 1 .. n : ss[k] = Asked(M[k], dims)
  BY <1>3
<1> HIDE DEF ss, D
<1>5. ASSUME NEW k \in 1 .. n
      PROVE  /\ ss[k] \in Seq(S)
             /\ \A i \in DOMAIN ss[k] :
                  /\ ss[k][i].sku = M[k].sku /\ ss[k][i].units = M[k].units
                  /\ \E j \in DOMAIN dims : AskedBy(ss[k][i], dims, j)
  <2>1. /\ ss[k] \in Seq(ToSet(ss[k]))
        /\ \A i \in DOMAIN ss[k] :
             /\ ss[k][i].sku = M[k].sku /\ ss[k][i].units = M[k].units
             /\ \E j \in DOMAIN dims : AskedBy(ss[k][i], dims, j)
    BY <1>4, AskedType
  <2>2. ToSet(ss[k]) \subseteq S
    BY <1>3
  <2>3. ss[k] \in Seq(S)
    <3> HIDE DEF S
    <3> QED BY <2>1, <2>2
  <2> QED BY <2>1, <2>3
<1> HIDE DEF S
<1>6. ss \in Seq(Seq(S)) /\ Len(ss) = n
  BY ONLY <1>3, <1>4, <1>5, MadeSeq
<1>7. ss \in Seq(Seq(ToSet(D)))
  BY <1>1, <1>6, FlattenOwn
<1>8. Descending(D)
  <2>1. DOMAIN ss = DOMAIN M /\ ss \in Seq(Seq(ToSet(FlattenSeq(ss))))
    BY <1>1, <1>3, <1>4, <1>7
  <2>2. \A k \in DOMAIN M : \A j \in DOMAIN ss[k] : ss[k][j].sku = M[k].sku /\ ss[k][j].units = M[k].units
    BY <1>3, <1>5
  <2> QED BY <1>1, <2>1, <2>2, FlattenDescending
<1>9. PICK o, q : Flat(D, ss, n, o, q)
  BY <1>1, <1>6, FlattenFlat
<1>10. ASSUME NEW i \in DOMAIN D PROVE \E j \in DOMAIN dims : AskedBy(D[i], dims, j)
  <2>1. o[i] \in 1 .. n /\ q[i] \in DOMAIN ss[o[i]] /\ D[i] = ss[o[i]][q[i]]
    BY <1>9 DEF Flat
  <2> QED BY <1>5, <2>1
<1>11. \E p, r : Flat(D, ss, Len(M), p, r)
  BY <1>3, <1>9
<1> QED BY <1>8, <1>10, <1>11 DEF D, ss

(* The faces of a type and position are those that suit.                   *)
LEMMA FacesSuit ==
  ASSUME NEW locs, NEW l \in DOMAIN locs, NEW type, NEW b \in 1 .. 3
  PROVE  l \in Faces(LoadCCLocations(locs), <<type, b>>) <=> Suits(locs[l], <<type, b>>)
<1> DEFINE loc == locs[l]
           name == loc.name
           place == LoadCCLocations(locs)[l]
<1>1. place = LoadLocation(loc) /\ DOMAIN LoadCCLocations(locs) = DOMAIN locs
  BY DEF LoadCCLocations
<1>2. /\ place.product_type = loc.product_type /\ place.is_pick_face = IsPickFace(loc)
      /\ place.position = IF IsPickFace(loc) THEN GrammarPosition(name) ELSE NaN
  BY <1>1 DEF LoadLocation
<1>3. NaN \notin Int
  BY NotANumber
<1>4. l \in Faces(LoadCCLocations(locs), <<type, b>>)
        <=> IsPickFace(loc) /\ GrammarPosition(name) = b /\ loc.product_type = type
  BY <1>1, <1>2, <1>3 DEF Faces, Supply, FaceKey
<1>5. GrammarPosition(name) = b <=>
        \/ Len(name) = 3 /\ name[3] = b /\ b \in {1, 2}
        \/ Len(name) = 4 /\ name[3] = 1 /\ name[4] = b /\ b \in {1, 2}
  BY <1>3 DEF GrammarPosition, Valid, IsSplitBay
<1>6. Len(name) \in {3, 4} => (Demoted(name) <=> name[1] = "DO" /\ name[3] # 1)
  BY DEF Demoted, Valid, PickLevelOverrides
<1>7. IsPickFace(loc) <=> loc.efficiency # NaN /\ loc.efficiency >= 21 /\ ~Demoted(name)
  BY DEF IsPickFace, MinPickFaceEfficiency
<1>8. b \in {1, 2} <=> b < 3
  OBVIOUS
<1>9. <<type, b>>[1] = type /\ <<type, b>>[2] = b
  OBVIOUS
<1>10. Suits(loc, <<type, b>>) <=>
         /\ loc.efficiency # NaN /\ loc.efficiency >= 21
         /\ loc.product_type = type
         /\ \/ Len(name) = 3 /\ name[3] = b /\ b < 3
            \/ Len(name) = 4 /\ name[3] = 1 /\ name[4] = b /\ b < 3
         /\ name[1] = "DO" => name[3] = 1
  BY <1>9 DEF Suits
<1> HIDE DEF name, loc, place
<1> QED BY <1>4, <1>5, <1>6, <1>7, <1>8, <1>10 DEF loc

(* A pool has every face of its kind once.                                 *)
LEMMA PoolFaces ==
  ASSUME NEW locs, ExportOK(locs), NEW key
  PROVE  /\ IsFiniteSet(Faces(LoadCCLocations(locs), key))
         /\ Faces(LoadCCLocations(locs), key) \subseteq DOMAIN locs
         /\ DOMAIN locs \subseteq Int
         /\ Pool(LoadCCLocations(locs), key) \in Seq(Faces(LoadCCLocations(locs), key))
         /\ \A l \in Faces(LoadCCLocations(locs), key) :
              \E i \in DOMAIN Pool(LoadCCLocations(locs), key) : Pool(LoadCCLocations(locs), key)[i] = l
         /\ \A i, j \in DOMAIN Pool(LoadCCLocations(locs), key) :
              Pool(LoadCCLocations(locs), key)[i] = Pool(LoadCCLocations(locs), key)[j] => i = j
<1> DEFINE L == LoadCCLocations(locs)
           F == Faces(L, key)
           before == {p \in F \X F : FromTheFront(L, p[1], p[2])}
           pool == Sorted(F, before)
<1>1. DOMAIN L = DOMAIN locs /\ IsFiniteSet(DOMAIN locs) /\ DOMAIN locs \subseteq Int
  BY OwnSeq DEF LoadCCLocations, ExportOK
<1>2. F \in SUBSET DOMAIN locs
  BY <1>1 DEF Faces, Supply
<1>3. IsFiniteSet(F)
  BY <1>1, <1>2, FS_Subset
<1>4. ASSUME NEW l \in F PROVE Aisle(L[l].name) \in Int /\ L[l].name[2] \in Int
  <2>1. l \in DOMAIN locs /\ L[l].position # NaN /\ L[l] = LoadLocation(locs[l])
    BY <1>1, <1>2 DEF Faces, Supply, LoadCCLocations
  <2>2. L[l].name = locs[l].name /\ GrammarPosition(locs[l].name) # NaN
    BY <2>1 DEF LoadLocation
  <2>3. Valid(locs[l].name)
    BY <2>2 DEF GrammarPosition
  <2>4. L[l].name[1] \in ToSet(AisleOrder) /\ L[l].name[2] \in Int
    BY <2>1, <2>2, <2>3 DEF ExportOK
  <2>5. DOMAIN AisleOrder \subseteq Int
    BY AislesAssumption
  <2>6. Aisle(L[l].name) \in DOMAIN AisleOrder
    BY <2>4 DEF Aisle, ToSet
  <2> QED BY <2>4, <2>5, <2>6
<1>5. \A l \in F : l \in Int
  BY <1>1, <1>2
<1> HIDE DEF F, L
<1>6. \A l, m \in F : <<l, m>> \in before <=> FromTheFront(L, l, m)
  OBVIOUS
<1>7. StrictOrder(F, before)
  <2> HIDE DEF before
  <2>1. \A l \in F : ~FromTheFront(L, l, l)
    BY <1>4, <1>5 DEF FromTheFront
  <2>2. ASSUME NEW x \in F, NEW y \in F, NEW z \in F, FromTheFront(L, x, y), FromTheFront(L, y, z)
        PROVE  FromTheFront(L, x, z)
    BY <1>4, <1>5, <2>2 DEF FromTheFront
  <2>3. ASSUME NEW x \in F, NEW y \in F, x # y PROVE FromTheFront(L, x, y) \/ FromTheFront(L, y, x)
    BY <1>4, <1>5, <2>3 DEF FromTheFront
  <2> QED BY <1>6, <2>1, <2>2, <2>3 DEF StrictOrder
<1>8. /\ pool \in Seq(F) /\ \A l \in F : \E i \in DOMAIN pool : pool[i] = l
      /\ \A i, j \in DOMAIN pool : i < j => <<pool[i], pool[j]>> \in before
  <2> HIDE DEF before
  <2> QED BY <1>3, <1>7, SortedOrder
<1> HIDE DEF before, pool
<1>9. ASSUME NEW i \in DOMAIN pool, NEW j \in DOMAIN pool, pool[i] = pool[j] PROVE i = j
  <2>1. i \in Int /\ j \in Int /\ pool[i] \in F
    BY <1>8
  <2>2. <<pool[i], pool[i]>> \notin before
    BY <1>7, <2>1 DEF StrictOrder
  <2>3. ~(i < j)
    <3> SUFFICES ASSUME i < j PROVE <<pool[i], pool[j]>> \in before
      BY <1>9, <2>2
    <3> QED BY <1>8
  <2>4. ~(j < i)
    <3> SUFFICES ASSUME j < i PROVE <<pool[j], pool[i]>> \in before
      BY <1>9, <2>2
    <3> QED BY <1>8
  <2> QED BY <2>1, <2>3, <2>4
<1>10. Pool(L, key) = pool
  BY DEF Pool, pool, before, F
<1> QED BY <1>1, <1>2, <1>3, <1>8, <1>9, <1>10 DEF L, F
-----------------------------------------------------------------------------
WithKey(D, key) == {j \in DOMAIN D : Key(D[j]) = key}

(* The rank among those of the same key.                                   *)
LEMMA RankInGroup ==
  ASSUME NEW S, NEW D \in Seq(S), NEW k \in DOMAIN D
  PROVE  Rank(D, k) = Cardinality({y \in WithKey(D, Key(D[k])) : y <= k})
<1>1. {j \in 1 .. k : Key(D[j]) = Key(D[k])} = {y \in WithKey(D, Key(D[k])) : y <= k}
  <2>1. PICK n \in Nat : DOMAIN D = 1 .. n
    OBVIOUS
  <2>2. k \in 1 .. n
    BY <2>1
  <2>3. \A j : j \in 1 .. k <=> j \in 1 .. n /\ j <= k
    BY <2>2
  <2> QED BY <2>1, <2>3 DEF WithKey
<1> QED BY <1>1 DEF Rank

(* Who gets which face.                                                    *)
Placing(D, L) ==
  /\ \A k \in DOMAIN D : Taken(D, L, k) = NaN \/ Taken(D, L, k) \in Faces(L, Key(D[k]))
  /\ \A i, j \in DOMAIN D : Taken(D, L, i) # NaN /\ Taken(D, L, i) = Taken(D, L, j) => i = j
  /\ \A k \in DOMAIN D : Taken(D, L, k) = NaN =>
       \A l \in Faces(L, Key(D[k])) : \E j \in DOMAIN D : j < k /\ Taken(D, L, j) = l

(* By rank: the n-th of a key takes the n-th face of the pool.             *)
LEMMA PlacingHolds ==
  ASSUME NEW S, NEW D \in Seq(S), NEW locs, ExportOK(locs)
  PROVE  Placing(D, LoadCCLocations(locs))
<1> DEFINE L == LoadCCLocations(locs)
           pool(k) == Pool(L, Key(D[k]))
           F(k) == Faces(L, Key(D[k]))
           G(k) == WithKey(D, Key(D[k]))
           taken(k) == Taken(D, L, k)
<1>1. DOMAIN D = 1 .. Len(D) /\ Len(D) \in Nat /\ IsFiniteSet(DOMAIN D)
  BY OwnSeq
<1>2. ASSUME NEW k \in DOMAIN D
      PROVE  /\ pool(k) \in Seq(F(k)) /\ F(k) \subseteq Int /\ NaN \notin F(k)
             /\ \A l \in F(k) : \E i \in DOMAIN pool(k) : pool(k)[i] = l
             /\ \A i, j \in DOMAIN pool(k) : pool(k)[i] = pool(k)[j] => i = j
             /\ DOMAIN pool(k) = 1 .. Len(pool(k)) /\ Len(pool(k)) \in Nat
  <2>1. /\ pool(k) \in Seq(F(k)) /\ F(k) \subseteq Int
        /\ \A l \in F(k) : \E i \in DOMAIN pool(k) : pool(k)[i] = l
        /\ \A i, j \in DOMAIN pool(k) : pool(k)[i] = pool(k)[j] => i = j
    BY PoolFaces
  <2> HIDE DEF pool, F
  <2> QED BY <2>1, NotANumber
<1>3. ASSUME NEW k \in DOMAIN D
      PROVE  /\ k \in G(k) /\ G(k) \subseteq DOMAIN D
             /\ \A j \in G(k) : Key(D[j]) = Key(D[k]) /\ Rank(D, j) = Cardinality({y \in G(k) : y <= j})
             /\ \A j \in G(k) : Rank(D, j) \in 1 .. Cardinality(G(k))
             /\ \A i, j \in G(k) : Rank(D, i) = Rank(D, j) => i = j
             /\ \A i, j \in G(k) : i < j => Rank(D, i) < Rank(D, j)
             /\ \A n \in 1 .. Cardinality(G(k)) : \E j \in G(k) : Rank(D, j) = n
             /\ Cardinality(G(k)) \in Nat
  <2>1. k \in G(k) /\ G(k) \subseteq DOMAIN D /\ \A j \in G(k) : Key(D[j]) = Key(D[k])
    BY DEF WithKey
  <2>2. \A j \in G(k) : Rank(D, j) = Cardinality({y \in G(k) : y <= j})
    <3> SUFFICES ASSUME NEW j \in G(k) PROVE Rank(D, j) = Cardinality({y \in G(k) : y <= j})
      OBVIOUS
    <3>1. j \in DOMAIN D /\ Key(D[j]) = Key(D[k])
      BY <2>1
    <3>2. Rank(D, j) = Cardinality({y \in WithKey(D, Key(D[j])) : y <= j})
      BY <3>1, RankInGroup
    <3> QED BY <3>1, <3>2
  <2> DEFINE H == G(k)
  <2>3. H \in SUBSET Nat /\ IsFiniteSet(H)
    BY <1>1, <2>1, FS_Subset
  <2>4. /\ Cardinality(H) \in Nat
        /\ \A x \in H : Cardinality({y \in H : y <= x}) \in 1 .. Cardinality(H)
        /\ \A x, y \in H : Cardinality({z \in H : z <= x}) = Cardinality({z \in H : z <= y}) => x = y
        /\ \A x, y \in H : x < y => Cardinality({z \in H : z <= x}) < Cardinality({z \in H : z <= y})
        /\ \A n \in 1 .. Cardinality(H) : \E x \in H : Cardinality({y \in H : y <= x}) = n
    <3> HIDE DEF H
    <3> QED BY <2>3, RankOf
  <2>5. \A j \in H : Rank(D, j) = Cardinality({y \in H : y <= j})
    BY <2>2
  <2> HIDE DEF H
  <2>6. /\ \A j \in H : Rank(D, j) \in 1 .. Cardinality(H)
        /\ \A i, j \in H : Rank(D, i) = Rank(D, j) => i = j
        /\ \A i, j \in H : i < j => Rank(D, i) < Rank(D, j)
        /\ \A n \in 1 .. Cardinality(H) : \E j \in H : Rank(D, j) = n
    BY <2>4, <2>5
  <2> QED BY <2>1, <2>2, <2>4, <2>6 DEF H
<1>4. \A k \in DOMAIN D : taken(k) = IF Rank(D, k) <= Len(pool(k)) THEN pool(k)[Rank(D, k)] ELSE NaN
  BY DEF Taken
<1>5. \A i, j \in DOMAIN D : Key(D[i]) = Key(D[j]) => pool(i) = pool(j) /\ F(i) = F(j) /\ G(i) = G(j)
  OBVIOUS
<1>6. \A i, j \in DOMAIN D : \A l : l \in F(i) /\ l \in F(j) => Key(D[i]) = Key(D[j])
  BY DEF Faces
<1> HIDE DEF pool, F, G, taken
<1>7. ASSUME NEW k \in DOMAIN D
      PROVE  /\ taken(k) # NaN => Rank(D, k) \in DOMAIN pool(k) /\ taken(k) = pool(k)[Rank(D, k)] /\ taken(k) \in F(k)
             /\ taken(k) = NaN => Rank(D, k) > Len(pool(k))
             /\ Rank(D, k) \in Nat
  <2>1. Rank(D, k) \in Nat /\ Rank(D, k) >= 1
    BY <1>3
  <2>2. CASE Rank(D, k) <= Len(pool(k))
    <3>1. Rank(D, k) \in DOMAIN pool(k)
      BY <1>2, <2>1, <2>2
    <3>2. pool(k)[Rank(D, k)] \in F(k)
      BY <1>2, <3>1
    <3> QED BY <1>2, <1>4, <2>1, <2>2, <3>1, <3>2
  <2>3. CASE ~(Rank(D, k) <= Len(pool(k)))
    <3>1. taken(k) = NaN /\ Rank(D, k) > Len(pool(k))
      BY <1>2, <1>4, <2>1, <2>3
    <3> QED BY <2>1, <3>1
  <2> QED BY <2>2, <2>3
<1>8. ASSUME NEW i \in DOMAIN D, NEW j \in DOMAIN D, taken(i) # NaN, taken(i) = taken(j) PROVE i = j
  <2>1. taken(i) \in F(i) /\ taken(j) \in F(j)
    BY <1>7, <1>8
  <2>2. Key(D[i]) = Key(D[j])
    BY <1>6, <1>8, <2>1
  <2>3. pool(i) = pool(j) /\ G(i) = G(j)
    BY <1>5, <2>2
  <2>4. Rank(D, i) = Rank(D, j)
    BY <1>2, <1>7, <1>8, <2>3
  <2>5. i \in G(i) /\ j \in G(i)
    BY <1>3, <2>3
  <2> QED BY <1>3, <2>4, <2>5
<1>9. ASSUME NEW k \in DOMAIN D, taken(k) = NaN, NEW l \in F(k)
      PROVE  \E j \in DOMAIN D : j < k /\ taken(j) = l
  <2>1. PICK n \in DOMAIN pool(k) : pool(k)[n] = l
    BY <1>2
  <2>2. n \in Nat /\ 1 <= n /\ n <= Len(pool(k)) /\ Len(pool(k)) \in Nat
    BY <1>2, <2>1
  <2>3. Len(pool(k)) < Rank(D, k) /\ Rank(D, k) \in Nat
    BY <1>7, <1>9, <2>2
  <2>4. Rank(D, k) <= Cardinality(G(k)) /\ Cardinality(G(k)) \in Nat
    BY <1>3
  <2>5. n \in 1 .. Cardinality(G(k)) /\ n < Rank(D, k)
    BY <2>2, <2>3, <2>4
  <2>6. PICK j \in G(k) : Rank(D, j) = n
    BY <1>3, <2>5
  <2>7. j \in DOMAIN D /\ Key(D[j]) = Key(D[k]) /\ j \in Int /\ k \in Int
    <3>1. j \in DOMAIN D /\ Key(D[j]) = Key(D[k])
      BY <1>3
    <3>2. DOMAIN D \subseteq Int
      BY <1>1
    <3> QED BY <3>1, <3>2
  <2>8. ~(k < j) /\ k # j
    <3>1. k \in G(k) /\ Rank(D, j) < Rank(D, k) /\ Rank(D, j) \in Nat /\ Rank(D, k) \in Nat
      BY <1>3, <2>2, <2>3, <2>5, <2>6
    <3>2. k # j
      BY <3>1
    <3>3. k < j => Rank(D, k) < Rank(D, j)
      BY <1>3, <3>1
    <3> QED BY <3>1, <3>2, <3>3
  <2>9. taken(j) = l
    <3>1. pool(j) = pool(k)
      BY <1>5, <2>7
    <3> QED BY <1>4, <2>1, <2>2, <2>6, <2>7, <3>1
  <2> QED BY <2>7, <2>8, <2>9
<1> QED BY <1>7, <1>8, <1>9 DEF Placing, taken, F

(* What Placement makes of the demand.                                     *)
LEMMA PlacementRows ==
  ASSUME NEW S, NEW D \in Seq(S), NEW L
  PROVE  /\ Placement(D, L) \in Seq(ToSet(Placement(D, L))) /\ DOMAIN Placement(D, L) = DOMAIN D
         /\ \A k \in DOMAIN D :
              /\ Placement(D, L)[k].sku = D[k].sku /\ Placement(D, L)[k].units = D[k].units
              /\ Placement(D, L)[k].key = Key(D[k]) /\ Placement(D, L)[k].face = Taken(D, L, k)
<1> DEFINE P == Placement(D, L)
<1>1. PICK n \in Nat : DOMAIN D = 1 .. n
  OBVIOUS
<1>2. P = [k \in 1 .. n |-> [sku |-> D[k].sku, units |-> D[k].units, key |-> Key(D[k]), face |-> Taken(D, L, k)]]
  BY <1>1 DEF Placement
<1> HIDE DEF P
<1>3. /\ P = [k \in 1 .. n |-> P[k]] /\ DOMAIN P = 1 .. n
      /\ \A k \in 1 .. n : /\ P[k].sku = D[k].sku /\ P[k].units = D[k].units
                           /\ P[k].key = Key(D[k]) /\ P[k].face = Taken(D, L, k) /\ P[k] \in ToSet(P)
  BY <1>2 DEF ToSet
<1>4. P \in Seq(ToSet(P))
  BY ONLY <1>1, <1>3, MadeSeq
<1> QED BY <1>1, <1>3, <1>4 DEF P

WithFace(P) == {k \in DOMAIN P : P[k].face # NaN}
WithoutFace(P) == {k \in DOMAIN P : P[k].face = NaN}

(* The rows that were placed and those that were not.                      *)
LEMMA Divided ==
  ASSUME NEW P, P \in Seq(ToSet(P))
  PROVE  /\ RowsAt(P, WithFace(P)) \in Seq(ToSet(P)) /\ RowsAt(P, WithoutFace(P)) \in Seq(ToSet(P))
         /\ \E b : Picks(RowsAt(P, WithFace(P)), P, WithFace(P), b)
         /\ \E b : Picks(RowsAt(P, WithoutFace(P)), P, WithoutFace(P), b)
  BY RowsAtPicks

(* The key of what is asked for has a position.                            *)
LEMMA KeyType ==
  ASSUME NEW s, SheetOK(s), NEW d, NEW j \in DOMAIN LoadDimensions(s), AskedBy(d, LoadDimensions(s), j)
  PROVE  \E type : \E b \in 1 .. 3 : Key(d) = <<type, b>>
<1>1. LoadDimensions(s)[j].pallet_height_bucket \in 1 .. 3
  BY DimsType DEF AskedBy, Wanted
<1> QED BY <1>1 DEF AskedBy, Key

(* Wants, of any sheet.                                                    *)
WantedAs(s, sku, key) ==
  \E k \in DOMAIN s.rows :
    LET row == LoadRow(s.rows[k], s.cols)
    IN  /\ row.product_code = sku /\ row.measurement_complete
        /\ row.pallet_height_bucket = key[2] /\ key[2] # NaN
        /\ row.tag \in ProductTypes => key[1] = row.tag

LEMMA AskedWants ==
  ASSUME NEW s, SheetOK(s), NEW d, NEW j \in DOMAIN LoadDimensions(s), AskedBy(d, LoadDimensions(s), j)
  PROVE  WantedAs(s, d.sku, Key(d))
<1> DEFINE row == LoadRow(s.rows[j], s.cols)
<1>1. j \in DOMAIN s.rows /\ LoadDimensions(s)[j] = row
  BY DimsType
<1> HIDE DEF row
<1>2. /\ row.product_code = d.sku /\ row.measurement_complete /\ row.pallet_height_bucket # NaN
      /\ d.bucket = row.pallet_height_bucket /\ d.tag = row.tag
  BY <1>1 DEF AskedBy, Wanted
<1>3. Key(d)[2] = d.bucket /\ (d.tag \in ProductTypes => Key(d)[1] = d.tag)
  BY DEF Key, InferProductType
<1> QED BY <1>1, <1>2, <1>3 DEF WantedAs, row

(* All that PlacedRight says of what the assignment returns.               *)
Right(placed, refused, s, locs) ==
  /\ \A i, j \in DOMAIN placed : placed[i].face = placed[j].face => i = j
  /\ \A i \in DOMAIN placed :
       /\ WantedAs(s, placed[i].sku, placed[i].key)
       /\ placed[i].face \in DOMAIN locs /\ Suits(locs[placed[i].face], placed[i].key)
  /\ \A i \in DOMAIN refused :
       /\ WantedAs(s, refused[i].sku, refused[i].key)
       /\ \A l \in DOMAIN locs : Suits(locs[l], refused[i].key) =>
            \E j \in DOMAIN placed : placed[j].face = l /\ NoSlower(placed[j], refused[i])

(* The greedy assignment is right, for any sheet and any export.           *)
LEMMA AssignmentRight ==
  ASSUME NEW M, Descending(M), NEW s, SheetOK(s), NEW locs, ExportOK(locs)
  PROVE  LET result == AssignSkusToLocations(M, LoadDimensions(s), LoadCCLocations(locs))
         IN  Right(result.assignments, result.unassigned, s, locs)
<1> DEFINE dims == LoadDimensions(s)
           L == LoadCCLocations(locs)
           D == Demand(M, dims)
           P == Placement(D, L)
           placed == RowsAt(P, WithFace(P))
           refused == RowsAt(P, WithoutFace(P))
           result == AssignSkusToLocations(M, dims, L)
<1>1. result.assignments = placed /\ result.unassigned = refused
  BY DEF AssignSkusToLocations, WithFace, WithoutFace
<1>2. /\ dims \in Seq(ToSet(dims)) /\ DOMAIN dims = DOMAIN s.rows
      /\ \A k \in DOMAIN dims : dims[k] = LoadRow(s.rows[k], s.cols)
  BY DimsType
<1>3. /\ Descending(D) /\ \A i \in DOMAIN D : \E j \in DOMAIN dims : AskedBy(D[i], dims, j)
  BY <1>2, DemandRows
<1>4. D \in Seq(ToSet(D))
  BY <1>3 DEF Descending
<1>5. Placing(D, L)
  BY <1>4, PlacingHolds
<1>6. /\ P \in Seq(ToSet(P)) /\ DOMAIN P = DOMAIN D
      /\ \A k \in DOMAIN D : /\ P[k].sku = D[k].sku /\ P[k].units = D[k].units
                             /\ P[k].key = Key(D[k]) /\ P[k].face = Taken(D, L, k)
  BY <1>4, PlacementRows
<1>7. \A k \in DOMAIN D : \A l \in DOMAIN locs : l \in Faces(L, Key(D[k])) <=> Suits(locs[l], Key(D[k]))
  <2> SUFFICES ASSUME NEW k \in DOMAIN D, NEW l \in DOMAIN locs
               PROVE  l \in Faces(L, Key(D[k])) <=> Suits(locs[l], Key(D[k]))
    OBVIOUS
  <2>1. \E type : \E b \in 1 .. 3 : Key(D[k]) = <<type, b>>
    BY <1>3, KeyType
  <2> HIDE DEF D, L
  <2> QED BY <2>1, FacesSuit DEF L
<1>0. \A k \in DOMAIN D : WantedAs(s, D[k].sku, Key(D[k]))
  BY <1>3, AskedWants
<1>8. \A k \in DOMAIN D : Faces(L, Key(D[k])) \subseteq DOMAIN locs
  BY PoolFaces
<1> HIDE DEF P, D, L, dims
<1>9. PICK b : Picks(placed, P, WithFace(P), b)
  BY <1>6, Divided
<1>10. PICK c : Picks(refused, P, WithoutFace(P), c)
  BY <1>6, Divided
<1>11. placed \in Seq(ToSet(P)) /\ DOMAIN P \subseteq Int
  BY <1>6, Divided, OwnSeq
<1> HIDE DEF placed, refused
<1>12. \A i \in DOMAIN placed : /\ b[i] \in DOMAIN D /\ P[b[i]].face # NaN /\ placed[i] = P[b[i]]
  BY <1>6, <1>9 DEF Picks, WithFace
<1>13. \A i \in DOMAIN refused : /\ c[i] \in DOMAIN D /\ P[c[i]].face = NaN /\ refused[i] = P[c[i]]
  BY <1>6, <1>10 DEF Picks, WithoutFace
<1>14. \A k \in DOMAIN D : P[k].face # NaN => \E i \in DOMAIN placed : placed[i] = P[k]
  BY <1>6, <1>9 DEF Picks, WithFace
<1>15. ASSUME NEW i \in DOMAIN placed, NEW j \in DOMAIN placed, placed[i].face = placed[j].face PROVE i = j
  <2>1. b[i] = b[j]
    BY <1>5, <1>6, <1>12, <1>15 DEF Placing
  <2> QED BY <1>9, <1>11, <2>1, PicksOne
<1>16. ASSUME NEW i \in DOMAIN placed
       PROVE  /\ WantedAs(s, placed[i].sku, placed[i].key)
              /\ placed[i].face \in DOMAIN locs /\ Suits(locs[placed[i].face], placed[i].key)
  <2>1. b[i] \in DOMAIN D /\ placed[i].face = Taken(D, L, b[i]) /\ placed[i].key = Key(D[b[i]])
        /\ placed[i].sku = D[b[i]].sku /\ placed[i].face # NaN
    BY <1>6, <1>12
  <2>2. placed[i].face \in Faces(L, Key(D[b[i]]))
    BY <1>5, <2>1 DEF Placing
  <2>3. placed[i].face \in DOMAIN locs /\ Suits(locs[placed[i].face], placed[i].key)
    BY <1>7, <1>8, <2>1, <2>2
  <2>4. WantedAs(s, placed[i].sku, placed[i].key)
    BY <1>0, <2>1
  <2> QED BY <2>3, <2>4
<1>17. ASSUME NEW i \in DOMAIN refused, NEW l \in DOMAIN locs, Suits(locs[l], refused[i].key)
       PROVE  \E j \in DOMAIN placed : placed[j].face = l /\ NoSlower(placed[j], refused[i])
  <2>1. c[i] \in DOMAIN D /\ Taken(D, L, c[i]) = NaN /\ refused[i].key = Key(D[c[i]])
        /\ refused[i].units = D[c[i]].units
    BY <1>6, <1>13
  <2>2. l \in Faces(L, Key(D[c[i]]))
    BY <1>7, <1>17, <2>1
  <2>3. PICK k \in DOMAIN D : k < c[i] /\ Taken(D, L, k) = l
    BY <1>5, <2>1, <2>2 DEF Placing
  <2>4. P[k].face = l /\ l # NaN
    <3>1. l \in Int
      BY <1>8, <2>1, <2>2, PoolFaces
    <3> QED BY <1>6, <2>3, <3>1, NotANumber
  <2>5. PICK j \in DOMAIN placed : placed[j] = P[k]
    BY <1>14, <2>4
  <2>6. NoSlower(D[k], D[c[i]])
    <3>1. k \in Int /\ c[i] \in Int
      BY <1>6, <1>11, <2>1
    <3>2. k <= c[i]
      BY <2>3, <3>1
    <3> QED BY <1>3, <2>1, <3>2 DEF Descending
  <2>7. placed[j].units = D[k].units
    BY <1>6, <2>5
  <2> QED BY <2>1, <2>4, <2>5, <2>6, <2>7 DEF NoSlower
<1>18. ASSUME NEW i \in DOMAIN refused PROVE WantedAs(s, refused[i].sku, refused[i].key)
  <2>1. c[i] \in DOMAIN D /\ refused[i].sku = D[c[i]].sku /\ refused[i].key = Key(D[c[i]])
    BY <1>6, <1>13
  <2> QED BY <1>0, <2>1
<1>19. Right(placed, refused, s, locs)
  BY <1>15, <1>16, <1>17, <1>18 DEF Right
<1> QED BY <1>1, <1>19 DEF dims, L
-----------------------------------------------------------------------------
(* The rows of the files.                                                  *)
OutLine == [order : Nat, sku : Codes \union {NaN}, name : {NaN} \union STRING, qty : Int \union {NaN}]

(* Of the items of orders and of receipts, a table.                        *)
LEMMA OutboundTable ==
  ASSUME NEW orders \in Seq([id : Nat, items : Seq(OrderItems)])
  PROVE  Table(FlattenOutbound(orders))
<1> DEFINE line(k, i) == [order |-> orders[k].id, sku |-> orders[k].items[i].sku,
                          name |-> orders[k].items[i].name, qty |-> orders[k].items[i].qty]
           ss == [k \in DOMAIN orders |-> [i \in DOMAIN orders[k].items |-> line(k, i)]]
           t == FlattenSeq(ss)
<1>1. PICK n \in Nat : DOMAIN orders = 1 .. n
  OBVIOUS
<1>2. ASSUME NEW k \in 1 .. n PROVE orders[k].id \in Nat /\ orders[k].items \in Seq(OrderItems)
  <2> DEFINE T == [id : Nat, items : Seq(OrderItems)]
  <2>3. orders \in Seq(T)
    OBVIOUS
  <2>4. orders[k] \in T
    <3> HIDE DEF T, ss
    <3> QED BY <1>1, <2>3
  <2>1. orders[k] \in [id : Nat, items : Seq(OrderItems)]
    BY <2>4
  <2> QED BY <2>1
<1>3. ASSUME NEW k \in 1 .. n PROVE ss[k] \in Seq(OutLine)
  <2>1. PICK m \in Nat : DOMAIN orders[k].items = 1 .. m
    BY <1>2
  <2>2. ss[k] = [i \in 1 .. m |-> line(k, i)]
    BY <1>1, <2>1
  <2>3. ASSUME NEW i \in 1 .. m PROVE line(k, i) \in OutLine
    <3>1. orders[k].items[i] \in OrderItems /\ orders[k].id \in Nat
      BY <1>2, <2>1
    <3> QED BY <3>1 DEF OrderItems, OutLine
  <2> DEFINE s == ss[k]
  <2> HIDE DEF ss, line
  <2>4. s = [i \in 1 .. m |-> s[i]] /\ DOMAIN s = 1 .. m /\ \A i \in 1 .. m : s[i] = line(k, i)
    BY <2>2
  <2> HIDE DEF s
  <2>5. s \in Seq(OutLine)
    BY ONLY <2>1, <2>3, <2>4, MadeSeq
  <2> QED BY <2>5 DEF s
<1>4. ss = [k \in 1 .. n |-> ss[k]] /\ DOMAIN ss = 1 .. n
  BY <1>1
<1>5. FlattenOutbound(orders) = t
  BY DEF FlattenOutbound
<1> HIDE DEF ss
<1>6. ss \in Seq(Seq(OutLine))
  BY ONLY <1>1, <1>3, <1>4, MadeSeq
<1>7. t \in Seq(OutLine)
  BY <1>6, FlattenFlat
<1> HIDE DEF t
<1>8. t \in Seq(ToSet(t)) /\ \A k \in DOMAIN t : t[k] \in OutLine
  <2>1. t \in Seq(ToSet(t))
    BY <1>7, OwnSeq
  <2> QED BY <1>7, <2>1
<1>9. \A l \in OutLine : Line(l)
  BY DEF OutLine, Line
<1> QED BY <1>5, <1>8, <1>9 DEF Table

LEMMA InboundTable ==
  ASSUME NEW orders \in Seq([items : Seq(GoodItems)])
  PROVE  Table(FlattenInbound(orders))
<1> DEFINE ss == [k \in DOMAIN orders |-> orders[k].items]
           t == FlattenSeq(ss)
<1>1. PICK n \in Nat : DOMAIN orders = 1 .. n
  OBVIOUS
<1>2. ASSUME NEW k \in 1 .. n PROVE ss[k] \in Seq(GoodItems)
  <2> DEFINE T == [items : Seq(GoodItems)]
  <2>3. orders \in Seq(T)
    OBVIOUS
  <2>4. orders[k] \in T
    <3> HIDE DEF T, ss
    <3> QED BY <1>1, <2>3
  <2>1. orders[k] \in [items : Seq(GoodItems)]
    BY <2>4
  <2>2. ss[k] = orders[k].items
    BY <1>1
  <2> QED BY <2>1, <2>2
<1>4. ss = [k \in 1 .. n |-> ss[k]] /\ DOMAIN ss = 1 .. n
  BY <1>1
<1>5. FlattenInbound(orders) = t
  BY DEF FlattenInbound
<1> HIDE DEF ss
<1>6. ss \in Seq(Seq(GoodItems))
  BY ONLY <1>1, <1>2, <1>4, MadeSeq
<1>7. t \in Seq(GoodItems)
  BY <1>6, FlattenFlat
<1> HIDE DEF t
<1>8. t \in Seq(ToSet(t)) /\ \A k \in DOMAIN t : t[k] \in GoodItems
  <2>1. t \in Seq(ToSet(t))
    BY <1>7, OwnSeq
  <2> QED BY <1>7, <2>1
<1>9. \A l \in GoodItems : Line(l)
  BY DEF GoodItems, Line
<1> QED BY <1>5, <1>8, <1>9 DEF Table

LEMMA RowsTables ==
  ASSUME NEW era \in DOMAIN Eras
  PROVE  Table(Rows(1, era)) /\ Table(Rows(2, era))
<1>1. Eras \in Seq(ToSet(Eras)) /\ Eras[era] \in ToSet(Eras)
  BY ErasAssumption DEF ToSet
<1>2. era # 0
  BY <1>1
<1>3. Rows(1, era) = FlattenOutbound(Eras[era].outbound) /\ Rows(2, era) = FlattenInbound(Eras[era].inbound)
  BY <1>2 DEF Rows
<1> QED BY <1>1, <1>3, ErasAssumption, OutboundTable, InboundTable
-----------------------------------------------------------------------------
(* The run again: it has found a file of each kind before it reads, has    *)
(* its inputs before it computes, and publishes what it computed of them.  *)
FoundSoFar ==
  /\ run.at = "finding" => \A k \in KindNo : k < run.next => run.found[k] > 0
  /\ run.at \in {"reading", "loading", "computing", "published"} => \A k \in KindNo : run.found[k] > 0

(* The sheet and the export are some that it may find.                     *)
InputsLoaded ==
  run.at \in {"computing", "published"} =>
    sheet \in Sheets /\ (run.script = "assign" => export \in Exports)

Placed == AssignSkusToLocations(CleanedMetrics(FlaggedLines), LoadDimensions(sheet), LoadCCLocations(export))

Recommended == RecommendSlotting(CleanedMetrics(FlaggedLines), LoadDimensions(sheet))

Zoned == ComputeZoning(PatternLines(Loaded(1), Flagged(FlaggedLines)), CleanedMetrics(FlaggedLines))

(* What is published is a function of the files, the sheet and the export. *)
AsComputed ==
  run.at = "published" =>
    /\ run.published.lines = FlaggedLines /\ run.published.metrics = CleanedMetrics(FlaggedLines)
    /\ run.script = "assign" =>
         /\ run.published.assignments = Placed.assignments /\ run.published.unassigned = Placed.unassigned
         /\ run.published.coverage = Placed.coverage /\ run.published.unused = Placed.unused
    /\ run.script = "analyze" =>
         run.published.recommendations = Recommended /\ run.published.zones = Zoned

(* The invariant of the run.                                               *)
RunSound == FoundSoFar /\ InputsLoaded /\ AsComputed

LEMMA RunFields ==
  ASSUME TypedRun, NEW how, NEW result
  PROVE  /\ [run EXCEPT !.at = how].at = how /\ [run EXCEPT !.at = how].found = run.found
         /\ [run EXCEPT !.at = how].next = run.next /\ [run EXCEPT !.at = how].script = run.script
         /\ [run EXCEPT !.at = how, !.published = result].at = how
         /\ [run EXCEPT !.at = how, !.published = result].found = run.found
         /\ [run EXCEPT !.at = how, !.published = result].script = run.script
         /\ [run EXCEPT !.at = how, !.published = result].published = result
  BY DEF TypedRun, NoRun

(* While a run still looks for its files, others may work.                 *)
LEMMA OthersSound ==
  ASSUME RunSound, run'.at = run.at, run'.found = run.found, run'.next = run.next,
         run.at \notin {"computing", "published"}
  PROVE  RunSound'
  BY DEF RunSound, FoundSoFar, InputsLoaded, AsComputed

LEMMA ExtractSound ==
  ASSUME RunSound, TypedRun, ~InMemory, Trade \/ Extract
  PROVE  RunSound'
<1>1. run.at \notin {"computing", "published"}
  BY DEF InMemory, Over
<1>2. run' = run \/ run' = [run EXCEPT !.quiet = FALSE]
  BY DEF Trade, Extract, StartExtract, Pull, PullFails, DryRun, WriteManifest, StopExtract,
         SkipFile, OpenFile, CloseFile
<1>3. run'.at = run.at /\ run'.found = run.found /\ run'.next = run.next
  BY <1>2 DEF TypedRun, NoRun
<1> QED BY <1>1, <1>3, OthersSound

(* A run that is over without having published.                            *)
LEMMA EndSound ==
  ASSUME RunSound, TypedRun, NEW how \in {"raised", "refused", "stopped"}, RunEnds(how)
  PROVE  RunSound'
<1>1. run'.at = how
  BY RunFields DEF RunEnds
<1> QED BY <1>1 DEF RunSound, FoundSoFar, InputsLoaded, AsComputed

LEMMA StartSound ==
  ASSUME RunSound, StartRun
  PROVE  RunSound'
<1>1. PICK script \in {"assign", "analyze"} :
        run' = [NoRun EXCEPT !.script = script, !.at = "finding", !.quiet = extract.at # "writing"]
  BY DEF StartRun
<1>2. run'.at = "finding" /\ run'.next = 1
  BY <1>1 DEF NoRun
<1> QED BY <1>2 DEF RunSound, FoundSoFar, InputsLoaded, AsComputed, KindNo

LEMMA FindSound ==
  ASSUME RunSound, TypedRun, TypedFiles, FindLatest
  PROVE  RunSound'
<1>1. CASE files[run.next] = <<>>
  BY <1>1, EndSound DEF FindLatest
<1>2. CASE files[run.next] # <<>>
  <2> DEFINE place == IF run.next = Len(Kinds) THEN "reading" ELSE "finding"
             then == IF run.next = Len(Kinds) THEN 1 ELSE run.next + 1
  <2>1. run' = [run EXCEPT !.found[run.next] = Len(files[run.next]), !.at = place, !.next = then]
    BY <1>2 DEF FindLatest, Latest
  <2>2. run.at = "finding" /\ run.next \in KindNo /\ run.found \in [KindNo -> Nat] /\ Len(Kinds) = 3
    BY KindsOfFile DEF FindLatest, TypedRun
  <2>3. /\ place = "finding" => then = run.next + 1
        /\ place = "reading" => run.next = 3
        /\ place \in {"finding", "reading"}
    BY <2>2
  <2> HIDE DEF place, then
  <2>4. /\ run'.at = place /\ run'.next = then
        /\ run'.found = [run.found EXCEPT ![run.next] = Len(files[run.next])]
    BY <2>1 DEF TypedRun, NoRun
  <2>5. Len(files[run.next]) > 0
    <3>1. files[run.next] \in Seq(File)
      BY <2>2 DEF TypedFiles
    <3> QED BY <1>2, <3>1
  <2>6. \A k \in KindNo : k <= run.next => run'.found[k] > 0
    <3> SUFFICES ASSUME NEW k \in KindNo, k <= run.next PROVE run'.found[k] > 0
      OBVIOUS
    <3>1. CASE k = run.next
      BY <2>2, <2>4, <2>5, <3>1
    <3>2. CASE k # run.next
      <4>1. k < run.next
        BY <2>2, <3>2 DEF KindNo
      <4>2. run.found[k] > 0
        BY <2>2, <4>1 DEF RunSound, FoundSoFar
      <4> QED BY <2>2, <2>4, <3>2, <4>2
    <3> QED BY <3>1, <3>2
  <2>7. FoundSoFar'
    <3>1. CASE place = "finding"
      <4>1. \A k \in KindNo : k < run'.next => k <= run.next
        BY <2>2, <2>3, <2>4, <3>1 DEF KindNo
      <4> QED BY <2>4, <2>6, <3>1, <4>1 DEF FoundSoFar
    <3>2. CASE place = "reading"
      <4>1. \A k \in KindNo : k <= run.next
        BY <2>3, <3>2 DEF KindNo
      <4> QED BY <2>4, <2>6, <3>2, <4>1 DEF FoundSoFar
    <3> QED BY <2>3, <3>1, <3>2
  <2>8. run'.at \notin {"computing", "published"}
    BY <2>3, <2>4
  <2> QED BY <2>7, <2>8 DEF RunSound, InputsLoaded, AsComputed
<1> QED BY <1>1, <1>2

LEMMA ReadSound ==
  ASSUME RunSound, TypedRun, ReadParquet
  PROVE  RunSound'
<1>1. CASE ~Found(run.next).whole
  BY <1>1, EndSound DEF ReadParquet
<1>2. CASE Found(run.next).whole
  <2> DEFINE place == IF run.next = Len(Kinds) THEN "loading" ELSE "reading"
             then == IF run.next = Len(Kinds) THEN 1 ELSE run.next + 1
  <2>1. run' = [run EXCEPT !.at = place, !.next = then]
    BY <1>2 DEF ReadParquet
  <2>2. place \in {"loading", "reading"} /\ run.at = "reading"
    BY DEF ReadParquet
  <2> HIDE DEF place, then
  <2>3. run'.at = place /\ run'.found = run.found
    BY <2>1 DEF TypedRun, NoRun
  <2> QED BY <2>2, <2>3 DEF RunSound, FoundSoFar, InputsLoaded, AsComputed
<1> QED BY <1>1, <1>2

LEMMA LoadSound ==
  ASSUME RunSound, TypedRun, LoadSheet
  PROVE  RunSound'
<1>1. CASE \E how \in {"raised", "refused"} : RunEnds(how)
  BY <1>1, EndSound
<1>2. CASE RunEnds("computing") /\ sheet' # NoFile /\ (run.script = "assign" => export' # NoFile)
  <2>1. run'.at = "computing" /\ run'.found = run.found /\ run'.script = run.script /\ run.at = "loading"
    BY <1>2, RunFields DEF RunEnds, LoadSheet
  <2>2. sheet' \in Sheets /\ (run.script = "assign" => export' \in Exports)
    BY <1>2 DEF LoadSheet
  <2> QED BY <2>1, <2>2 DEF RunSound, FoundSoFar, InputsLoaded, AsComputed
<1> QED BY <1>1, <1>2 DEF LoadSheet

LEMMA InputsStay ==
  ASSUME UNCHANGED <<files, sheet, export>>, run'.found = run.found
  PROVE  /\ FlaggedLines' = FlaggedLines /\ CleanedMetrics(FlaggedLines)' = CleanedMetrics(FlaggedLines)
         /\ Placed' = Placed /\ Recommended' = Recommended /\ Zoned' = Zoned
<1>1. \A k : Loaded(k)' = Loaded(k)
  BY DEF Loaded, Found
<1>2. FlaggedLines' = FlaggedLines
  BY DEF FlaggedLines, RawVelocity, Loaded, Found
<1>3. CleanedMetrics(FlaggedLines)' = CleanedMetrics(FlaggedLines)
  BY <1>2 DEF CleanedMetrics, Loaded, Found
<1>4. Placed' = Placed /\ Recommended' = Recommended
  BY <1>3 DEF Placed, Recommended
<1>5. Zoned' = Zoned
  BY <1>2, <1>3 DEF Zoned, Loaded, Found
<1> QED BY <1>2, <1>3, <1>4, <1>5

LEMMA AssignSound ==
  ASSUME RunSound, TypedRun, Assign
  PROVE  RunSound'
<1> DEFINE result == [lines |-> FlaggedLines, metrics |-> CleanedMetrics(FlaggedLines),
                      assignments |-> Placed.assignments, unassigned |-> Placed.unassigned,
                      coverage |-> Placed.coverage, unused |-> Placed.unused]
<1>1. CASE RunEnds("raised")
  BY <1>1, EndSound
<1>2. CASE Publish(result)
  <2>0. UNCHANGED <<files, sheet, export>> /\ run.at = "computing" /\ run.script = "assign"
    BY DEF Assign, extractVars
  <2>1. /\ run'.at = "published" /\ run'.found = run.found /\ run'.script = run.script
        /\ run'.published = result
    BY <1>2, RunFields DEF Publish
  <2>2. FoundSoFar' /\ InputsLoaded'
    BY <2>0, <2>1 DEF RunSound, FoundSoFar, InputsLoaded
  <2>3. AsComputed'
    <3>1. /\ FlaggedLines' = FlaggedLines /\ CleanedMetrics(FlaggedLines)' = CleanedMetrics(FlaggedLines)
          /\ Placed' = Placed
      BY <2>0, <2>1, InputsStay
    <3> QED BY <2>0, <2>1, <3>1 DEF AsComputed
  <2> QED BY <2>2, <2>3 DEF RunSound
<1> QED BY <1>1, <1>2 DEF Assign, Placed

LEMMA AnalyzeSound ==
  ASSUME RunSound, TypedRun, Analyze
  PROVE  RunSound'
<1> DEFINE result == [lines |-> FlaggedLines, metrics |-> CleanedMetrics(FlaggedLines),
                      recommendations |-> Recommended, zones |-> Zoned]
<1>1. CASE RunEnds("raised")
  BY <1>1, EndSound
<1>2. CASE Publish(result)
  <2>0. UNCHANGED <<files, sheet, export>> /\ run.at = "computing" /\ run.script = "analyze"
    BY DEF Analyze, extractVars
  <2>1. /\ run'.at = "published" /\ run'.found = run.found /\ run'.script = run.script
        /\ run'.published = result
    BY <1>2, RunFields DEF Publish
  <2>2. FoundSoFar' /\ InputsLoaded'
    BY <2>0, <2>1 DEF RunSound, FoundSoFar, InputsLoaded
  <2>3. AsComputed'
    <3>1. /\ FlaggedLines' = FlaggedLines /\ CleanedMetrics(FlaggedLines)' = CleanedMetrics(FlaggedLines)
          /\ Recommended' = Recommended /\ Zoned' = Zoned
      BY <2>0, <2>1, InputsStay
    <3> QED BY <2>0, <2>1, <3>1 DEF AsComputed
  <2> QED BY <2>2, <2>3 DEF RunSound
<1> QED BY <1>1, <1>2 DEF Analyze, Recommended, Zoned

(* Every step of the run and of everybody else keeps it.                   *)
LEMMA StepSound ==
  ASSUME IInv, RunSound, [Next]_vars
  PROVE  RunSound'
<1>1. TypedRun /\ TypedFiles
  BY DEF IInv
<1>2. CASE ~InMemory /\ (Trade \/ Extract)
  BY <1>1, <1>2, ExtractSound
<1>3. CASE StartRun \/ FindLatest \/ ReadParquet \/ LoadSheet \/ Assign \/ Analyze
  BY <1>1, <1>3, StartSound, FindSound, ReadSound, LoadSound, AssignSound, AnalyzeSound
<1>4. CASE StopRun
  BY <1>1, <1>4, EndSound DEF StopRun
<1>5. CASE UNCHANGED vars
  <2>1. UNCHANGED <<files, sheet, export>> /\ run' = run
    BY <1>5 DEF vars
  <2>2. /\ FlaggedLines' = FlaggedLines /\ CleanedMetrics(FlaggedLines)' = CleanedMetrics(FlaggedLines)
        /\ Placed' = Placed /\ Recommended' = Recommended /\ Zoned' = Zoned
    BY <2>1, InputsStay
  <2>3. FoundSoFar' /\ InputsLoaded'
    BY <2>1 DEF RunSound, FoundSoFar, InputsLoaded
  <2>4. AsComputed'
    BY <2>1, <2>2 DEF RunSound, AsComputed
  <2> QED BY <2>3, <2>4 DEF RunSound
<1> QED BY <1>2, <1>3, <1>4, <1>5 DEF Next

LEMMA InitSound == Init => RunSound
  BY DEF Init, NoRun, RunSound, FoundSoFar, InputsLoaded, AsComputed
-----------------------------------------------------------------------------
(* The lines with their flag.  f is made of line.                          *)
OfLine(f, line) ==
  /\ f.order = line.order /\ f.sku = line.sku /\ f.qty = OrZero(line.qty)
  /\ f.is_full_pallet_line => line.sku # NaN

Copies(tagged, sku) == Cardinality({k \in DOMAIN tagged : tagged[k].sku = sku})

LEMMA DetectLineRows ==
  ASSUME NEW line, NEW dims, dims \in Seq(ToSet(dims)), NEW tagged, IsFiniteSet(DOMAIN tagged)
  PROVE  /\ DetectLine(line, dims, tagged) \in Seq(ToSet(DetectLine(line, dims, tagged)))
         /\ \A i \in DOMAIN DetectLine(line, dims, tagged) : OfLine(DetectLine(line, dims, tagged)[i], line)
         /\ Len(RowsFor(dims, line.sku)) <= 1 /\ Copies(tagged, line.sku) <= 1 =>
              Len(DetectLine(line, dims, tagged)) = 1
<1> DEFINE rows == RowsFor(dims, line.sku)
           cartons == IF rows = <<>> THEN <<NaN>> ELSE [k \in DOMAIN rows |-> rows[k].cartons_per_pallet]
           copies == Max({1, Copies(tagged, line.sku)})
           flagged(c) == [order |-> line.order, sku |-> line.sku, name |-> line.name, qty |-> OrZero(line.qty),
                          is_full_pallet_line |-> line.sku # NaN /\ IsFullPallet(line.sku, OrZero(line.qty), c)]
           ss == [k \in DOMAIN cartons |-> [j \in 1 .. copies |-> flagged(cartons[k])]]
           t == FlattenSeq(ss)
           S == {flagged(cartons[k]) : k \in DOMAIN cartons}
<1>1. DetectLine(line, dims, tagged) = t
  BY DEF DetectLine, Copies
<1>2. \A c : OfLine(flagged(c), line)
  BY DEF OfLine
<1>3. Copies(tagged, line.sku) \in Nat
  <2> DEFINE K == {k \in DOMAIN tagged : tagged[k].sku = line.sku}
  <2>1. IsFiniteSet(K)
    BY FS_Subset
  <2> QED BY <2>1, FS_CardinalityType DEF Copies
<1>4. copies \in Nat \ {0} /\ (Copies(tagged, line.sku) <= 1 => copies = 1)
  <2> DEFINE n == Copies(tagged, line.sku)
             m == Max({1, n})
  <2>1. n \in Nat
    BY <1>3
  <2> HIDE DEF n
  <2>2. m \in Nat \ {0} /\ m \in {1, n} /\ m >= n
    BY <2>1, AtLeastOne
  <2> HIDE DEF m
  <2>3. n <= 1 => m = 1
    BY <2>1, <2>2
  <2> QED BY <2>2, <2>3 DEF m, n
<1>5. rows \in Seq(ToSet(dims))
  BY RowsAtHas DEF RowsFor
<1>6. PICK n \in Nat : DOMAIN cartons = 1 .. n /\ (Len(rows) <= 1 => n = 1)
  <2> HIDE DEF rows
  <2>1. CASE rows = <<>>
    <3>1. cartons = <<NaN>> /\ DOMAIN <<NaN>> = 1 .. 1
      BY <2>1
    <3> QED BY <3>1
  <2>2. CASE rows # <<>>
    <3> DEFINE m == Len(rows)
    <3>1. DOMAIN cartons = 1 .. m /\ m \in Nat /\ m # 0
      BY <1>5, <2>2
    <3> HIDE DEF m, cartons
    <3>2. m <= 1 => m = 1
      BY <3>1
    <3> QED BY <3>1, <3>2 DEF m
  <2> QED BY <2>1, <2>2
<1> HIDE DEF rows, copies, cartons
<1>7. ASSUME NEW k \in 1 .. n PROVE ss[k] \in Seq(S) /\ Len(ss[k]) = copies
  <2> DEFINE s == ss[k]
             f == flagged(cartons[k])
  <2>1. s = [j \in 1 .. copies |-> f] /\ f \in S
    BY <1>6
  <2> HIDE DEF flagged, ss, s, f, S
  <2>2. s = [j \in 1 .. copies |-> s[j]] /\ DOMAIN s = 1 .. copies /\ \A j \in 1 .. copies : s[j] \in S
    BY <2>1
  <2>3. copies \in Nat
    BY <1>4
  <2>4. s \in Seq(S) /\ Len(s) = copies
    BY ONLY <2>2, <2>3, MadeSeq
  <2> QED BY <2>4 DEF s
<1>8. ss = [k \in 1 .. n |-> ss[k]] /\ DOMAIN ss = 1 .. n
  BY <1>6
<1>9. \A f \in S : OfLine(f, line)
  BY <1>2
<1> HIDE DEF ss, S, flagged
<1>10. ss \in Seq(Seq(S)) /\ Len(ss) = n
  BY ONLY <1>6, <1>7, <1>8, MadeSeq
<1>11. t \in Seq(S)
  BY <1>10, FlattenFlat
<1>12. ASSUME Len(rows) <= 1, Copies(tagged, line.sku) <= 1 PROVE Len(t) = 1
  <2>1. n = 1 /\ copies = 1 /\ 1 \in 1 .. n
    BY <1>4, <1>6, <1>12
  <2>2. Len(ss[1]) = 1 /\ ss[1] \in Seq(S) /\ ss = <<ss[1]>>
    BY <1>7, <1>8, <2>1
  <2>3. DOMAIN t = {1}
    <3>1. PICK o, q : Flat(t, ss, n, o, q)
      BY <1>10, FlattenFlat
    <3>2. DOMAIN ss[1] = {1}
      <4>1. DOMAIN ss[1] = 1 .. 1
        BY <2>2
      <4> QED BY <4>1
    <3>3. \A i \in DOMAIN t : o[i] = 1 /\ q[i] = 1
      BY <2>1, <3>1, <3>2 DEF Flat
    <3>4. \E i \in DOMAIN t : o[i] = 1 /\ q[i] = 1
      BY <2>1, <3>1, <3>2 DEF Flat
    <3>5. \A i, j \in DOMAIN t : ~(i < j)
      <4> SUFFICES ASSUME NEW i \in DOMAIN t, NEW j \in DOMAIN t, i < j PROVE FALSE
        OBVIOUS
      <4>1. o[i] < o[j] \/ (o[i] = o[j] /\ q[i] < q[j])
        BY <3>1 DEF Flat
      <4> QED BY <3>3, <4>1
    <3>6. DOMAIN t = 1 .. Len(t) /\ Len(t) \in Nat
      BY <1>11
    <3> HIDE DEF t
    <3>7. Len(t) >= 1
      BY <3>4, <3>6
    <3>8. ~(1 < Len(t))
      BY <3>5, <3>6, <3>7
    <3> QED BY <3>6, <3>7, <3>8
  <2>4. DOMAIN t = 1 .. Len(t) /\ Len(t) \in Nat
    BY <1>11
  <2> HIDE DEF t
  <2>5. 1 \in 1 .. Len(t) /\ Len(t) \in 1 .. Len(t)
    BY <2>3, <2>4
  <2> QED BY <2>3, <2>4, <2>5
<1>13. t \in Seq(ToSet(t)) /\ \A i \in DOMAIN t : t[i] \in S
  <2> HIDE DEF t
  <2> QED BY <1>11, OwnSeq
<1> HIDE DEF t
<1> QED BY <1>1, <1>9, <1>12, <1>13 DEF rows

(* t has one line for each of so, made of it.                              *)
Matching(t, so, b) ==
  /\ b \in [DOMAIN t -> DOMAIN so] /\ \A i \in DOMAIN t : OfLine(t[i], so[b[i]])
  /\ \A i, j \in DOMAIN t : b[i] = b[j] => i = j
  /\ \A k \in DOMAIN so : \E i \in DOMAIN t : b[i] = k

OneEach(so, dims, tagged) ==
  \A k \in DOMAIN so : Len(RowsFor(dims, so[k].sku)) <= 1 /\ Copies(tagged, so[k].sku) <= 1

(* The flagged lines are a table, and match the sale orders where each     *)
(* product has one row on the sheet and one in the metrics.                *)
LEMMA FlaggedTable ==
  ASSUME NEW so, Table(so), NEW dims, dims \in Seq(ToSet(dims)), NEW tagged, IsFiniteSet(DOMAIN tagged)
  PROVE  /\ Table(DetectFullPalletLines(so, dims, tagged))
         /\ OneEach(so, dims, tagged) => \E b : Matching(DetectFullPalletLines(so, dims, tagged), so, b)
<1> DEFINE ss == [k \in DOMAIN so |-> DetectLine(so[k], dims, tagged)]
           t == DetectFullPalletLines(so, dims, tagged)
           S == UNION {ToSet(ss[k]) : k \in DOMAIN so}
<1>1. t = FlattenSeq(ss)
  BY DEF DetectFullPalletLines
<1>2. PICK n \in Nat : DOMAIN so = 1 .. n
  BY DEF Table
<1>3. /\ DOMAIN ss = 1 .. n /\ ss = [k \in 1 .. n |-> ss[k]]
      /\ \A k \in 1 .. n : ss[k] = DetectLine(so[k], dims, tagged)
  BY <1>2
<1> HIDE DEF ss, t
<1>4. ASSUME NEW k \in 1 .. n
      PROVE  /\ ss[k] \in Seq(S) /\ \A i \in DOMAIN ss[k] : OfLine(ss[k][i], so[k])
             /\ OneEach(so, dims, tagged) => Len(ss[k]) = 1
  <2>1. /\ ss[k] \in Seq(ToSet(ss[k])) /\ \A i \in DOMAIN ss[k] : OfLine(ss[k][i], so[k])
        /\ Len(RowsFor(dims, so[k].sku)) <= 1 /\ Copies(tagged, so[k].sku) <= 1 => Len(ss[k]) = 1
    <3> DEFINE d == DetectLine(so[k], dims, tagged)
    <3>1. /\ d \in Seq(ToSet(d)) /\ \A i \in DOMAIN d : OfLine(d[i], so[k])
          /\ Len(RowsFor(dims, so[k].sku)) <= 1 /\ Copies(tagged, so[k].sku) <= 1 => Len(d) = 1
      BY DetectLineRows
    <3>2. ss[k] = d
      BY <1>3
    <3> HIDE DEF d
    <3> QED BY <3>1, <3>2
  <2>2. ToSet(ss[k]) \subseteq S
    BY <1>2
  <2>3. ss[k] \in Seq(S)
    <3> HIDE DEF S
    <3> QED BY <2>1, <2>2
  <2> QED BY <1>2, <2>1, <2>3 DEF OneEach
<1> HIDE DEF S
<1>5. ss \in Seq(Seq(S)) /\ Len(ss) = n
  BY ONLY <1>2, <1>3, <1>4, MadeSeq
<1>6. t \in Seq(S)
  BY <1>1, <1>5, FlattenFlat
<1>7. PICK o, q : Flat(t, ss, n, o, q)
  BY <1>1, <1>5, FlattenFlat
<1>8. ASSUME NEW i \in DOMAIN t PROVE o[i] \in DOMAIN so /\ OfLine(t[i], so[o[i]])
  <2>1. o[i] \in 1 .. n /\ q[i] \in DOMAIN ss[o[i]] /\ t[i] = ss[o[i]][q[i]]
    BY <1>7 DEF Flat
  <2> QED BY <1>2, <1>4, <2>1
<1>9. Table(t)
  <2>1. t \in Seq(ToSet(t))
    BY <1>6, OwnSeq
  <2>2. ASSUME NEW i \in DOMAIN t PROVE Line(t[i])
    <3>1. PICK k \in DOMAIN so : OfLine(t[i], so[k])
      BY <1>8
    <3>2. Line(so[k])
      BY DEF Table
    <3> QED BY <3>1, <3>2, NotANumber DEF OfLine, Line, OrZero
  <2> QED BY <2>1, <2>2 DEF Table
<1>10. ASSUME OneEach(so, dims, tagged) PROVE \E b : Matching(t, so, b)
  <2> DEFINE table == [k \in DOMAIN ss |-> ss[k][1]]
  <2>1. \A k \in DOMAIN ss : Len(ss[k]) = 1
    BY <1>3, <1>4, <1>10
  <2>2. DOMAIN table = DOMAIN ss /\ \A k \in DOMAIN ss : ss[k][1] = table[k]
    OBVIOUS
  <2> HIDE DEF table
  <2>3. PICK b : Picks(t, table, DOMAIN table, b)
    BY <1>1, <1>5, <2>1, <2>2, FlattenSingles
  <2>4. \A k \in DOMAIN so : OfLine(table[k], so[k])
    <3> SUFFICES ASSUME NEW k \in DOMAIN so PROVE OfLine(table[k], so[k])
      OBVIOUS
    <3>1. ss[k] \in Seq(S) /\ Len(ss[k]) = 1 /\ table[k] = ss[k][1]
      BY <1>2, <1>3, <1>4, <2>1, <2>2
    <3>2. 1 \in DOMAIN ss[k]
      BY <3>1
    <3> QED BY <1>2, <1>4, <3>1, <3>2
  <2>5. \A i, j \in DOMAIN t : b[i] = b[j] => i = j
    <3>1. DOMAIN table \subseteq Int
      BY <1>3, <2>2
    <3> QED BY <1>6, <2>3, <3>1, PicksOne
  <2>6. DOMAIN table = DOMAIN so
    BY <1>2, <1>3, <2>2
  <2>7. Matching(t, so, b)
    BY <2>3, <2>4, <2>5, <2>6 DEF Picks, Matching
  <2> QED BY <2>7
<1> QED BY <1>9, <1>10 DEF t

(* What the loaded files hold.                                             *)
LEMMA LoadedTables ==
  ASSUME IInv, Within, RunSound, run.at = "published"
  PROVE  Table(Loaded(1)) /\ Table(Loaded(2))
<1>1. ASSUME NEW k \in KindNo PROVE Found(k).era \in DOMAIN Eras
  <2>1. run.found[k] > 0 /\ run.found[k] <= Len(files[k]) /\ run.found[k] \in Nat /\ Len(files[k]) \in Nat
    BY DEF RunSound, FoundSoFar, Within, RunWithin, IInv, TypedRun, TypedFiles
  <2>2. run.found[k] \in 1 .. Len(files[k])
    BY <2>1
  <2> QED BY <2>2 DEF Within, FilesWithin, FileOK, Found
<1>2. 1 \in KindNo /\ 2 \in KindNo
  BY DEF KindNo
<1> QED BY <1>1, <1>2, RowsTables DEF Loaded

LEMMA SheetLoaded ==
  ASSUME RunSound, run.at = "published"
  PROVE  /\ SheetOK(sheet) /\ (run.script = "assign" => ExportOK(export))
         /\ LoadDimensions(sheet) \in Seq(ToSet(LoadDimensions(sheet)))
<1>1. SheetOK(sheet) /\ (run.script = "assign" => ExportOK(export))
  BY InputsAssumption DEF RunSound, InputsLoaded, SheetOK, ExportOK
<1> QED BY <1>1, DimsType

(* The lines and the metrics that are published.                           *)
LEMMA TagsFinite ==
  ASSUME IInv, Within, RunSound, run.at = "published"
  PROVE  /\ Descending(RawVelocity) /\ OnceEach(RawVelocity, SoldOrReceived(Loaded(1), Loaded(2)))
         /\ IsFiniteSet(DOMAIN ApplyTags(RawVelocity, LoadDimensions(sheet)))
<1>1. Table(Loaded(1)) /\ Table(Loaded(2)) /\ LoadDimensions(sheet) \in Seq(ToSet(LoadDimensions(sheet)))
  BY LoadedTables, SheetLoaded
<1>2. Descending(RawVelocity) /\ OnceEach(RawVelocity, SoldOrReceived(Loaded(1), Loaded(2)))
  BY <1>1, VelocityRows DEF RawVelocity
<1>3. Descending(ApplyTags(RawVelocity, LoadDimensions(sheet)))
  BY <1>1, <1>2, TagsKeep
<1> DEFINE t == ApplyTags(RawVelocity, LoadDimensions(sheet))
<1>4. t \in Seq(ToSet(t))
  BY <1>3 DEF Descending
<1> HIDE DEF t
<1>5. IsFiniteSet(DOMAIN t)
  BY <1>4, OwnSeq
<1> QED BY <1>2, <1>5 DEF t

LEMMA LinesTable ==
  ASSUME IInv, Within, RunSound, run.at = "published"
  PROVE  Table(FlaggedLines) /\ Table(Kept(FlaggedLines)) /\ Table(Flagged(FlaggedLines))
<1>1. Table(FlaggedLines)
  BY LoadedTables, SheetLoaded, TagsFinite, FlaggedTable DEF FlaggedLines
<1> QED BY <1>1, RowsTable DEF Kept, Flagged

LEMMA MetricsDescend ==
  ASSUME IInv, Within, RunSound, run.at = "published"
  PROVE  Descending(CleanedMetrics(FlaggedLines))
<1>1. Descending(ComputeVelocity(Kept(FlaggedLines), Loaded(2), Loaded(3)))
  BY LoadedTables, LinesTable, VelocityRows
<1> QED BY <1>1, SheetLoaded, TagsKeep DEF CleanedMetrics

(* PlacedRight follows from what is published being what was computed.     *)
LEMMA PlacedFollows == IInv /\ Within /\ RunSound => PlacedRight
<1> SUFFICES ASSUME IInv, Within, RunSound, run.at = "published", run.script = "assign" PROVE PlacedRight
  BY DEF PlacedRight, Published
<1>1. Descending(CleanedMetrics(FlaggedLines)) /\ SheetOK(sheet) /\ ExportOK(export)
  BY MetricsDescend, SheetLoaded
<1>2. Right(Placed.assignments, Placed.unassigned, sheet, export)
  BY <1>1, AssignmentRight DEF Placed
<1>3. run.published.assignments = Placed.assignments /\ run.published.unassigned = Placed.unassigned
  BY DEF RunSound, AsComputed
<1> QED BY <1>2, <1>3 DEF PlacedRight, Right, Wants, WantedAs

(* Whatever sheet and export assign.py is given, and whatever the files    *)
(* hold, no face is given twice, each goes to a product that was measured  *)
(* and wants that position and, if tagged, that type by its row of the     *)
(* sheet, and is a pick face of both by CartonCloud's own efficiency and   *)
(* override; and a product without a face is no faster than any that has   *)
(* one it could use                                                        *)
(* (assign_skus_to_locations).                                             *)
THEOREM PlacedAlways == Spec => []PlacedRight
<1>1. IInv /\ Within /\ RunSound /\ [Next]_vars => (IInv /\ Within /\ RunSound)'
  BY StepKeeps, StepWithin, StepSound
<1>2. Init => IInv /\ Within /\ RunSound
  BY Initially, InitWithin, InitSound
<1> QED BY <1>1, <1>2, PlacedFollows, PTL DEF Spec
-----------------------------------------------------------------------------
(* Zones.  Lifts compare as fractions do.                                  *)
IsLift(x) == x.both \in Nat /\ x.least \in Nat \ {0}

(* Products of numbers, as fractions are compared by them.                 *)
LEMMA MulMono ==
  ASSUME NEW a \in Int, NEW b \in Int, NEW c \in Nat, a >= b
  PROVE  a * c >= b * c
<1>1. (a - b) \in Nat
  OBVIOUS
<1>2. (a - b) * c \in Nat
  BY <1>1
<1>3. (a - b) * c = a * c - b * c
  OBVIOUS
<1>4. a * c \in Int /\ b * c \in Int
  OBVIOUS
<1> QED BY <1>2, <1>3, <1>4

LEMMA MulCancel ==
  ASSUME NEW a \in Int, NEW b \in Int, NEW c \in Nat \ {0}, a * c >= b * c
  PROVE  a >= b
<1> SUFFICES ASSUME b > a PROVE FALSE
  OBVIOUS
<1>1. b >= a + 1 /\ a + 1 \in Int
  OBVIOUS
<1>2. b * c >= (a + 1) * c
  BY <1>1, MulMono
<1>3. (a + 1) * c = a * c + c
  OBVIOUS
<1>4. a * c \in Int /\ b * c \in Int
  OBVIOUS
<1> QED BY <1>2, <1>3, <1>4

(* a / b >= c / d >= e / f                                                 *)
LEMMA Ratios ==
  ASSUME NEW a \in Nat, NEW b \in Nat \ {0}, NEW c \in Nat, NEW d \in Nat \ {0}, NEW e \in Nat, NEW f \in Nat \ {0},
         a * d >= c * b, c * f >= e * d
  PROVE  a * f >= e * b
<1>1. (a * d) * f >= (c * b) * f
  <2>1. a * d \in Int /\ c * b \in Int
    OBVIOUS
  <2> QED BY <2>1, MulMono
<1>2. (c * f) * b >= (e * d) * b
  <2>1. c * f \in Int /\ e * d \in Int
    OBVIOUS
  <2> QED BY <2>1, MulMono
<1>3. (a * d) * f = (a * f) * d /\ (c * b) * f = (c * f) * b /\ (e * d) * b = (e * b) * d
  OBVIOUS
<1>4. a * f \in Int /\ e * b \in Int /\ (a * f) * d \in Int /\ (c * f) * b \in Int /\ (e * b) * d \in Int
  OBVIOUS
<1>5. (a * f) * d >= (e * b) * d
  <2> DEFINE x == (a * f) * d
             y == (c * f) * b
             z == (e * b) * d
  <2>1. x >= y /\ y >= z /\ x \in Int /\ y \in Int /\ z \in Int
    BY <1>1, <1>2, <1>3, <1>4
  <2> HIDE DEF x, y, z
  <2>2. x >= z
    BY <2>1
  <2> QED BY <2>2 DEF x, z
<1> DEFINE u == a * f
           v == e * b
<1>6. u \in Int /\ v \in Int /\ u * d >= v * d
  BY <1>4, <1>5
<1> HIDE DEF u, v
<1>7. u >= v
  BY <1>6, MulCancel
<1> QED BY <1>7 DEF u, v

(* AtLeast is a total preorder of lifts.                                   *)
LEMMA AtLeastTrans ==
  ASSUME NEW x, IsLift(x), NEW y, IsLift(y), NEW z, IsLift(z), AtLeast(x, y), AtLeast(y, z)
  PROVE  AtLeast(x, z)
  BY Ratios DEF IsLift, AtLeast

LEMMA AtLeastTotal ==
  ASSUME NEW x, IsLift(x), NEW y, IsLift(y)
  PROVE  AtLeast(x, y) \/ AtLeast(y, x)
<1> DEFINE u == x.both * y.least
           v == y.both * x.least
<1>1. u \in Int /\ v \in Int
  BY DEF IsLift
<1> HIDE DEF u, v
<1>2. u >= v \/ v >= u
  BY <1>1
<1> QED BY <1>2 DEF u, v, AtLeast

LEMMA PassesUp ==
  ASSUME NEW x, IsLift(x), NEW y, IsLift(y), AtLeast(x, y), Passes(y)
  PROVE  Passes(x)
<1> DEFINE a == x.both
           b == x.least
           c == y.both
           d == y.least
<1>1. a \in Nat /\ b \in Nat \ {0} /\ c \in Nat /\ d \in Nat \ {0} /\ a * d >= c * b /\ 10 * c >= 4 * d
  BY DEF IsLift, AtLeast, Passes
<1> HIDE DEF a, b, c, d
<1>2. c * 10 >= 4 * d
  BY <1>1
<1>3. a * 10 >= 4 * b
  BY <1>1, <1>2, Ratios
<1>4. 10 * a >= 4 * b
  BY <1>1, <1>3
<1> QED BY <1>4 DEF a, b, Passes

(* Among finitely many there is a highest.                                 *)
LEMMA HighestLift ==
  ASSUME NEW S, IsFiniteSet(S), S # {}, NEW lift, \A k \in S : IsLift(lift[k])
  PROVE  \E k \in S : \A j \in S : AtLeast(lift[k], lift[j])
<1> DEFINE G == {T \in SUBSET S : T # {} => \E k \in T : \A j \in T : AtLeast(lift[k], lift[j])}
<1>1. \A T \in SUBSET S : T # {} /\ (\A x \in T : T \ {x} \in G) => T \in G
  <2> SUFFICES ASSUME NEW T \in SUBSET S, NEW x \in T, T \ {x} \in G
               PROVE  \E k \in T : \A j \in T : AtLeast(lift[k], lift[j])
    OBVIOUS
  <2>0. \A j \in T : AtLeast(lift[j], lift[j])
    BY AtLeastTotal
  <2>1. CASE T = {x}
    BY <2>0, <2>1
  <2>2. CASE T # {x}
    <3>1. PICK m \in T \ {x} : \A j \in T \ {x} : AtLeast(lift[m], lift[j])
      BY <2>2
    <3>2. CASE AtLeast(lift[m], lift[x])
      BY <3>1, <3>2
    <3>3. CASE AtLeast(lift[x], lift[m])
      <4>1. \A j \in T \ {x} : AtLeast(lift[x], lift[j])
        BY <3>1, <3>3, AtLeastTrans
      <4> QED BY <2>0, <4>1
    <3> QED BY <3>2, <3>3, AtLeastTotal
  <2> QED BY <2>1, <2>2
<1>2. G = SUBSET S
  <2>1. G \in SUBSET (SUBSET S) /\ {} \in G
    OBVIOUS
  <2> HIDE DEF G
  <2> QED BY <1>1, <2>1, SetInduction
<1> QED BY <1>2

LEMMA LowerOfTwo ==
  ASSUME NEW a \in Int, NEW b \in Int
  PROVE  Min({a, b}) \in {a, b} /\ Min({a, b}) <= a /\ Min({a, b}) <= b
<1>1. \E x \in {a, b} : \A y \in {a, b} : x <= y
  <2>1. CASE a <= b
    BY <2>1
  <2>2. CASE b <= a
    BY <2>2
  <2> QED BY <2>1, <2>2
<1> QED BY <1>1 DEF Min

(* What two products have to be for one to join the other's zone.          *)
Together(lines, a, b) ==
  LET both == Cardinality(OrdersWith(lines, a) \intersect OrdersWith(lines, b))
  IN  \E c \in {a, b} : both > 0 /\ 10 * both >= 4 * Cardinality(OrdersWith(lines, c))

LEMMA LiftPasses ==
  ASSUME NEW lines, IsFiniteSet(DOMAIN lines), NEW a, NEW b
  PROVE  IsLift(Lift(lines, a, b)) /\ (Passes(Lift(lines, a, b)) <=> Together(lines, a, b))
<1> DEFINE A == OrdersWith(lines, a)
           B == OrdersWith(lines, b)
           x == Cardinality(A)
           y == Cardinality(B)
           both == Cardinality(A \intersect B)
           m == Min({x, y})
           least == Max({m, 1})
<1>1. \A s : IsFiniteSet(OrdersWith(lines, s))
  <2> SUFFICES ASSUME NEW s PROVE IsFiniteSet(OrdersWith(lines, s))
    OBVIOUS
  <2> DEFINE K == {j \in DOMAIN lines : lines[j].sku = s}
             f == [k \in K |-> lines[k].order]
  <2>1. IsFiniteSet(K)
    BY FS_Subset
  <2>2. IsFiniteSet({f[k] : k \in K})
    <3> HIDE DEF K, f
    <3> QED BY <2>1, FiniteImage
  <2>3. {f[k] : k \in K} = OrdersWith(lines, s)
    BY DEF OrdersWith
  <2> QED BY <2>2, <2>3
<1>2. Lift(lines, a, b) = [both |-> both, least |-> least]
  BY DEF Lift
<1>3. x \in Nat /\ y \in Nat /\ both \in Nat /\ both <= x /\ both <= y
  <2>1. IsFiniteSet(A) /\ IsFiniteSet(B)
    BY <1>1
  <2> HIDE DEF A, B
  <2>2. /\ IsFiniteSet(A \intersect B) /\ Cardinality(A \intersect B) <= Cardinality(A)
        /\ Cardinality(A \intersect B) <= Cardinality(B)
    <3>1. A \intersect B \in SUBSET A /\ A \intersect B \in SUBSET B
      OBVIOUS
    <3> QED BY <2>1, <3>1, FS_Subset
  <2> QED BY <2>1, <2>2, FS_CardinalityType
<1>7. Together(lines, a, b) <=> both > 0 /\ (10 * both >= 4 * x \/ 10 * both >= 4 * y)
  BY DEF Together
<1> HIDE DEF A, B, x, y, both
<1>4. m \in {x, y} /\ m <= x /\ m <= y
  BY <1>3, LowerOfTwo
<1> HIDE DEF m
<1>5. m \in Nat
  BY <1>3, <1>4
<1>6. least \in Nat \ {0} /\ least >= m /\ least \in {1, m}
  <2>1. {m, 1} = {1, m}
    OBVIOUS
  <2> QED BY <1>5, <2>1, AtLeastOne
<1> HIDE DEF least
<1>8. IsLift([both |-> both, least |-> least])
  BY <1>3, <1>6 DEF IsLift
<1>9. Passes([both |-> both, least |-> least]) <=> 10 * both >= 4 * least
  BY DEF Passes
<1>10. 10 * both >= 4 * least => both > 0 /\ (10 * both >= 4 * x \/ 10 * both >= 4 * y)
  BY <1>3, <1>4, <1>6
<1>11. both > 0 => least = m
  BY <1>3, <1>4, <1>5, <1>6
<1>12. both > 0 /\ (10 * both >= 4 * x \/ 10 * both >= 4 * y) => 10 * both >= 4 * least
  BY <1>3, <1>4, <1>11
<1> QED BY <1>2, <1>7, <1>8, <1>9, <1>10, <1>12

(* A zone has members.                                                     *)
Members == Seq(Codes) \ {<<>>}

(* The score is the highest lift with any member.                          *)
LEMMA ScoreHighest ==
  ASSUME NEW lines, IsFiniteSet(DOMAIN lines), NEW sku, NEW zone \in Members
  PROVE  /\ IsLift(Score(lines, sku, zone))
         /\ \E k \in DOMAIN zone : Score(lines, sku, zone) = Lift(lines, sku, zone[k])
         /\ \A k \in DOMAIN zone : AtLeast(Score(lines, sku, zone), Lift(lines, sku, zone[k]))
<1> DEFINE lift == [k \in DOMAIN zone |-> Lift(lines, sku, zone[k])]
           lifts == {Lift(lines, sku, zone[k]) : k \in DOMAIN zone}
<1>1. zone \in Seq(Codes) /\ zone # <<>>
  BY DEF Members
<1>2. IsFiniteSet(DOMAIN zone) /\ DOMAIN zone # {}
  <2>1. DOMAIN zone = 1 .. Len(zone) /\ Len(zone) \in Nat /\ IsFiniteSet(DOMAIN zone)
    BY <1>1, OwnSeq
  <2>2. Len(zone) # 0
    BY <1>1, EmptySeq
  <2> QED BY <2>1, <2>2
<1>3. \A k \in DOMAIN zone : IsLift(lift[k]) /\ lift[k] = Lift(lines, sku, zone[k])
  BY LiftPasses
<1>4. \E k \in DOMAIN zone : \A j \in DOMAIN zone : AtLeast(lift[k], lift[j])
  <2> HIDE DEF lift
  <2> QED BY <1>2, <1>3, HighestLift
<1> HIDE DEF lift
<1>5. \E x \in lifts : \A y \in lifts : AtLeast(x, y)
  BY <1>3, <1>4
<1>6. Score(lines, sku, zone) = CHOOSE x \in lifts : \A y \in lifts : AtLeast(x, y)
  BY DEF Score
<1>7. Score(lines, sku, zone) \in lifts /\ \A y \in lifts : AtLeast(Score(lines, sku, zone), y)
  <2> HIDE DEF lifts
  <2> QED BY <1>5, <1>6
<1> QED BY <1>3, <1>7

(* What Grow does of a zone: it adds somebody left who goes together with  *)
(* a member, or the zone is full, or nobody who is left does.              *)
Grows(lines, skus, zones, zone, next) ==
  /\ Len(zone) < TargetZoneSize
  /\ \E a \in ToSet(skus) : /\ a \notin Claimed(zones) \union ToSet(zone) /\ next = Append(zone, a)
                            /\ \E j \in DOMAIN zone : Together(lines, a, zone[j])

NobodyLeft(lines, skus, zones, zone) ==
  \A a \in ToSet(skus) : a \notin Claimed(zones) \union ToSet(zone) =>
    \A j \in DOMAIN zone : ~Together(lines, a, zone[j])

(* Grow does one of these.                                                 *)
LEMMA GrowCases ==
  ASSUME NEW lines, IsFiniteSet(DOMAIN lines), NEW skus \in Seq(Codes), NEW zones, NEW zone \in Members
  PROVE  \/ Grows(lines, skus, zones, zone, Grow(lines, skus, zones, zone))
         \/ /\ Grow(lines, skus, zones, zone) = zone
            /\ Len(zone) >= TargetZoneSize \/ NobodyLeft(lines, skus, zones, zone)
<1> DEFINE rows == {k \in DOMAIN skus : skus[k] \notin Claimed(zones) \union ToSet(zone)}
           left == Left(skus, zones, zone)
           score == [k \in DOMAIN left |-> Score(lines, left[k], zone)]
           isBest(k) == /\ \A j \in DOMAIN left : AtLeast(score[k], score[j])
                        /\ \A j \in 1 .. k - 1 : ~AtLeast(score[j], score[k])
           best == CHOOSE k \in DOMAIN left : isBest(k)
           next == Grow(lines, skus, zones, zone)
<1>1. /\ left \in Seq(Codes)
      /\ \A i \in DOMAIN left : left[i] \in ToSet(skus) /\ left[i] \notin Claimed(zones) \union ToSet(zone)
      /\ \A a \in ToSet(skus) : a \notin Claimed(zones) \union ToSet(zone) => \E i \in DOMAIN left : left[i] = a
  <2>1. /\ RowsAt(skus, rows) \in Seq(Codes)
        /\ \A i \in DOMAIN RowsAt(skus, rows) : \E k \in DOMAIN skus : k \in rows /\ RowsAt(skus, rows)[i] = skus[k]
        /\ \A k \in DOMAIN skus :
             k \in rows => \E i \in DOMAIN RowsAt(skus, rows) : RowsAt(skus, rows)[i] = skus[k]
    <3> HIDE DEF rows
    <3> QED BY RowsAtHas
  <2> DEFINE r == RowsAt(skus, rows)
  <2>2. left = r
    BY DEF Left
  <2> HIDE DEF r, left
  <2>3. /\ left \in Seq(Codes)
        /\ \A i \in DOMAIN left : \E k \in DOMAIN skus : k \in rows /\ left[i] = skus[k]
        /\ \A k \in DOMAIN skus : k \in rows => \E i \in DOMAIN left : left[i] = skus[k]
    BY <2>1, <2>2 DEF r
  <2> QED BY <2>3 DEF ToSet
<1>2. next = IF left = <<>> \/ Len(zone) >= TargetZoneSize THEN zone
             ELSE IF Passes(score[best]) THEN Append(zone, left[best]) ELSE zone
  BY DEF Grow
<1> HIDE DEF left, next
<1>3. TargetZoneSize \in Nat \ {0} /\ Len(zone) \in Nat
  BY SlottingAssumption DEF Members
<1>4. CASE left = <<>>
  <2>1. NobodyLeft(lines, skus, zones, zone)
    BY <1>1, <1>4 DEF NobodyLeft
  <2>2. next = zone
    BY <1>2, <1>4
  <2> QED BY <2>1, <2>2 DEF next
<1>5. CASE Len(zone) >= TargetZoneSize
  <2>1. next = zone
    BY <1>2, <1>5
  <2> QED BY <1>5, <2>1 DEF next
<1>6. CASE left # <<>> /\ ~(Len(zone) >= TargetZoneSize)
  <2> DEFINE n == Len(left)
  <2>1. n \in Nat /\ DOMAIN left = 1 .. n /\ DOMAIN left # {} /\ IsFiniteSet(DOMAIN left)
    BY <1>1, <1>6, OwnSeq
  <2> HIDE DEF n
  <2>2. \A k \in DOMAIN left : IsLift(score[k]) /\ score[k] = Score(lines, left[k], zone)
    BY ScoreHighest
  <2> HIDE DEF score
  <2>3. best \in DOMAIN left /\ isBest(best)
    <3> DEFINE B == {k \in DOMAIN left : \A j \in DOMAIN left : AtLeast(score[k], score[j])}
    <3>1. B # {} /\ B \in SUBSET Nat
      <4>1. \E k \in DOMAIN left : \A j \in DOMAIN left : AtLeast(score[k], score[j])
        BY <2>1, <2>2, HighestLift
      <4> QED BY <2>1, <4>1
    <3>2. PICK k \in B : \A m \in B : k <= m
      <4> HIDE DEF B
      <4> QED BY <3>1, LeastNumber
    <3>3. ASSUME NEW j \in 1 .. k - 1 PROVE ~AtLeast(score[j], score[k])
      <4> SUFFICES ASSUME AtLeast(score[j], score[k]) PROVE FALSE
        OBVIOUS
      <4>1. j \in DOMAIN left /\ j < k /\ k \in DOMAIN left
        BY <2>1, <3>2
      <4>2. \A i \in DOMAIN left : AtLeast(score[j], score[i])
        <5> SUFFICES ASSUME NEW i \in DOMAIN left PROVE AtLeast(score[j], score[i])
          OBVIOUS
        <5>1. AtLeast(score[k], score[i])
          BY <3>2
        <5> QED BY <2>2, <4>1, <5>1, AtLeastTrans
      <4>3. j \in B /\ j \in Int /\ k \in Int
        BY <2>1, <4>1, <4>2
      <4> QED BY <3>2, <4>1, <4>3
    <3>4. \E x \in DOMAIN left : isBest(x)
      BY <3>2, <3>3
    <3> HIDE DEF isBest
    <3> QED BY <3>4
  <2> HIDE DEF best, isBest
  <2>4. IsLift(score[best]) /\ score[best] = Score(lines, left[best], zone)
    BY <2>2, <2>3
  <2>5. CASE Passes(score[best])
    <3>1. next = Append(zone, left[best])
      BY <1>2, <1>6, <2>5
    <3>2. PICK j \in DOMAIN zone : score[best] = Lift(lines, left[best], zone[j])
      BY <2>4, ScoreHighest
    <3>3. Together(lines, left[best], zone[j])
      BY <2>5, <3>2, LiftPasses
    <3>4. left[best] \in ToSet(skus) /\ left[best] \notin Claimed(zones) \union ToSet(zone)
      BY <1>1, <2>3
    <3>5. Len(zone) < TargetZoneSize
      BY <1>3, <1>6
    <3>6. Grows(lines, skus, zones, zone, next)
      BY <3>1, <3>3, <3>4, <3>5 DEF Grows
    <3> QED BY <3>6 DEF next
  <2>6. CASE ~Passes(score[best])
    <3>1. next = zone
      BY <1>2, <1>6, <2>6
    <3>2. ASSUME NEW a \in ToSet(skus), a \notin Claimed(zones) \union ToSet(zone), NEW j \in DOMAIN zone,
                 Together(lines, a, zone[j])
          PROVE  FALSE
      <4>1. PICK i \in DOMAIN left : left[i] = a
        BY <1>1, <3>2
      <4>2. Passes(Lift(lines, a, zone[j])) /\ IsLift(Lift(lines, a, zone[j]))
        BY <3>2, LiftPasses
      <4>3. AtLeast(score[i], Lift(lines, a, zone[j])) /\ IsLift(score[i])
        BY <2>2, <4>1, ScoreHighest
      <4>4. Passes(score[i])
        BY <4>2, <4>3, PassesUp
      <4>5. AtLeast(score[best], score[i])
        BY <2>3 DEF isBest
      <4> QED BY <2>4, <2>6, <4>3, <4>4, <4>5, PassesUp
    <3>3. NobodyLeft(lines, skus, zones, zone)
      BY <3>2 DEF NobodyLeft
    <3> QED BY <3>1, <3>3 DEF next
  <2> QED BY <2>5, <2>6
<1> QED BY <1>4, <1>5, <1>6
-----------------------------------------------------------------------------
(* The trail of a fold over a sequence: what it holds after k elements.    *)
LEMMA IntervalTop ==
  ASSUME NEW n \in Nat, NEW k \in 1 .. n
  PROVE  /\ 1 .. k \in SUBSET (1 .. n) /\ 1 .. k # {}
         /\ Max(1 .. k) = k /\ (1 .. k) \ {k} = 1 .. (k - 1)
<1>1. 1 .. k \in SUBSET Int /\ k \in 1 .. k /\ IsFiniteSet(1 .. k)
  BY FS_Interval
<1>2. Max(1 .. k) \in 1 .. k /\ \A y \in 1 .. k : Max(1 .. k) >= y
  BY <1>1, MaxInSet
<1> DEFINE m == Max(1 .. k)
<1>3. m \in 1 .. k /\ m >= k
  BY <1>1, <1>2
<1> HIDE DEF m
<1>4. m = k
  BY <1>3
<1> QED BY <1>4 DEF m

IsTopFold(it, n, base, step) ==
  \A T \in SUBSET (1 .. n) : it[T] = IF T = {} THEN base ELSE step[<<Max(T), it[T \ {Max(T)}]>>]

(* FoldLeft goes on so, one step after the other.                          *)
LEMMA TopFold ==
  ASSUME NEW n \in Nat, NEW V, NEW base \in V, NEW step \in [(1 .. n) \X V -> V]
  PROVE  \E it \in [SUBSET (1 .. n) -> V] : IsTopFold(it, n, base, step)
<1> DEFINE D == 1 .. n
           choice == [T \in SUBSET D |-> Max(T)]
<1>1. D \in SUBSET Int /\ IsFiniteSet(D)
  BY FS_Interval
<1>2. \A T \in SUBSET D : T # {} => Max(T) \in T
  BY <1>1, MaxInSet, FS_Subset
<1>3. Chooses(choice, D) /\ \A T \in SUBSET D : choice[T] = Max(T)
  BY <1>2 DEF Chooses
<1>4. step \in [D \X V -> V]
  OBVIOUS
<1> HIDE DEF D, choice
<1>5. PICK it \in [SUBSET D -> V] : IsFold(it, D, base, choice, step)
  BY <1>1, <1>3, <1>4, FoldExists
<1>6. \A T \in SUBSET D : it[T] = IF T = {} THEN base ELSE step[<<Max(T), it[T \ {Max(T)}]>>]
  BY <1>3, <1>5 DEF IsFold
<1> QED BY <1>6 DEF D, IsTopFold

-----------------------------------------------------------------------------
(* One zone as it grows.                                                   *)
Joined(lines, zone) ==
  \A k \in 2 .. Len(zone) : \E j \in 1 .. k - 1 : Together(lines, zone[k], zone[j])

(* What holds of a zone from its seed on.                                  *)
Growing(lines, skus, zones, seed, zone) ==
  /\ zone \in Members /\ seed \in ToSet(zone)
  /\ ToSet(zone) \subseteq ToSet(skus) /\ ToSet(zone) \intersect Claimed(zones) = {}
  /\ Len(zone) <= TargetZoneSize
  /\ Joined(lines, zone)

LEMMA GrowType ==
  ASSUME NEW lines, IsFiniteSet(DOMAIN lines), NEW skus \in Seq(Codes), NEW zones, NEW zone \in Members
  PROVE  Grow(lines, skus, zones, zone) \in Members
<1> DEFINE next == Grow(lines, skus, zones, zone)
<1>1. next = zone \/ Grows(lines, skus, zones, zone, next)
  BY GrowCases
<1> HIDE DEF next
<1>2. CASE Grows(lines, skus, zones, zone, next)
  <2>1. PICK a \in ToSet(skus) : next = Append(zone, a)
    BY <1>2 DEF Grows
  <2>2. a \in Codes /\ zone \in Seq(Codes)
    BY DEF ToSet, Members
  <2>3. next \in Seq(Codes) /\ Len(next) = Len(zone) + 1 /\ Len(zone) \in Nat
    BY <2>1, <2>2
  <2>4. next # <<>>
    BY <2>3
  <2> QED BY <2>3, <2>4 DEF Members, next
<1> QED BY <1>1, <1>2 DEF next

(* Another member leaves it so.                                            *)
LEMMA GrowKeeps ==
  ASSUME NEW lines, NEW skus \in Seq(Codes), NEW zones, NEW seed, NEW zone,
         Growing(lines, skus, zones, seed, zone), NEW next, Grows(lines, skus, zones, zone, next)
  PROVE  Growing(lines, skus, zones, seed, next) /\ Len(next) = Len(zone) + 1
<1>1. PICK a \in ToSet(skus) : /\ a \notin Claimed(zones) \union ToSet(zone) /\ next = Append(zone, a)
                              /\ \E j \in DOMAIN zone : Together(lines, a, zone[j])
  BY DEF Grows
<1>2. a \in Codes /\ zone \in Seq(Codes)
  BY DEF ToSet, Members, Growing
<1> DEFINE n == Len(zone)
<1>3. /\ n \in Nat /\ DOMAIN zone = 1 .. n /\ next \in Seq(Codes) /\ Len(next) = n + 1
      /\ DOMAIN next = 1 .. n + 1 /\ next[n + 1] = a /\ \A k \in 1 .. n : next[k] = zone[k]
  BY <1>1, <1>2
<1>4. n < TargetZoneSize
  BY DEF Grows
<1>5. Joined(lines, zone)
  BY DEF Growing
<1> HIDE DEF n
<1>6. ToSet(next) = ToSet(zone) \union {a}
  BY <1>3 DEF ToSet
<1>7. Joined(lines, next)
  <2> SUFFICES ASSUME NEW k \in 2 .. n + 1
               PROVE  \E j \in 1 .. k - 1 : Together(lines, next[k], next[j])
    BY <1>3 DEF Joined
  <2>1. CASE k \in 2 .. n
    <3>1. PICK j \in 1 .. k - 1 : Together(lines, zone[k], zone[j])
      BY <1>5, <2>1 DEF Joined, n
    <3>2. j \in 1 .. n /\ k \in 1 .. n
      BY <1>3, <2>1
    <3> QED BY <1>3, <3>1, <3>2
  <2>2. CASE k = n + 1
    <3>1. PICK j \in DOMAIN zone : Together(lines, a, zone[j])
      BY <1>1
    <3>2. j \in 1 .. n /\ j \in 1 .. k - 1
      BY <1>3, <2>2
    <3> QED BY <1>3, <2>2, <3>1, <3>2
  <2> QED BY <1>3, <2>1, <2>2
<1>8. next # <<>> /\ Len(next) <= TargetZoneSize
  <2>1. n + 1 <= TargetZoneSize
    BY <1>3, <1>4, SlottingAssumption
  <2>2. Len(<<>>) = 0
    OBVIOUS
  <2>3. n + 1 # 0
    BY <1>3
  <2> QED BY <1>3, <2>1, <2>2, <2>3
<1>9. Growing(lines, skus, zones, seed, next)
  BY <1>1, <1>3, <1>6, <1>7, <1>8 DEF Growing, Members
<1> QED BY <1>3, <1>9 DEF n

LEMMA SeedAlone ==
  ASSUME NEW lines, NEW skus \in Seq(Codes), NEW zones, NEW seed \in ToSet(skus), seed \notin Claimed(zones)
  PROVE  Growing(lines, skus, zones, seed, <<seed>>)
<1>1. seed \in Codes
  BY DEF ToSet
<1>2. <<seed>> \in Seq(Codes) /\ Len(<<seed>>) = 1 /\ DOMAIN <<seed>> = {1} /\ <<seed>>[1] = seed
  BY <1>1
<1>3. <<seed>> \in Members
  BY <1>2 DEF Members
<1>4. ToSet(<<seed>>) = {seed}
  BY <1>2 DEF ToSet
<1>5. Joined(lines, <<seed>>)
  BY <1>2 DEF Joined
<1> QED BY <1>2, <1>3, <1>4, <1>5, SlottingAssumption DEF Growing

IsGrowTrail(h, lines, skus, zones, seed) ==
  /\ h[0] = <<seed>>
  /\ \A k \in 1 .. TargetZoneSize : h[k] = Grow(lines, skus, zones, h[k - 1])
  /\ GrowZone(lines, skus, zones, seed) = h[TargetZoneSize]

(* GrowZone has a trail of zones, from the seed to its result.             *)
LEMMA GrowTrail ==
  ASSUME NEW lines, IsFiniteSet(DOMAIN lines), NEW skus \in Seq(Codes), NEW zones, NEW seed \in Codes
  PROVE  \E h : IsGrowTrail(h, lines, skus, zones, seed)
<1> DEFINE n == TargetZoneSize
           D == 1 .. n
           next(zone) == Grow(lines, skus, zones, zone)
           step == [p \in D \X Members |-> next(p[2])]
           body(f) == [T \in SUBSET D |-> IF T = {} THEN <<seed>> ELSE next(f[T \ {Max(T)}])]
           iter == CHOOSE f : f = body(f)
           q == [k \in D |-> k]
<1>1. n \in Nat \ {0}
  BY SlottingAssumption
<1>2. <<seed>> \in Members
  BY DEF Members
<1>3. \A zone \in Members : next(zone) \in Members
  BY GrowType
<1>4. GrowZone(lines, skus, zones, seed) = iter[D]
  BY DEF GrowZone, FoldLeft, MapThenFoldSet
<1> HIDE DEF next, n
<1>5. step \in [D \X Members -> Members] /\ \A i \in D, zone \in Members : step[<<i, zone>>] = next(zone)
  BY <1>3
<1>6. PICK it \in [SUBSET D -> Members] :
        \A T \in SUBSET D : it[T] = IF T = {} THEN <<seed>> ELSE step[<<Max(T), it[T \ {Max(T)}]>>]
  <2> DEFINE base == <<seed>>
  <2>1. base \in Members /\ n \in Nat
    BY <1>1, <1>2
  <2>2. step \in [(1 .. n) \X Members -> Members]
    BY <1>5
  <2> HIDE DEF step, base
  <2>3. \E it \in [SUBSET (1 .. n) -> Members] : IsTopFold(it, n, base, step)
    BY ONLY <2>1, <2>2, TopFold
  <2> QED BY <2>3 DEF base, IsTopFold
<1>7. it = body(it)
  <2>1. \A T \in SUBSET D : T # {} => Max(T) \in D
    <3> SUFFICES ASSUME NEW T \in SUBSET D, T # {} PROVE Max(T) \in D
      OBVIOUS
    <3>0. D \in SUBSET Int /\ IsFiniteSet(D)
      BY <1>1, FS_Interval
    <3>1. T \in SUBSET Int /\ IsFiniteSet(T)
      BY <3>0, FS_Subset
    <3> QED BY <3>1, MaxInSet
  <2>2. \A T \in SUBSET D : it[T] = IF T = {} THEN <<seed>> ELSE next(it[T \ {Max(T)}])
    <3> SUFFICES ASSUME NEW T \in SUBSET D, T # {} PROVE it[T] = next(it[T \ {Max(T)}])
      BY <1>6
    <3>1. it[T] = step[<<Max(T), it[T \ {Max(T)}]>>]
      BY <1>6
    <3>2. Max(T) \in D /\ it[T \ {Max(T)}] \in Members
      BY <1>6, <2>1
    <3> HIDE DEF step, D
    <3> QED BY <1>5, <3>1, <3>2
  <2> QED BY <1>6, <2>2
<1>8. iter = body(iter)
  <2> HIDE DEF body
  <2> QED BY <1>7
<1> DEFINE h == [k \in 0 .. n |-> iter[1 .. k]]
<1>9. h[0] = <<seed>>
  <2>1. 1 .. 0 = {} /\ {} \in SUBSET D
    OBVIOUS
  <2>2. iter[{}] = <<seed>>
    BY <1>8
  <2> HIDE DEF iter
  <2> QED BY <1>1, <2>1, <2>2
<1>10. \A k \in 1 .. n : h[k] = next(h[k - 1])
  <2> SUFFICES ASSUME NEW k \in 1 .. n PROVE h[k] = next(h[k - 1])
    OBVIOUS
  <2>1. /\ 1 .. k \in SUBSET D /\ 1 .. k # {} /\ Max(1 .. k) = k /\ (1 .. k) \ {k} = 1 .. (k - 1)
    BY <1>1, IntervalTop
  <2>2. iter[1 .. k] = next(iter[(1 .. k) \ {Max(1 .. k)}])
    BY <1>8, <2>1
  <2>3. k \in 0 .. n /\ k - 1 \in 0 .. n
    BY <1>1
  <2> HIDE DEF iter
  <2> QED BY <2>1, <2>2, <2>3
<1>11. iter[D] = h[n]
  <2> HIDE DEF iter
  <2> QED BY <1>1
<1> HIDE DEF iter, h
<1>12. \E g : /\ g[0] = <<seed>> /\ \A k \in 1 .. n : g[k] = next(g[k - 1])
              /\ GrowZone(lines, skus, zones, seed) = g[n]
  BY <1>4, <1>9, <1>10, <1>11
<1> QED BY <1>12 DEF n, next, IsGrowTrail

(* A zone that is done is Growing still, and is full or has left nobody    *)
(* out who would pass: one that did not grow in some step does not in any  *)
(* later.                                                                  *)
LEMMA ZoneGrown ==
  ASSUME NEW lines, IsFiniteSet(DOMAIN lines), NEW skus \in Seq(Codes), NEW zones,
         NEW seed \in ToSet(skus), seed \notin Claimed(zones)
  PROVE  /\ Growing(lines, skus, zones, seed, GrowZone(lines, skus, zones, seed))
         /\ \/ Len(GrowZone(lines, skus, zones, seed)) >= TargetZoneSize
            \/ NobodyLeft(lines, skus, zones, GrowZone(lines, skus, zones, seed))
<1> DEFINE n == TargetZoneSize
           next(zone) == Grow(lines, skus, zones, zone)
           stuck(zone) == Len(zone) >= n \/ NobodyLeft(lines, skus, zones, zone)
           good(zone) == Growing(lines, skus, zones, seed, zone)
<1>0. seed \in Codes
  BY DEF ToSet
<1>20. PICK h : IsGrowTrail(h, lines, skus, zones, seed)
  BY <1>0, GrowTrail
<1>1. /\ h[0] = <<seed>> /\ \A k \in 1 .. n : h[k] = next(h[k - 1])
      /\ GrowZone(lines, skus, zones, seed) = h[n]
  BY <1>20 DEF IsGrowTrail
<1>2. n \in Nat \ {0}
  BY SlottingAssumption
<1>3. good(<<seed>>) /\ Len(<<seed>>) = 1
  BY SeedAlone
<1>4. \A zone : good(zone) => zone \in Members /\ Len(zone) \in Nat
  BY DEF Growing, Members
<1>5. \A zone : good(zone) => \/ good(next(zone)) /\ Len(next(zone)) = Len(zone) + 1 /\ ~stuck(zone)
                              \/ next(zone) = zone /\ stuck(zone)
  <2> SUFFICES ASSUME NEW zone, good(zone)
               PROVE  \/ good(next(zone)) /\ Len(next(zone)) = Len(zone) + 1 /\ ~stuck(zone)
                      \/ next(zone) = zone /\ stuck(zone)
    OBVIOUS
  <2>1. CASE Grows(lines, skus, zones, zone, next(zone))
    <3>1. good(next(zone)) /\ Len(next(zone)) = Len(zone) + 1
      BY <2>1, GrowKeeps
    <3>2. Len(zone) < n /\ Len(zone) \in Nat
      BY <1>4, <2>1 DEF Grows
    <3>3. ~NobodyLeft(lines, skus, zones, zone)
      BY <2>1 DEF Grows, NobodyLeft
    <3>4. ~stuck(zone)
      <4> DEFINE m == Len(zone)
      <4>1. m < n /\ m \in Nat
        BY <3>2
      <4> HIDE DEF m, n
      <4>2. ~(m >= n)
        BY <1>2, <4>1
      <4> QED BY <3>3, <4>2 DEF m, n
    <3> QED BY <3>1, <3>4
  <2>2. CASE next(zone) = zone /\ stuck(zone)
    BY <2>2
  <2> QED BY <1>4, <2>1, <2>2, GrowCases
<1> HIDE DEF n, next, stuck, good
<1> DEFINE P(k) == good(h[k]) /\ (Len(h[k]) = k + 1 \/ stuck(h[k]))
<1>6. \A k \in 0 .. n : P(k)
  <2> DEFINE B == {k \in 0 .. n : ~P(k)}
  <2> SUFFICES ASSUME B # {} PROVE FALSE
    OBVIOUS
  <2>1. PICK m \in B : \A k \in B : m <= k
    <3>1. B # {} /\ B \in SUBSET Nat
      BY <1>2
    <3> HIDE DEF B
    <3> QED BY <3>1, LeastNumber
  <2>2. P(0)
    BY <1>1, <1>3
  <2>30. m \in 0 .. n /\ m # 0
    BY <2>1, <2>2
  <2>3. m \in 1 .. n /\ m - 1 \in 0 .. n /\ ~(m <= m - 1) /\ (m - 1) + 1 = m
    BY <1>2, <2>30
  <2>4. P(m - 1)
    BY <2>1, <2>3
  <2> DEFINE z == h[m - 1]
  <2>5. h[m] = next(z)
    BY <1>1, <2>3
  <2>6. good(z) /\ (Len(z) = m \/ stuck(z))
    BY <2>3, <2>4
  <2> HIDE DEF z
  <2>7. CASE good(next(z)) /\ Len(next(z)) = Len(z) + 1 /\ ~stuck(z)
    <3>1. good(h[m]) /\ Len(h[m]) = m + 1
      BY <2>5, <2>6, <2>7
    <3> QED BY <2>1, <3>1
  <2>8. CASE next(z) = z /\ stuck(z)
    <3>1. good(h[m]) /\ stuck(h[m])
      BY <2>5, <2>6, <2>8
    <3> QED BY <2>1, <3>1
  <2> QED BY <1>5, <2>6, <2>7, <2>8
<1>7. good(h[n]) /\ (Len(h[n]) >= n \/ stuck(h[n]))
  <2>1. P(n)
    BY <1>2, <1>6
  <2>2. CASE Len(h[n]) = n + 1
    BY <1>2, <2>1, <2>2
  <2> QED BY <2>1, <2>2
<1> QED BY <1>1, <1>7 DEF good, stuck, n
-----------------------------------------------------------------------------
(* The zones, one after the other.                                         *)
Alone(lines, skus, zones, z) ==
  \A a \in ToSet(skus) : (\A y \in 1 .. z : a \notin ToSet(zones[y])) =>
    \A b \in ToSet(zones[z]) : ~Together(lines, a, b)

(* What holds of the zones so far.                                         *)
Coherent(lines, skus, zones) ==
  /\ zones \in Seq(Members)
  /\ Claimed(zones) \subseteq ToSet(skus)
  /\ \A y, z \in DOMAIN zones : y # z => ToSet(zones[y]) \intersect ToSet(zones[z]) = {}
  /\ \A z \in DOMAIN zones :
       /\ Len(zones[z]) <= TargetZoneSize /\ Joined(lines, zones[z])
       /\ Len(zones[z]) < TargetZoneSize => Alone(lines, skus, zones, z)

(* One zone more leaves it so.                                             *)
LEMMA ZoneAdded ==
  ASSUME NEW lines, IsFiniteSet(DOMAIN lines), NEW skus \in Seq(Codes), NEW zones, Coherent(lines, skus, zones),
         NEW seed \in ToSet(skus), seed \notin Claimed(zones)
  PROVE  /\ Coherent(lines, skus, Append(zones, GrowZone(lines, skus, zones, seed)))
         /\ seed \in Claimed(Append(zones, GrowZone(lines, skus, zones, seed)))
         /\ Claimed(zones) \subseteq Claimed(Append(zones, GrowZone(lines, skus, zones, seed)))
<1> DEFINE zone == GrowZone(lines, skus, zones, seed)
           more == Append(zones, zone)
           n == Len(zones)
<1>1. /\ Growing(lines, skus, zones, seed, zone)
      /\ Len(zone) >= TargetZoneSize \/ NobodyLeft(lines, skus, zones, zone)
  BY ZoneGrown
<1> HIDE DEF zone
<1>2. zone \in Members /\ zones \in Seq(Members)
  BY <1>1 DEF Growing, Coherent
<1>3. /\ n \in Nat /\ DOMAIN zones = 1 .. n /\ more \in Seq(Members) /\ DOMAIN more = 1 .. n + 1
      /\ more[n + 1] = zone /\ \A z \in 1 .. n : more[z] = zones[z]
  BY <1>2
<1> HIDE DEF more, n
<1>4. Claimed(more) = Claimed(zones) \union ToSet(zone)
  BY <1>3 DEF Claimed
<1>5. \A y \in 1 .. n : ToSet(zones[y]) \subseteq Claimed(zones)
  BY <1>3 DEF Claimed
<1>6. ToSet(zone) \subseteq ToSet(skus) /\ ToSet(zone) \intersect Claimed(zones) = {} /\ seed \in ToSet(zone)
  BY <1>1 DEF Growing
<1>7. ASSUME NEW y \in DOMAIN more, NEW z \in DOMAIN more, y # z
      PROVE  ToSet(more[y]) \intersect ToSet(more[z]) = {}
  <2>1. CASE y = n + 1
    <3>1. z \in 1 .. n
      BY <1>3, <1>7, <2>1
    <3> QED BY <1>3, <1>5, <1>6, <2>1, <3>1
  <2>2. CASE z = n + 1
    <3>1. y \in 1 .. n
      BY <1>3, <1>7, <2>2
    <3> QED BY <1>3, <1>5, <1>6, <2>2, <3>1
  <2>3. CASE y \in 1 .. n /\ z \in 1 .. n
    BY <1>3, <1>7, <2>3 DEF Coherent
  <2> QED BY <1>3, <2>1, <2>2, <2>3
<1>8. ASSUME NEW z \in DOMAIN more
      PROVE  /\ Len(more[z]) <= TargetZoneSize /\ Joined(lines, more[z])
             /\ Len(more[z]) < TargetZoneSize => Alone(lines, skus, more, z)
  <2>1. CASE z \in 1 .. n
    <3>1. more[z] = zones[z] /\ z \in DOMAIN zones
      BY <1>3, <2>1
    <3>2. /\ Len(zones[z]) <= TargetZoneSize /\ Joined(lines, zones[z])
          /\ Len(zones[z]) < TargetZoneSize => Alone(lines, skus, zones, z)
      BY <3>1 DEF Coherent
    <3>3. \A y \in 1 .. z : more[y] = zones[y]
      BY <1>3, <2>1
    <3>4. Alone(lines, skus, zones, z) => Alone(lines, skus, more, z)
      BY <3>1, <3>3 DEF Alone
    <3> QED BY <3>1, <3>2, <3>4
  <2>2. CASE z = n + 1
    <3>1. Len(zone) <= TargetZoneSize /\ Joined(lines, zone)
      BY <1>1 DEF Growing
    <3>2. ASSUME NobodyLeft(lines, skus, zones, zone) PROVE Alone(lines, skus, more, z)
      <4> SUFFICES ASSUME NEW a \in ToSet(skus), \A y \in 1 .. n + 1 : a \notin ToSet(more[y]),
                          NEW b \in ToSet(zone)
                   PROVE  ~Together(lines, a, b)
        BY <1>3, <2>2 DEF Alone
      <4>1. n + 1 \in 1 .. n + 1 /\ \A y \in 1 .. n : y \in 1 .. n + 1
        BY <1>3
      <4>2. a \notin ToSet(zone) /\ a \notin Claimed(zones)
        BY <1>3, <4>1 DEF Claimed
      <4>3. PICK j \in DOMAIN zone : b = zone[j]
        BY DEF ToSet
      <4> QED BY <3>2, <4>2, <4>3 DEF NobodyLeft
    <3>3. Len(zone) < TargetZoneSize => ~(Len(zone) >= TargetZoneSize)
      <4> DEFINE m == Len(zone)
      <4>1. m \in Nat
        BY <1>2 DEF Members
      <4> HIDE DEF m
      <4>2. m < TargetZoneSize => ~(m >= TargetZoneSize)
        BY <4>1, SlottingAssumption
      <4> QED BY <4>2 DEF m
    <3> QED BY <1>1, <1>3, <2>2, <3>1, <3>2, <3>3
  <2> QED BY <1>3, <2>1, <2>2
<1>9. Claimed(zones) \subseteq ToSet(skus)
  BY DEF Coherent
<1>10. Coherent(lines, skus, more)
  BY <1>3, <1>4, <1>6, <1>7, <1>8, <1>9 DEF Coherent
<1> QED BY <1>4, <1>6, <1>10 DEF more, zone

Clustered(lines, skus, zones, seed) ==
  IF seed \in Claimed(zones) THEN zones ELSE Append(zones, GrowZone(lines, skus, zones, seed))

IsClusterTrail(h, lines, skus) ==
  /\ h[0] = <<>>
  /\ \A k \in DOMAIN skus : h[k] = Clustered(lines, skus, h[k - 1], skus[k])
  /\ GreedyCluster(lines, skus) = h[Len(skus)]

(* GreedyCluster has a trail of lists of zones.                            *)
LEMMA ClusterTrail ==
  ASSUME NEW lines, IsFiniteSet(DOMAIN lines), NEW skus \in Seq(Codes)
  PROVE  \E h : IsClusterTrail(h, lines, skus)
<1> DEFINE n == Len(skus)
           D == 1 .. n
           Z == Seq(Members)
           next(zones, seed) == Clustered(lines, skus, zones, seed)
           step == [p \in D \X Z |-> next(p[2], skus[p[1]])]
           body(f) == [T \in SUBSET (DOMAIN skus) |->
                         IF T = {} THEN <<>> ELSE next(f[T \ {Max(T)}], skus[Max(T)])]
           iter == CHOOSE f : f = body(f)
<1>1. n \in Nat /\ DOMAIN skus = D /\ \A k \in D : skus[k] \in ToSet(skus)
  BY DEF ToSet
<1>2. <<>> \in Z
  OBVIOUS
<1>3. \A zones \in Z, k \in D : next(zones, skus[k]) \in Z
  <2> SUFFICES ASSUME NEW zones \in Z, NEW k \in D, skus[k] \notin Claimed(zones)
               PROVE  Append(zones, GrowZone(lines, skus, zones, skus[k])) \in Z
    BY DEF Clustered
  <2>1. Growing(lines, skus, zones, skus[k], GrowZone(lines, skus, zones, skus[k]))
    BY <1>1, ZoneGrown
  <2>2. GrowZone(lines, skus, zones, skus[k]) \in Members
    BY <2>1 DEF Growing
  <2> QED BY <2>2
<1>4. GreedyCluster(lines, skus) = iter[DOMAIN skus]
  BY DEF GreedyCluster, FoldLeft, MapThenFoldSet, Clustered
<1> HIDE DEF next, n
<1>5. step \in [D \X Z -> Z] /\ \A i \in D, zones \in Z : step[<<i, zones>>] = next(zones, skus[i])
  BY <1>3
<1>6. PICK it \in [SUBSET D -> Z] :
        \A T \in SUBSET D : it[T] = IF T = {} THEN <<>> ELSE step[<<Max(T), it[T \ {Max(T)}]>>]
  <2> DEFINE base == <<>>
  <2>1. base \in Z /\ n \in Nat
    BY <1>1, <1>2
  <2>2. step \in [(1 .. n) \X Z -> Z]
    BY <1>5
  <2> HIDE DEF step, base, Z
  <2>3. \E it \in [SUBSET (1 .. n) -> Z] : IsTopFold(it, n, base, step)
    BY ONLY <2>1, <2>2, TopFold
  <2> QED BY <2>3 DEF base, IsTopFold
<1>7. it = body(it)
  <2>1. \A T \in SUBSET D : T # {} => Max(T) \in D
    <3> SUFFICES ASSUME NEW T \in SUBSET D, T # {} PROVE Max(T) \in D
      OBVIOUS
    <3>0. D \in SUBSET Int /\ IsFiniteSet(D)
      BY <1>1, FS_Interval
    <3>1. T \in SUBSET Int /\ IsFiniteSet(T)
      BY <3>0, FS_Subset
    <3> QED BY <3>1, MaxInSet
  <2>2. \A T \in SUBSET D : it[T] = IF T = {} THEN <<>> ELSE next(it[T \ {Max(T)}], skus[Max(T)])
    <3> SUFFICES ASSUME NEW T \in SUBSET D, T # {} PROVE it[T] = next(it[T \ {Max(T)}], skus[Max(T)])
      BY <1>6
    <3>1. it[T] = step[<<Max(T), it[T \ {Max(T)}]>>]
      BY <1>6
    <3>2. Max(T) \in D /\ it[T \ {Max(T)}] \in Z
      BY <1>6, <2>1
    <3> HIDE DEF step, D, Z
    <3> QED BY <1>5, <3>1, <3>2
  <2> QED BY <1>1, <1>6, <2>2
<1>8. iter = body(iter)
  <2> HIDE DEF body
  <2> QED BY <1>7
<1> DEFINE h == [k \in 0 .. n |-> iter[1 .. k]]
<1>9. h[0] = <<>>
  <2>1. 1 .. 0 = {} /\ {} \in SUBSET (DOMAIN skus)
    OBVIOUS
  <2>2. iter[{}] = <<>>
    BY <1>8
  <2> HIDE DEF iter
  <2> QED BY <1>1, <2>1, <2>2
<1>10. \A k \in D : h[k] = next(h[k - 1], skus[k])
  <2> SUFFICES ASSUME NEW k \in 1 .. n PROVE h[k] = next(h[k - 1], skus[k])
    OBVIOUS
  <2>1. /\ 1 .. k \in SUBSET D /\ 1 .. k # {} /\ Max(1 .. k) = k /\ (1 .. k) \ {k} = 1 .. (k - 1)
    BY <1>1, IntervalTop
  <2>2. iter[1 .. k] = next(iter[(1 .. k) \ {Max(1 .. k)}], skus[Max(1 .. k)])
    BY <1>1, <1>8, <2>1
  <2>3. k \in 0 .. n /\ k - 1 \in 0 .. n
    BY <1>1
  <2> HIDE DEF iter
  <2> QED BY <2>1, <2>2, <2>3
<1>11. iter[DOMAIN skus] = h[n]
  <2> HIDE DEF iter
  <2> QED BY <1>1
<1> HIDE DEF iter, h
<1>12. \E g : /\ g[0] = <<>> /\ \A k \in DOMAIN skus : g[k] = next(g[k - 1], skus[k])
              /\ GreedyCluster(lines, skus) = g[n]
  BY <1>1, <1>4, <1>9, <1>10, <1>11
<1> QED BY <1>12 DEF n, next, IsClusterTrail

(* At its end the zones are coherent and claim all of skus.                *)
LEMMA ClustersCohere ==
  ASSUME NEW lines, IsFiniteSet(DOMAIN lines), NEW skus \in Seq(Codes)
  PROVE  /\ Coherent(lines, skus, GreedyCluster(lines, skus))
         /\ Claimed(GreedyCluster(lines, skus)) = ToSet(skus)
<1> DEFINE n == Len(skus)
           P(h, k) == Coherent(lines, skus, h[k]) /\ \A i \in 1 .. k : skus[i] \in Claimed(h[k])
<1>1. PICK h : IsClusterTrail(h, lines, skus)
  BY ClusterTrail
<1>2. /\ n \in Nat /\ DOMAIN skus = 1 .. n /\ \A k \in 1 .. n : skus[k] \in ToSet(skus)
  BY DEF ToSet
<1>3. /\ h[0] = <<>> /\ \A k \in 1 .. n : h[k] = Clustered(lines, skus, h[k - 1], skus[k])
      /\ GreedyCluster(lines, skus) = h[n]
  BY <1>1, <1>2 DEF IsClusterTrail
<1> HIDE DEF n
<1>4. P(h, 0)
  <2>1. <<>> \in Seq(Members) /\ DOMAIN <<>> = {}
    OBVIOUS
  <2>2. Coherent(lines, skus, <<>>)
    BY <2>1 DEF Coherent, Claimed
  <2> QED BY <1>3, <2>2
<1>5. \A k \in 0 .. n : P(h, k)
  <2> DEFINE B == {k \in 0 .. n : ~P(h, k)}
  <2> SUFFICES ASSUME B # {} PROVE FALSE
    OBVIOUS
  <2>1. PICK m \in B : \A k \in B : m <= k
    <3>1. B # {} /\ B \in SUBSET Nat
      BY <1>2
    <3> HIDE DEF B
    <3> QED BY <3>1, LeastNumber
  <2>2. m \in 0 .. n /\ m # 0
    BY <1>4, <2>1
  <2>3. m \in 1 .. n /\ m - 1 \in 0 .. n /\ ~(m <= m - 1)
    BY <1>2, <2>2
  <2>4. P(h, m - 1)
    BY <2>1, <2>3
  <2> DEFINE zones == h[m - 1]
             next == Clustered(lines, skus, zones, skus[m])
  <2>5. Coherent(lines, skus, zones) /\ \A i \in 1 .. m - 1 : skus[i] \in Claimed(zones)
    BY <2>4
  <2>6. h[m] = next
    BY <1>3, <2>3
  <2> HIDE DEF zones, P
  <2>7. Coherent(lines, skus, next) /\ skus[m] \in Claimed(next) /\ Claimed(zones) \subseteq Claimed(next)
    <3>1. CASE skus[m] \in Claimed(zones)
      BY <2>5, <3>1 DEF Clustered
    <3>2. CASE skus[m] \notin Claimed(zones)
      <4>1. skus[m] \in ToSet(skus)
        BY <1>2, <2>3
      <4>2. next = Append(zones, GrowZone(lines, skus, zones, skus[m]))
        BY <3>2 DEF Clustered
      <4> HIDE DEF next
      <4> QED BY <2>5, <3>2, <4>1, <4>2, ZoneAdded
    <3> QED BY <3>1, <3>2
  <2> HIDE DEF next
  <2>8. \A i \in 1 .. m : i = m \/ i \in 1 .. m - 1
    BY <2>3
  <2>9. P(h, m)
    BY <2>5, <2>6, <2>7, <2>8 DEF P
  <2> QED BY <2>1, <2>9
<1>6. P(h, n)
  BY <1>2, <1>5
<1>7. ToSet(skus) \subseteq Claimed(h[n])
  BY <1>2, <1>6 DEF ToSet
<1>8. Claimed(h[n]) \subseteq ToSet(skus)
  BY <1>6 DEF Coherent
<1> QED BY <1>3, <1>6, <1>7, <1>8

(* The products at the top of the metrics.                                 *)
LEMMA TopOfType ==
  ASSUME NEW metrics, Descending(metrics)
  PROVE  TopOf(metrics) \in Seq(Codes)
<1> DEFINE n == Len(metrics)
           m == Min({TopSkus, n})
           rows == SubSeq(metrics, 1, m)
<1>1. metrics \in Seq(ToSet(metrics)) /\ \A k \in DOMAIN metrics : metrics[k].sku \in Codes
  BY DEF Descending, Metric
<1>2. n \in Nat /\ DOMAIN metrics = 1 .. n
  BY <1>1, OwnSeq
<1>3. m \in Nat /\ m <= n
  <2> HIDE DEF n
  <2>1. TopSkus \in Int /\ n \in Int /\ TopSkus \in Nat
    BY <1>2, SlottingAssumption
  <2>2. m \in {TopSkus, n} /\ m <= TopSkus /\ m <= n
    BY <2>1, LowerOfTwo
  <2> QED BY <1>2, <2>1, <2>2
<1> HIDE DEF n, m
<1>4. rows = [k \in 1 .. m |-> metrics[k]]
  BY <1>3 DEF SubSeq
<1>5. DOMAIN rows = 1 .. m /\ \A k \in 1 .. m : rows[k].sku \in Codes
  BY <1>1, <1>2, <1>3, <1>4
<1> DEFINE t == [k \in DOMAIN rows |-> rows[k].sku]
<1>6. TopOf(metrics) = t
  BY DEF TopOf, m, n
<1> HIDE DEF rows
<1>7. t = [k \in 1 .. m |-> t[k]] /\ DOMAIN t = 1 .. m /\ \A k \in 1 .. m : t[k] \in Codes
  BY <1>5
<1> HIDE DEF t
<1>8. t \in Seq(Codes)
  BY ONLY <1>3, <1>7, MadeSeq
<1> QED BY <1>6, <1>8

(* ZonesCohere does likewise.                                              *)
LEMMA ZonesFollow == IInv /\ Within /\ RunSound => ZonesCohere
<1> SUFFICES ASSUME IInv, Within, RunSound, run.at = "published", run.script = "analyze" PROVE ZonesCohere
  BY DEF ZonesCohere, Published
<1> DEFINE metrics == CleanedMetrics(FlaggedLines)
           lines == PatternLines(Loaded(1), Flagged(FlaggedLines))
           skus == TopOf(metrics)
           zones == GreedyCluster(lines, skus)
<1>1. skus \in Seq(Codes)
  BY MetricsDescend, TopOfType
<1>2. IsFiniteSet(DOMAIN lines)
  <2>1. Table(Loaded(1))
    BY LoadedTables
  <2>2. Table(lines)
    BY <2>1, RowsTable DEF PatternLines
  <2> HIDE DEF lines
  <2> QED BY <2>2, OwnSeq DEF Table
<1>3. run.published.lines = FlaggedLines /\ run.published.metrics = metrics /\ run.published.zones = zones
  BY DEF RunSound, AsComputed, Zoned, ComputeZoning
<1> HIDE DEF metrics, skus
<1>4. Coherent(lines, skus, zones) /\ Claimed(zones) = ToSet(skus)
  <2> HIDE DEF lines
  <2> QED BY <1>1, <1>2, ClustersCohere
<1> HIDE DEF zones
<1> DEFINE n == Len(zones)
<1>5. n \in Nat /\ DOMAIN zones = 1 .. n /\ \A z \in 1 .. n : zones[z] \in Members
  BY <1>4 DEF Coherent
<1>6. ASSUME NEW z \in 1 .. n, NEW k \in 2 .. Len(zones[z])
      PROVE  \E j \in 1 .. k - 1 : Together(lines, zones[z][k], zones[z][j])
  BY <1>4, <1>5 DEF Coherent, Joined
<1>7. ASSUME NEW z \in 1 .. n, Len(zones[z]) < TargetZoneSize, NEW y \in z + 1 .. n,
             NEW a \in ToSet(zones[y]), NEW b \in ToSet(zones[z])
      PROVE  ~Together(lines, a, b)
  <2> HIDE DEF n, lines
  <2>1. y \in 1 .. n /\ \A x \in 1 .. z : x \in 1 .. n /\ x # y
    BY <1>5, <1>7
  <2>2. \A x \in 1 .. z : a \notin ToSet(zones[x])
    BY <1>4, <1>5, <2>1 DEF Coherent
  <2>3. a \in ToSet(skus)
    BY <1>4, <1>5, <2>1 DEF Claimed
  <2>4. Alone(lines, skus, zones, z)
    BY <1>4, <1>5, <1>7 DEF Coherent
  <2> QED BY <2>2, <2>3, <2>4 DEF Alone
<1>8. lines = PatternLines(Loaded(1), Flagged(run.published.lines))
  BY <1>3
<1>9. Claimed(run.published.zones) = ToSet(TopOf(run.published.metrics))
  BY <1>3, <1>4 DEF skus
<1> HIDE DEF lines
<1>10. /\ \A y, z \in DOMAIN zones : y # z => ToSet(zones[y]) \intersect ToSet(zones[z]) = {}
       /\ \A z \in DOMAIN zones : Len(zones[z]) <= TargetZoneSize
  BY <1>4 DEF Coherent
<1> DEFINE seen == PatternLines(Loaded(1), Flagged(run.published.lines))
<1>11. /\ Claimed(zones) = ToSet(TopOf(run.published.metrics))
       /\ \A y, z \in DOMAIN zones : y # z => ToSet(zones[y]) \intersect ToSet(zones[z]) = {}
       /\ \A z \in DOMAIN zones :
            /\ Len(zones[z]) <= TargetZoneSize
            /\ \A k \in 2 .. Len(zones[z]) : \E j \in 1 .. k - 1 : Together(seen, zones[z][k], zones[z][j])
            /\ Len(zones[z]) < TargetZoneSize =>
                 \A y \in z + 1 .. Len(zones) : \A a \in ToSet(zones[y]) :
                   \A b \in ToSet(zones[z]) : ~Together(seen, a, b)
  <2> HIDE DEF seen
  <2>1. lines = seen
    BY <1>8 DEF seen
  <2> QED BY <1>3, <1>5, <1>6, <1>7, <1>9, <1>10, <2>1
<1>12. zones = run.published.zones
  BY <1>3
<1> HIDE DEF seen
<1>13. /\ Claimed(run.published.zones) = ToSet(TopOf(run.published.metrics))
       /\ \A y, z \in DOMAIN run.published.zones :
            y # z => ToSet(run.published.zones[y]) \intersect ToSet(run.published.zones[z]) = {}
       /\ \A z \in DOMAIN run.published.zones :
            /\ Len(run.published.zones[z]) <= TargetZoneSize
            /\ \A k \in 2 .. Len(run.published.zones[z]) :
                 \E j \in 1 .. k - 1 : Together(seen, run.published.zones[z][k], run.published.zones[z][j])
            /\ Len(run.published.zones[z]) < TargetZoneSize =>
                 \A y \in z + 1 .. Len(run.published.zones) : \A a \in ToSet(run.published.zones[y]) :
                   \A b \in ToSet(run.published.zones[z]) : ~Together(seen, a, b)
  BY ONLY <1>11, <1>12
<1> QED BY <1>13, Zenon DEF ZonesCohere, Together, seen

(* The zones analyze_v2.py publishes part the top products among them,     *)
(* keep to their size, grow only by products ordered often enough with a   *)
(* member, and leave out nobody who is while they have room                *)
(* (_greedy_cluster).                                                      *)
THEOREM ZonesAlways == Spec => []ZonesCohere
<1>1. IInv /\ Within /\ RunSound /\ [Next]_vars => (IInv /\ Within /\ RunSound)'
  BY StepKeeps, StepWithin, StepSound
<1>2. Init => IInv /\ Within /\ RunSound
  BY Initially, InitWithin, InitSound
<1> QED BY <1>1, <1>2, ZonesFollow, PTL DEF Spec
-----------------------------------------------------------------------------
(* One row for each product.  At most one row is taken of a table.         *)
LEMMA OneRowAtMost ==
  ASSUME NEW S, NEW table \in Seq(S), NEW rows,
         \A i, j \in DOMAIN table : i \in rows /\ j \in rows => i = j
  PROVE  /\ Len(RowsAt(table, rows)) \in {0, 1}
         /\ Len(RowsAt(table, rows)) = 1 <=> DOMAIN table \intersect rows # {}
<1> DEFINE t == RowsAt(table, rows)
           m == Len(t)
<1>1. t \in Seq(S)
  BY RowsAtHas
<1>2. PICK b : Picks(t, table, rows, b)
  BY RowsAtPicks
<1>3. DOMAIN table \subseteq Int
  BY OwnSeq
<1> HIDE DEF t
<1>4. m \in Nat /\ DOMAIN t = 1 .. m
  BY <1>1
<1>5. \A i, j \in DOMAIN t : i = j
  <2> SUFFICES ASSUME NEW i \in DOMAIN t, NEW j \in DOMAIN t PROVE i = j
    OBVIOUS
  <2>1. b[i] = b[j]
    BY <1>2 DEF Picks
  <2> QED BY <1>1, <1>2, <1>3, <2>1, PicksOne
<1>6. \A k \in DOMAIN table \intersect rows : \E i \in DOMAIN t : b[i] = k
  BY <1>2 DEF Picks
<1>7. \A i \in DOMAIN t : b[i] \in DOMAIN table \intersect rows
  BY <1>2 DEF Picks
<1> HIDE DEF m
<1>8. m \in {0, 1}
  <2>1. m >= 2 => 1 \in DOMAIN t /\ 2 \in DOMAIN t
    BY <1>4
  <2>2. m >= 2 => 1 = 2
    BY <1>5, <2>1
  <2>3. m \in Nat /\ ~(m >= 2)
    BY <1>4, <2>2
  <2> QED BY ONLY <2>3
<1>9. m = 1 <=> DOMAIN t # {}
  <2>1. CASE m = 1
    <3>1. 1 \in DOMAIN t
      BY <1>4, <2>1
    <3> QED BY <2>1, <3>1
  <2>2. CASE m = 0
    <3>1. DOMAIN t = 1 .. 0
      BY <1>4, <2>2
    <3>2. DOMAIN t = {}
      BY <3>1
    <3> QED BY <2>2, <3>2
  <2> QED BY <1>8, <2>1, <2>2
<1> QED BY <1>6, <1>7, <1>8, <1>9 DEF m, t

(* One row at most for a code on the sheet.                                *)
LEMMA OneRowFor ==
  ASSUME NEW s, SheetOK(s), \A i, j \in DOMAIN s.rows : s.rows[i].code = s.rows[j].code => i = j, NEW sku
  PROVE  Len(RowsFor(LoadDimensions(s), sku)) \in {0, 1}
<1> DEFINE dims == LoadDimensions(s)
           rows == {k \in DOMAIN dims : dims[k].product_code = sku}
<1>1. /\ dims \in Seq(ToSet(dims)) /\ DOMAIN dims = DOMAIN s.rows
      /\ \A k \in DOMAIN dims : dims[k].product_code = s.rows[k].code
  BY DimsType
<1> HIDE DEF dims
<1>2. \A i, j \in DOMAIN dims : i \in rows /\ j \in rows => i = j
  BY <1>1
<1> HIDE DEF rows
<1>3. Len(RowsAt(dims, rows)) \in {0, 1}
  BY <1>1, <1>2, OneRowAtMost
<1> QED BY <1>3 DEF RowsFor, dims, rows

(* One row each is a count of one.                                         *)
LEMMA OnceTimes ==
  ASSUME NEW M, NEW skus, OnceEach(M, skus), NEW sku
  PROVE  Times(M, sku) = IF sku \in skus THEN 1 ELSE 0
<1> DEFINE K == {k \in DOMAIN M : M[k].sku = sku}
<1>1. CASE sku \in skus
  <2>1. PICK k \in DOMAIN M : M[k].sku = sku
    BY <1>1 DEF OnceEach
  <2>2. K = {k}
    BY <2>1 DEF OnceEach
  <2>3. Cardinality(K) = 1
    BY <2>2, FS_Singleton
  <2> QED BY <1>1, <2>3 DEF Times
<1>2. CASE sku \notin skus
  <2>1. K = {}
    BY <1>2 DEF OnceEach
  <2>2. Cardinality(K) = 0
    BY <2>1, FS_EmptySet
  <2> QED BY <1>2, <2>2 DEF Times
<1> QED BY <1>1, <1>2

(* Rows that are made of M one by one have each product as often.          *)
LEMMA OnceMore ==
  ASSUME NEW M, NEW skus, OnceEach(M, skus), DOMAIN M \subseteq Int,
         NEW table, DOMAIN table = DOMAIN M, \A k \in DOMAIN M : table[k].sku = M[k].sku,
         NEW S, NEW t \in Seq(S), NEW b, Picks(t, table, DOMAIN table, b)
  PROVE  OnceEach(t, skus)
<1>1. \A i \in DOMAIN t : b[i] \in DOMAIN M /\ t[i] = table[b[i]] /\ t[i].sku = M[b[i]].sku
  BY DEF Picks
<1>2. \A i \in DOMAIN t : t[i].sku \in skus
  BY <1>1 DEF OnceEach
<1>3. ASSUME NEW s \in skus PROVE \E i \in DOMAIN t : t[i].sku = s
  <2>1. PICK k \in DOMAIN M : M[k].sku = s
    BY DEF OnceEach
  <2>2. PICK i \in DOMAIN t : b[i] = k
    BY DEF Picks
  <2> QED BY <1>1, <2>1, <2>2
<1>4. ASSUME NEW i \in DOMAIN t, NEW j \in DOMAIN t, t[i].sku = t[j].sku PROVE i = j
  <2>1. b[i] = b[j]
    BY <1>1, <1>4 DEF OnceEach
  <2> QED BY <2>1, PicksOne
<1> QED BY <1>2, <1>3, <1>4 DEF OnceEach

(* Tags repeat nothing then.                                               *)
LEMMA TagsOnce ==
  ASSUME NEW M, Descending(M), NEW skus, OnceEach(M, skus),
         NEW dims, dims \in Seq(ToSet(dims)), \A sku : Len(RowsFor(dims, sku)) \in {0, 1}
  PROVE  /\ OnceEach(ApplyTags(M, dims), skus)
         /\ \E b : Picks(ApplyTags(M, dims), M, DOMAIN M, b)
<1> DEFINE ss == TagRows(M, dims)
           t == ApplyTags(M, dims)
           S == ToSet(M)
<1>1. M \in Seq(S)
  BY DEF Descending
<1>2. /\ ss \in Seq(Seq(S)) /\ DOMAIN ss = DOMAIN M /\ t = FlattenSeq(ss)
      /\ \A k \in DOMAIN M : Len(ss[k]) = Repeats(dims, M[k].sku) /\ \A j \in DOMAIN ss[k] : ss[k][j] = M[k]
  BY <1>1, TagRowsType
<1>3. \A k \in DOMAIN M : Len(ss[k]) = 1
  <2> SUFFICES ASSUME NEW k \in DOMAIN M PROVE Len(ss[k]) = 1
    OBVIOUS
  <2>1. Len(RowsFor(dims, M[k].sku)) <= 1
    <3> DEFINE m == Len(RowsFor(dims, M[k].sku))
    <3>1. m \in {0, 1}
      OBVIOUS
    <3> HIDE DEF m
    <3>2. m <= 1
      BY <3>1
    <3> QED BY <3>2 DEF m
  <2>2. Repeats(dims, M[k].sku) = 1
    BY <2>1, RepeatsType
  <2> HIDE DEF ss
  <2> QED BY <1>2, <2>2
<1> HIDE DEF ss, t
<1>4. \A k \in DOMAIN ss : ss[k][1] = M[k]
  <2> SUFFICES ASSUME NEW k \in DOMAIN ss PROVE ss[k][1] = M[k]
    OBVIOUS
  <2>1. ss[k] \in Seq(S) /\ Len(ss[k]) = 1
    BY <1>2, <1>3
  <2>2. 1 \in DOMAIN ss[k]
    BY <2>1
  <2> QED BY <1>2, <2>2
<1>5. t \in Seq(S) /\ \E b : Picks(t, M, DOMAIN M, b)
  BY <1>2, <1>3, <1>4, FlattenSingles
<1>6. DOMAIN M \subseteq Int
  BY <1>1, OwnSeq
<1>7. OnceEach(t, skus)
  BY <1>5, <1>6, OnceMore
<1> QED BY <1>5, <1>7 DEF t
-----------------------------------------------------------------------------
(* The units sold.  A line of the sale orders that has a product is        *)
(* flagged or stays among those that are kept.                             *)
Quantity(t) == [k \in DOMAIN t |-> t[k].qty]

LEMMA TotalIsSum ==
  ASSUME NEW t
  PROVE  TotalQty(t) = SumFunctionOnSet(Quantity(t), DOMAIN t)
<1> DEFINE f == Quantity(t)
<1>1. DOMAIN f = DOMAIN t
  BY DEF Quantity
<1>2. TotalQty(t) = SumFunction(f)
  BY DEF TotalQty, Quantity
<1> HIDE DEF f
<1>3. SumFunction(f) = SumFunctionOnSet(f, DOMAIN f)
  BY DEF SumFunction, SumFunctionOnSet, FoldFunction, FoldFunctionOnSet
<1> QED BY <1>1, <1>2, <1>3 DEF f

(* The total of some rows, as a sum over their numbers.                    *)
LEMMA TotalOfRows ==
  ASSUME NEW S, NEW t \in Seq(S), NEW rows, \A k \in DOMAIN t : k \in rows => t[k].qty \in Int
  PROVE  /\ TotalQty(RowsAt(t, rows)) = SumFunctionOnSet(Quantity(t), DOMAIN t \intersect rows)
         /\ Addends(Quantity(t), DOMAIN t \intersect rows, Int)
<1> DEFINE f == Quantity(t)
           u == RowsAt(t, rows)
           h == Quantity(u)
           K == DOMAIN t \intersect rows
<1>1. IsFiniteSet(K)
  BY OwnSeq, FS_Subset
<1>2. Addends(f, K, Int)
  BY <1>1 DEF Addends, Quantity
<1>3. \A k \in K : \A i \in DOMAIN u : u[i] = t[k] => h[i] = f[k]
  BY DEF Quantity
<1>4. TotalQty(u) = SumFunctionOnSet(h, DOMAIN u)
  BY TotalIsSum
<1> HIDE DEF f, h
<1>5. SumFunctionOnSet(h, DOMAIN u) = SumFunctionOnSet(f, K)
  BY <1>2, <1>3, SumOfRows
<1> QED BY <1>2, <1>4, <1>5 DEF f

(* The units sold are those of the lines kept and of the lines flagged.    *)
LEMMA SoldParts ==
  ASSUME NEW so, Table(so), NEW t, Table(t), NEW b, Matching(t, so, b)
  PROVE  SumFunctionOnSet([k \in DOMAIN so |-> OrZero(so[k].qty)], {k \in DOMAIN so : so[k].sku # NaN})
           = TotalQty(Clean(Kept(t))) + TotalQty(Flagged(t))
<1> DEFINE f == [k \in DOMAIN so |-> OrZero(so[k].qty)]
           S == {k \in DOMAIN so : so[k].sku # NaN}
           h == Quantity(t)
           A == {i \in DOMAIN t : t[i].sku # NaN}
           F == {i \in DOMAIN t : t[i].is_full_pallet_line}
           N == {i \in DOMAIN t : ~t[i].is_full_pallet_line}
           c == [i \in A |-> b[i]]
<1>1. /\ t \in Seq(ToSet(t)) /\ IsFiniteSet(DOMAIN t) /\ DOMAIN t \subseteq Int /\ IsFiniteSet(DOMAIN so)
  BY OwnSeq DEF Table
<1>2. \A k \in DOMAIN so : OrZero(so[k].qty) \in Int /\ f[k] = OrZero(so[k].qty)
  BY NotANumber DEF Table, Line, OrZero
<1>3. \A i \in DOMAIN t : /\ b[i] \in DOMAIN so /\ t[i].sku = so[b[i]].sku /\ t[i].qty = OrZero(so[b[i]].qty)
                          /\ t[i].is_full_pallet_line => t[i].sku # NaN
  BY DEF Matching, OfLine
<1>4. \A i \in DOMAIN t : t[i].qty \in Int /\ h[i] = t[i].qty
  BY <1>2, <1>3 DEF Quantity
<1>5. c \in [A -> S] /\ \A i \in A : c[i] = b[i]
  BY <1>3
<1>6. (\A x, y \in A : c[x] = c[y] => x = y) /\ \A s \in S : \E x \in A : c[x] = s
  BY <1>3 DEF Matching
<1>7. IsFiniteSet(A) /\ IsFiniteSet(S)
  BY <1>1, FS_Subset
<1>8. Addends(f, S, Int) /\ Addends(h, A, Int)
  BY <1>2, <1>4, <1>7 DEF Addends
<1>9. \A x \in A : h[x] = f[c[x]]
  BY <1>2, <1>3, <1>4, <1>5
<1>10. SumFunctionOnSet(h, A) = SumFunctionOnSet(f, S)
  <2> HIDE DEF f, h, A, S, c
  <2> QED BY <1>5, <1>6, <1>7, <1>8, <1>9, SumAlong
<1>11. F \in SUBSET A /\ DOMAIN t \intersect F = F /\ A \ F = A \intersect N
  BY <1>3
<1>12. SumFunctionOnSet(h, A) = SumFunctionOnSet(h, F) + SumFunctionOnSet(h, A \ F)
  <2> HIDE DEF h, A, F, N
  <2> QED BY <1>8, <1>11, SumSplit
<1>13. TotalQty(Flagged(t)) = SumFunctionOnSet(h, F) /\ SumFunctionOnSet(h, F) \in Int
  <2>1. Flagged(t) = RowsAt(t, F)
    BY DEF Flagged
  <2> HIDE DEF F
  <2>2. /\ TotalQty(RowsAt(t, F)) = SumFunctionOnSet(h, DOMAIN t \intersect F)
        /\ Addends(h, DOMAIN t \intersect F, Int)
    BY <1>1, <1>4, TotalOfRows
  <2> HIDE DEF h
  <2>3. SumFunctionOnSet(h, DOMAIN t \intersect F) \in Int
    BY <2>2, AddendsInt
  <2> QED BY <1>11, <2>1, <2>2, <2>3
<1>14. TotalQty(Clean(Kept(t))) = SumFunctionOnSet(h, A \ F) /\ SumFunctionOnSet(h, A \ F) \in Int
  <2> DEFINE u == RowsAt(t, N)
             C == {k \in DOMAIN u : NaN \notin {u[k].sku, u[k].qty}}
             g == Quantity(u)
  <2>1. Clean(Kept(t)) = RowsAt(u, C)
    BY DEF Clean, Kept
  <2>2. u \in Seq(ToSet(t)) /\ DOMAIN t \intersect N = N
    BY <1>1, RowsAtHas
  <2>3. PICK d : Picks(u, t, N, d)
    BY <1>1, RowsAtPicks
  <2> HIDE DEF u, N
  <2>4. \A i \in DOMAIN u : d[i] \in N /\ d[i] \in DOMAIN t /\ u[i] = t[d[i]] /\ u[i].qty \in Int /\ g[i] = u[i].qty
    BY <1>4, <2>3 DEF Picks, Quantity
  <2>5. DOMAIN u \intersect C = C /\ \A i \in DOMAIN u : i \in C <=> d[i] \in A
    BY <2>4, NotANumber
  <2> HIDE DEF C
  <2>6. TotalQty(RowsAt(u, C)) = SumFunctionOnSet(g, C) /\ Addends(g, C, Int)
    BY <2>2, <2>4, <2>5, TotalOfRows
  <2> DEFINE e == [i \in C |-> d[i]]
  <2>7. e \in [C -> A \ F] /\ \A i \in C : e[i] = d[i] /\ i \in DOMAIN u
    BY <1>11, <2>4, <2>5
  <2>8. ASSUME NEW x \in C, NEW y \in C, e[x] = e[y] PROVE x = y
    <3>1. d[x] = d[y] /\ x \in DOMAIN u /\ y \in DOMAIN u
      BY <2>7, <2>8
    <3> HIDE DEF e
    <3> QED BY <1>1, <2>2, <2>3, <3>1, PicksOne
  <2>9. ASSUME NEW s \in A \ F PROVE \E x \in C : e[x] = s
    <3>1. s \in DOMAIN t \intersect N
      BY <1>11, <2>2
    <3>2. PICK x \in DOMAIN u : d[x] = s
      BY <2>3, <3>1 DEF Picks
    <3>3. x \in C
      BY <2>5, <3>2
    <3> QED BY <3>2, <3>3
  <2>10. IsFiniteSet(A \ F) /\ IsFiniteSet(C) /\ A \ F \in SUBSET A
    <3>1. IsFiniteSet(DOMAIN u)
      BY <2>2, OwnSeq
    <3> QED BY <1>7, <2>5, <3>1, FS_Subset
  <2>11. Addends(h, A \ F, Int)
    BY <1>8, <2>10, AddendsOfSubset
  <2>12. \A x \in C : g[x] = h[e[x]]
    BY <1>4, <2>4, <2>7
  <2>13. SumFunctionOnSet(g, C) = SumFunctionOnSet(h, A \ F)
    <3> DEFINE B == A \ F
    <3>1. e \in [C -> B] /\ IsFiniteSet(B) /\ Addends(h, B, Int) /\ \A s \in B : \E x \in C : e[x] = s
      BY <2>7, <2>9, <2>10, <2>11
    <3> HIDE DEF B, e, g, h
    <3>2. SumFunctionOnSet(g, C) = SumFunctionOnSet(h, B)
      BY <2>8, <2>10, <2>12, <3>1, SumAlong
    <3> QED BY <3>2 DEF B
  <2>14. SumFunctionOnSet(h, A \ F) \in Int
    BY <2>11, AddendsInt
  <2> QED BY <2>1, <2>6, <2>13, <2>14
<1> DEFINE p == SumFunctionOnSet(h, F)
           r == SumFunctionOnSet(h, A \ F)
<1>15. SumFunctionOnSet(f, S) = p + r /\ TotalQty(Flagged(t)) = p /\ TotalQty(Clean(Kept(t))) = r /\ p \in Int /\ r \in Int
  BY <1>10, <1>12, <1>13, <1>14
<1> HIDE DEF p, r, f, S
<1>16. SumFunctionOnSet(f, S) = TotalQty(Clean(Kept(t))) + TotalQty(Flagged(t))
  BY <1>15
<1> QED BY <1>16 DEF f, S

(* By product.                                                             *)
OfEach(lines, skus) == [s \in skus |-> TotalQty(LinesOf(lines, s))]

LEMMA TotalByProduct ==
  ASSUME NEW t, WholeTable(t), NEW skus, IsFiniteSet(skus), SkusOf(t) \subseteq skus
  PROVE  /\ TotalQty(t) = SumFunctionOnSet(OfEach(t, skus), skus)
         /\ Addends(OfEach(t, skus), skus, Int)
<1> DEFINE f == Quantity(t)
           D == DOMAIN t
           key == [k \in D |-> t[k].sku]
           parts == Parts(f, D, key, skus)
<1>1. t \in Seq(ToSet(t)) /\ \A k \in D : t[k].qty \in Int
  BY DEF WholeTable, Whole
<1>2. Addends(f, D, Int)
  BY WholeAddends DEF Quantity
<1>3. \A k \in D : key[k] \in skus
  BY DEF SkusOf
<1>4. TotalQty(t) = SumFunctionOnSet(f, D)
  BY TotalIsSum
<1>5. SumFunctionOnSet(f, D) = SumFunctionOnSet(parts, skus) /\ Addends(parts, skus, Int)
  <2> HIDE DEF f, D, key
  <2> QED BY <1>2, <1>3, SumOfParts
<1>6. parts = OfEach(t, skus)
  <2>1. ASSUME NEW s \in skus
        PROVE  SumFunctionOnSet(f, {k \in D : key[k] = s}) = TotalQty(LinesOf(t, s))
    <3> DEFINE R == {k \in DOMAIN t : t[k].sku = s}
    <3>1. {k \in D : key[k] = s} = R /\ DOMAIN t \intersect R = R
      OBVIOUS
    <3>2. LinesOf(t, s) = RowsAt(t, R)
      BY DEF LinesOf
    <3> HIDE DEF R
    <3>3. TotalQty(RowsAt(t, R)) = SumFunctionOnSet(f, DOMAIN t \intersect R)
      BY <1>1, TotalOfRows
    <3> QED BY <3>1, <3>2, <3>3
  <2> HIDE DEF f, key, D
  <2> QED BY <2>1 DEF Parts, OfEach
<1> QED BY <1>4, <1>5, <1>6

(* The units of the metrics are those of the lines, product by product.    *)
LEMMA UnitsByProduct ==
  ASSUME NEW so, Table(so), NEW M, NEW skus, IsFiniteSet(skus), OnceEach(M, skus), IsFiniteSet(DOMAIN M),
         \A k \in DOMAIN M : M[k].units = UnitsOf(so, M[k].sku), SkusOf(Clean(so)) \subseteq skus
  PROVE  SumFunctionOnSet([k \in DOMAIN M |-> OrZero(M[k].units)], DOMAIN M) = TotalQty(Clean(so))
<1> DEFINE h == [k \in DOMAIN M |-> OrZero(M[k].units)]
           b == [k \in DOMAIN M |-> M[k].sku]
           t == Clean(so)
           f == OfEach(t, skus)
           D == DOMAIN M
<1>1. WholeTable(t)
  BY CleanWhole
<1>2. TotalQty(t) = SumFunctionOnSet(f, skus) /\ Addends(f, skus, Int)
  <2>1. SkusOf(t) \subseteq skus
    BY DEF t
  <2> HIDE DEF t
  <2> QED BY <1>1, <2>1, TotalByProduct
<1>3. b \in [D -> skus] /\ (\A x, y \in D : b[x] = b[y] => x = y) /\ \A s \in skus : \E x \in D : b[x] = s
  BY DEF OnceEach
<1>4. ASSUME NEW k \in D PROVE h[k] = f[b[k]]
  <2> DEFINE s == M[k].sku
             u == LinesOf(t, s)
  <2>1. h[k] = OrZero(UnitsOf(so, s)) /\ b[k] = s /\ s \in skus
    BY DEF OnceEach
  <2>2. UnitsOf(so, s) = IF u = <<>> THEN NaN ELSE TotalQty(u)
    BY DEF UnitsOf
  <2>3. f[s] = TotalQty(u)
    BY <2>1 DEF OfEach
  <2>4. TotalQty(u) \in Int
    <3>1. WholeTable(u)
      BY <1>1, WholeRows DEF LinesOf
    <3> HIDE DEF u
    <3> QED BY <3>1, TotalType
  <2>5. u = <<>> => TotalQty(u) = 0
    <3> SUFFICES ASSUME u = <<>> PROVE TotalQty(u) = 0
      OBVIOUS
    <3>1. TotalQty(u) = SumFunctionOnSet(Quantity(u), DOMAIN u)
      BY TotalIsSum
    <3>2. DOMAIN u = {}
      <4> HIDE DEF u
      <4>1. DOMAIN <<>> = {}
        OBVIOUS
      <4> QED BY <4>1
    <3> HIDE DEF u
    <3> QED BY <3>1, <3>2, SumEmpty
  <2> HIDE DEF u, h, f, b, s
  <2>6. OrZero(UnitsOf(so, s)) = TotalQty(u)
    BY <2>2, <2>4, <2>5, NotANumber DEF OrZero
  <2> QED BY <2>1, <2>3, <2>6
<1>5. SumFunctionOnSet(h, D) = SumFunctionOnSet(f, skus)
  <2> HIDE DEF h, f, b, D
  <2>1. IsFiniteSet(D)
    BY DEF D
  <2> QED BY <1>2, <1>3, <1>4, <2>1, SumAlong
<1> QED BY <1>2, <1>5
-----------------------------------------------------------------------------
(* Nothing is lost of the units, and no product of the metrics.            *)
Tagged(so) == ApplyTags(ComputeVelocity(so, Loaded(2), Loaded(3)), LoadDimensions(sheet))

LEMMA SheetOnce ==
  ASSUME RunSound, run.at = "published", OneRowEach, NEW sku
  PROVE  Len(RowsFor(LoadDimensions(sheet), sku)) \in {0, 1}
  BY SheetLoaded, OneRowFor DEF OneRowEach

(* The metrics of a run have a row for each product, of its units.         *)
LEMMA MetricsOnce ==
  ASSUME IInv, Within, RunSound, run.at = "published", OneRowEach, NEW so, Table(so)
  PROVE  /\ Descending(Tagged(so)) /\ OnceEach(Tagged(so), SoldOrReceived(so, Loaded(2)))
         /\ IsFiniteSet(DOMAIN Tagged(so))
         /\ \A k \in DOMAIN Tagged(so) : Tagged(so)[k].units = UnitsOf(so, Tagged(so)[k].sku)
<1> DEFINE V == ComputeVelocity(so, Loaded(2), Loaded(3))
           dims == LoadDimensions(sheet)
           skus == SoldOrReceived(so, Loaded(2))
           M == ApplyTags(V, dims)
<1>1. Table(Loaded(2)) /\ dims \in Seq(ToSet(dims)) /\ \A sku : Len(RowsFor(dims, sku)) \in {0, 1}
  BY LoadedTables, SheetLoaded, SheetOnce
<1>2. /\ Descending(V) /\ OnceEach(V, skus)
      /\ \A k \in DOMAIN V : V[k].units = UnitsOf(so, V[k].sku)
  BY <1>1, VelocityRows
<1> HIDE DEF V, dims, skus
<1>3. Descending(M) /\ \A i \in DOMAIN M : \E k \in DOMAIN V : M[i] = V[k]
  BY <1>1, <1>2, TagsKeep
<1>4. OnceEach(M, skus)
  BY <1>1, <1>2, TagsOnce
<1> HIDE DEF M
<1>5. \A i \in DOMAIN M : M[i].units = UnitsOf(so, M[i].sku)
  BY <1>2, <1>3
<1>6. IsFiniteSet(DOMAIN M)
  BY <1>3, OwnSeq DEF Descending
<1> QED BY <1>3, <1>4, <1>5, <1>6 DEF Tagged, M, V, dims, skus

(* The lines of a run match the sale orders.                               *)
LEMMA LinesMatch ==
  ASSUME IInv, Within, RunSound, run.at = "published", OneRowEach
  PROVE  \E b : Matching(FlaggedLines, Loaded(1), b)
<1> DEFINE so == Loaded(1)
           dims == LoadDimensions(sheet)
           tagged == Tagged(so)
           skus == SoldOrReceived(so, Loaded(2))
<1>1. Table(so) /\ dims \in Seq(ToSet(dims)) /\ \A sku : Len(RowsFor(dims, sku)) \in {0, 1}
  BY LoadedTables, SheetLoaded, SheetOnce
<1>2. OnceEach(tagged, skus) /\ IsFiniteSet(DOMAIN tagged)
  BY <1>1, MetricsOnce
<1>3. FlaggedLines = DetectFullPalletLines(so, dims, tagged)
  BY DEF FlaggedLines, RawVelocity, Tagged
<1> HIDE DEF so, dims, tagged, skus
<1>4. \A sku : Times(tagged, sku) = IF sku \in skus THEN 1 ELSE 0
  BY <1>2, OnceTimes
<1>5. \A sku : Copies(tagged, sku) = Times(tagged, sku)
  BY DEF Copies, Times
<1>6. \A sku : Copies(tagged, sku) <= 1
  <2> SUFFICES ASSUME NEW sku PROVE Copies(tagged, sku) <= 1
    OBVIOUS
  <2> DEFINE m == Copies(tagged, sku)
  <2>1. m \in {0, 1}
    BY <1>4, <1>5
  <2> HIDE DEF m
  <2>2. m <= 1
    BY <2>1
  <2> QED BY <2>2 DEF m
<1>7. \A sku : Len(RowsFor(dims, sku)) <= 1
  <2> SUFFICES ASSUME NEW sku PROVE Len(RowsFor(dims, sku)) <= 1
    OBVIOUS
  <2> DEFINE m == Len(RowsFor(dims, sku))
  <2>1. m \in {0, 1}
    BY <1>1
  <2> HIDE DEF m
  <2>2. m <= 1
    BY <2>1
  <2> QED BY <2>2 DEF m
<1>8. OneEach(so, dims, tagged)
  BY <1>6, <1>7 DEF OneEach
<1>9. \E b : Matching(DetectFullPalletLines(so, dims, tagged), so, b)
  BY <1>1, <1>2, <1>8, FlaggedTable
<1> QED BY <1>3, <1>9 DEF so

(* Sold is what is in the metrics or flagged.                              *)
LEMMA UnitsFollow ==
  ASSUME IInv, Within, RunSound, run.at = "published", OneRowEach
  PROVE  UnitsConserved
<1> DEFINE so == Loaded(1)
           lines == FlaggedLines
           kept == Kept(FlaggedLines)
           metrics == Tagged(Kept(FlaggedLines))
           skus == SoldOrReceived(kept, Loaded(2))
           sold == SumFunctionOnSet([k \in DOMAIN so |-> OrZero(so[k].qty)], {k \in DOMAIN so : so[k].sku # NaN})
           left == SumFunctionOnSet([k \in DOMAIN metrics |-> OrZero(metrics[k].units)], DOMAIN metrics)
<1>1. Table(so) /\ Table(lines) /\ Table(kept) /\ Table(Loaded(2))
  BY LoadedTables, LinesTable
<1>2. sold = TotalQty(Clean(kept)) + TotalQty(Flagged(lines))
  <2>1. PICK b : Matching(lines, so, b)
    BY LinesMatch
  <2> HIDE DEF lines, so
  <2> QED BY <1>1, <2>1, SoldParts DEF lines
<1>3. left = TotalQty(Clean(kept))
  <2>1. /\ OnceEach(metrics, skus) /\ IsFiniteSet(DOMAIN metrics)
        /\ \A k \in DOMAIN metrics : metrics[k].units = UnitsOf(kept, metrics[k].sku)
    BY <1>1, MetricsOnce
  <2>2. IsFiniteSet(SkusOf(Clean(kept)) \union SkusOf(Received(Loaded(2))))
    <3>1. WholeTable(Clean(kept)) /\ WholeTable(Received(Loaded(2)))
      BY <1>1, CleanWhole, ReceivedWhole
    <3>2. IsFiniteSet(SkusOf(Clean(kept))) /\ IsFiniteSet(SkusOf(Received(Loaded(2))))
      <4> HIDE DEF kept
      <4> QED BY <3>1, SkusFinite
    <3> HIDE DEF kept
    <3> QED BY <3>2, FS_Union
  <2>3. IsFiniteSet(skus) /\ SkusOf(Clean(kept)) \subseteq skus
    <3> HIDE DEF kept
    <3> QED BY <2>2 DEF SoldOrReceived, skus
  <2> HIDE DEF metrics, kept, skus
  <2> QED BY <1>1, <2>1, <2>3, UnitsByProduct
<1>4. run.published.lines = lines /\ run.published.metrics = metrics
  BY DEF RunSound, AsComputed, CleanedMetrics, Tagged
<1>5. sold = left + TotalQty(Flagged(run.published.lines))
  <2> HIDE DEF sold, left, lines
  <2> QED BY <1>2, <1>3, <1>4
<1>6. left = SumFunctionOnSet([k \in DOMAIN run.published.metrics |-> OrZero(run.published.metrics[k].units)],
                              DOMAIN run.published.metrics)
  <2> HIDE DEF metrics
  <2> QED BY <1>4
<1> HIDE DEF left
<1> QED BY <1>5, <1>6 DEF UnitsConserved

(* Every product that moved is in the metrics once.                        *)
LEMMA MetricsFollow ==
  ASSUME IInv, Within, RunSound, run.at = "published", OneRowEach
  PROVE  /\ OnceEach(run.published.metrics, Moved) /\ Descending(run.published.metrics)
         /\ run.published.metrics = CleanedMetrics(FlaggedLines)
         /\ \A sku \in Moved : Times(run.published.metrics, sku) = 1
<1> DEFINE metrics == Tagged(Kept(FlaggedLines))
           skus == SoldOrReceived(Kept(FlaggedLines), Loaded(2))
<1>1. Table(Kept(FlaggedLines))
  BY LinesTable
<1>2. run.published.lines = FlaggedLines /\ run.published.metrics = metrics /\ metrics = CleanedMetrics(FlaggedLines)
  BY DEF RunSound, AsComputed, CleanedMetrics, Tagged
<1>3. OnceEach(metrics, skus) /\ Descending(metrics)
  BY <1>1, MetricsOnce
<1>4. Moved = skus
  BY <1>2 DEF Moved, SoldOrReceived
<1> HIDE DEF metrics, skus
<1>5. \A sku : Times(metrics, sku) = IF sku \in skus THEN 1 ELSE 0
  BY <1>3, OnceTimes
<1> QED BY <1>2, <1>3, <1>4, <1>5
-----------------------------------------------------------------------------
(* Counting.                                                               *)
LEMMA SameSize ==
  ASSUME NEW A, IsFiniteSet(A), NEW B, NEW f \in [A -> B],
         \A x, y \in A : f[x] = f[y] => x = y, \A z \in B : \E x \in A : f[x] = z
  PROVE  IsFiniteSet(B) /\ Cardinality(A) = Cardinality(B)
<1>1. f \in Bijection(A, B)
  BY DEF Bijection, Injection, Surjection, IsInjective
<1>2. ExistsBijection(A, B)
  BY <1>1 DEF ExistsBijection
<1> QED BY <1>2, FS_Bijection

(* A set has the members of two parts of it.                               *)
LEMMA SizeSplit ==
  ASSUME NEW A, IsFiniteSet(A), NEW B \in SUBSET A
  PROVE  /\ Cardinality(A) = Cardinality(B) + Cardinality(A \ B)
         /\ Cardinality(A) \in Nat /\ Cardinality(B) \in Nat /\ Cardinality(A \ B) \in Nat
<1>1. IsFiniteSet(B) /\ IsFiniteSet(A \ B)
  BY FS_Subset, FS_Difference
<1>2. Cardinality(A \ B) = Cardinality(A) - Cardinality(A \intersect B) /\ A \intersect B = B
  BY FS_Difference
<1>3. Cardinality(A) \in Nat /\ Cardinality(B) \in Nat /\ Cardinality(A \ B) \in Nat
  BY <1>1, FS_CardinalityType
<1> DEFINE a == Cardinality(A)
           b == Cardinality(B)
           c == Cardinality(A \ B)
<1>4. c = a - b
  BY <1>2
<1> HIDE DEF a, b, c
<1>5. a \in Nat /\ b \in Nat /\ c \in Nat
  BY <1>3 DEF a, b, c
<1>6. a = b + c
  BY <1>4, <1>5
<1> QED BY <1>5, <1>6 DEF a, b, c

(* Of a kind W, the rows taken are as many as there are to be taken.       *)
OfKind(t, W) == {i \in DOMAIN t : t[i] \in W}

LEMMA RowsCount ==
  ASSUME NEW S, NEW table \in Seq(S), NEW rows, NEW W
  PROVE  Cardinality(OfKind(RowsAt(table, rows), W)) = Cardinality(OfKind(table, W) \intersect rows)
<1> DEFINE t == RowsAt(table, rows)
           A == {i \in DOMAIN t : t[i] \in W}
           B == {k \in DOMAIN table : k \in rows /\ table[k] \in W}
<1>0. A = OfKind(t, W) /\ B = OfKind(table, W) \intersect rows
  BY DEF OfKind
<1>1. t \in Seq(S) /\ \E b : Picks(t, table, rows, b)
  BY RowsAtPicks
<1>2. DOMAIN table \subseteq Int
  BY OwnSeq
<1> HIDE DEF t
<1>3. PICK b : Picks(t, table, rows, b)
  BY <1>1
<1> DEFINE f == [i \in A |-> b[i]]
<1>4. f \in [A -> B] /\ \A i \in A : f[i] = b[i] /\ i \in DOMAIN t
  BY <1>3 DEF Picks
<1>5. \A z \in B : \E x \in A : f[x] = z
  <2> SUFFICES ASSUME NEW z \in B PROVE \E x \in A : f[x] = z
    OBVIOUS
  <2>1. PICK i \in DOMAIN t : b[i] = z
    BY <1>3 DEF Picks
  <2>2. t[i] = table[z]
    BY <1>3, <2>1 DEF Picks
  <2> QED BY <2>1, <2>2
<1>6. \A x, y \in A : f[x] = f[y] => x = y
  <2> SUFFICES ASSUME NEW x \in A, NEW y \in A, f[x] = f[y] PROVE x = y
    OBVIOUS
  <2>1. b[x] = b[y] /\ x \in DOMAIN t /\ y \in DOMAIN t
    BY <1>4
  <2> QED BY <1>1, <1>2, <1>3, <2>1, PicksOne
<1>7. IsFiniteSet(A)
  <2>1. IsFiniteSet(DOMAIN t)
    BY <1>1, OwnSeq
  <2> QED BY <2>1, FS_Subset
<1> HIDE DEF A, B, f
<1>8. Cardinality(A) = Cardinality(B)
  BY <1>4, <1>5, <1>6, <1>7, SameSize
<1> QED BY <1>0, <1>8 DEF t

(* One recommendation for each row of the metrics.                         *)
LEMMA RecommendedOnce ==
  ASSUME NEW M, Descending(M), NEW skus, OnceEach(M, skus),
         NEW dims, dims \in Seq(ToSet(dims)), \A sku : Len(RowsFor(dims, sku)) \in {0, 1}
  PROVE  OnceEach(RecommendSlotting(M, dims), skus)
<1> DEFINE rows(k) == IF RowsFor(dims, M[k].sku) = <<>> THEN <<NotOnSheet>> ELSE RowsFor(dims, M[k].sku)
           ss == [k \in DOMAIN M |-> Recommend(M[k], rows(k))]
           table == [k \in DOMAIN M |-> ss[k][1]]
           t == RecommendSlotting(M, dims)
           S == UNION {ToSet(ss[k]) : k \in DOMAIN M}
<1>1. t = FlattenSeq(ss)
  BY DEF RecommendSlotting
<1>2. PICK n \in Nat : DOMAIN M = 1 .. n /\ Len(M) = n
  BY DEF Descending
<1>3. \A k \in DOMAIN M : DOMAIN rows(k) = {1}
  <2> SUFFICES ASSUME NEW k \in DOMAIN M PROVE DOMAIN rows(k) = {1}
    OBVIOUS
  <2> DEFINE r == RowsFor(dims, M[k].sku)
  <2>1. r \in Seq(ToSet(dims)) /\ Len(r) \in {0, 1}
    BY RowsAtHas DEF RowsFor
  <2> HIDE DEF r
  <2>2. CASE r = <<>>
    <3>1. DOMAIN <<NotOnSheet>> = 1 .. 1
      OBVIOUS
    <3>2. rows(k) = <<NotOnSheet>>
      BY <2>2 DEF r
    <3> QED BY <3>1, <3>2
  <2>3. CASE r # <<>>
    <3>1. DOMAIN r = 1 .. 1
      BY <2>1, <2>3
    <3>2. rows(k) = r
      BY <2>3 DEF r
    <3> QED BY <3>1, <3>2
  <2> QED BY <2>2, <2>3
<1>4. \A k \in DOMAIN M : /\ ss[k] = [j \in {1} |-> ss[k][j]] /\ DOMAIN ss[k] = {1} /\ ss[k][1].sku = M[k].sku
                          /\ ss[k][1] \in S /\ table[k] = ss[k][1]
  <2>1. \A k \in DOMAIN M : /\ ss[k] = [j \in {1} |-> ss[k][j]] /\ DOMAIN ss[k] = {1} /\ ss[k][1].sku = M[k].sku
    <3> SUFFICES ASSUME NEW k \in DOMAIN M
                 PROVE  /\ ss[k] = [j \in {1} |-> ss[k][j]] /\ DOMAIN ss[k] = {1} /\ ss[k][1].sku = M[k].sku
      OBVIOUS
    <3>1. ss[k] = [j \in {1} |-> [sku |-> M[k].sku, replen_strategy |-> Strategy(M[k], rows(k)[j])]]
      BY <1>3 DEF Recommend
    <3> HIDE DEF ss
    <3> QED BY <3>1
  <2> HIDE DEF ss
  <2> QED BY <2>1 DEF ToSet
<1>5. DOMAIN ss = DOMAIN M /\ ss = [k \in 1 .. n |-> ss[k]] /\ DOMAIN table = DOMAIN M
  BY <1>2
<1> HIDE DEF ss, S, t, table
<1>6. \A k \in 1 .. n : ss[k] \in Seq(S) /\ Len(ss[k]) = 1
  <2> SUFFICES ASSUME NEW k \in 1 .. n PROVE ss[k] \in Seq(S) /\ Len(ss[k]) = 1
    OBVIOUS
  <2> DEFINE s == ss[k]
  <2>1. s = [j \in 1 .. 1 |-> s[j]] /\ DOMAIN s = 1 .. 1 /\ \A j \in 1 .. 1 : s[j] \in S
    <3>1. 1 .. 1 = {1}
      OBVIOUS
    <3> QED BY <1>2, <1>4, <3>1
  <2> HIDE DEF s
  <2>2. s \in Seq(S) /\ Len(s) = 1
    <3>1. 1 \in Nat
      OBVIOUS
    <3> QED BY ONLY <2>1, <3>1, MadeSeq
  <2> QED BY <2>2 DEF s
<1>7. ss \in Seq(Seq(S))
  <2>1. DOMAIN ss = 1 .. n /\ \A k \in 1 .. n : ss[k] \in Seq(S)
    BY <1>2, <1>5, <1>6
  <2> QED BY ONLY <1>5, <2>1, n \in Nat, MadeSeq
<1>8. t \in Seq(S) /\ \E b : Picks(t, table, DOMAIN table, b)
  <2>1. /\ \A k \in DOMAIN ss : Len(ss[k]) = 1 /\ ss[k][1] = table[k]
        /\ DOMAIN table = DOMAIN ss
    BY <1>2, <1>4, <1>5, <1>6
  <2> QED BY <1>1, <1>7, <2>1, FlattenSingles
<1>9. DOMAIN M \subseteq Int
  BY <1>2
<1>10. \A k \in DOMAIN M : table[k].sku = M[k].sku
  BY <1>4
<1>11. OnceEach(t, skus)
  BY <1>5, <1>8, <1>9, <1>10, OnceMore
<1> QED BY <1>11 DEF t
-----------------------------------------------------------------------------
(* Whoever is to be placed is placed or listed.                            *)
HasBay(dims, sku) == \E j \in DOMAIN dims : dims[j].product_code = sku /\ Wanted(dims[j])

OneRowPer(dims) == \A i, j \in DOMAIN dims : dims[i].product_code = dims[j].product_code => i = j

(* It asks for one face, any other for none.                               *)
LEMMA AskedOnce ==
  ASSUME NEW m, NEW dims, dims \in Seq(ToSet(dims)), OneRowPer(dims)
  PROVE  /\ Len(Asked(m, dims)) \in {0, 1}
         /\ Len(Asked(m, dims)) = 1 <=> HasBay(dims, m.sku)
<1> DEFINE K == {j \in DOMAIN dims : dims[j].product_code = m.sku /\ Wanted(dims[j])}
<1>1. \A i, j \in DOMAIN dims : i \in K /\ j \in K => i = j
  BY DEF OneRowPer
<1>2. DOMAIN dims \intersect K # {} <=> HasBay(dims, m.sku)
  BY DEF HasBay
<1>3. AskedRows(m, dims) = RowsAt(dims, K)
  BY DEF AskedRows
<1> HIDE DEF K
<1>4. /\ Len(RowsAt(dims, K)) \in {0, 1}
      /\ Len(RowsAt(dims, K)) = 1 <=> DOMAIN dims \intersect K # {}
  BY <1>1, OneRowAtMost
<1>5. Len(Asked(m, dims)) = Len(AskedRows(m, dims))
  BY AskedType
<1> QED BY <1>2, <1>3, <1>4, <1>5

(* And so does its one row of metrics.                                     *)
LEMMA DemandTimes ==
  ASSUME NEW M, Descending(M), NEW skus, OnceEach(M, skus), NEW dims, dims \in Seq(ToSet(dims)),
         OneRowPer(dims), NEW sku \in skus
  PROVE  Times(Demand(M, dims), sku) = IF HasBay(dims, sku) THEN 1 ELSE 0
<1> DEFINE ss == [k \in DOMAIN M |-> Asked(M[k], dims)]
           D == Demand(M, dims)
           K == {i \in DOMAIN D : D[i].sku = sku}
<1>1. PICK n \in Nat : DOMAIN M = 1 .. n /\ Len(M) = n
  BY DEF Descending
<1>2. \E o, q : Flat(D, ss, Len(M), o, q)
  BY DemandRows
<1>3. D \in Seq(ToSet(D))
  BY DemandRows DEF Descending
<1>4. \A k \in DOMAIN M : ss[k] = Asked(M[k], dims)
  OBVIOUS
<1> HIDE DEF ss, D
<1>5. PICK o, q : Flat(D, ss, n, o, q)
  BY <1>1, <1>2
<1>6. PICK c \in DOMAIN M : M[c].sku = sku /\ \A k \in DOMAIN M : M[k].sku = sku => k = c
  BY DEF OnceEach
<1>7. \A k \in DOMAIN M : /\ \A j \in DOMAIN ss[k] : ss[k][j].sku = M[k].sku
                          /\ ss[k] \in Seq(ToSet(ss[k]))
  BY <1>4, AskedType
<1>8. Len(ss[c]) \in {0, 1} /\ (Len(ss[c]) = 1 <=> HasBay(dims, sku))
  BY <1>4, <1>6, AskedOnce
<1>9. \A i \in DOMAIN D : i \in K <=> o[i] = c
  <2> SUFFICES ASSUME NEW i \in DOMAIN D PROVE D[i].sku = sku <=> o[i] = c
    OBVIOUS
  <2>1. o[i] \in DOMAIN M /\ q[i] \in DOMAIN ss[o[i]] /\ D[i] = ss[o[i]][q[i]]
    BY <1>1, <1>5 DEF Flat
  <2> QED BY <1>6, <1>7, <2>1
<1>10. DOMAIN ss[c] = 1 .. Len(ss[c])
  BY <1>7
<1>11. CASE HasBay(dims, sku)
  <2>1. DOMAIN ss[c] = {1}
    <3>1. DOMAIN ss[c] = 1 .. 1
      BY <1>8, <1>10, <1>11
    <3> QED BY <3>1
  <2>2. PICK i \in DOMAIN D : o[i] = c /\ q[i] = 1
    <3>1. c \in 1 .. n /\ 1 \in DOMAIN ss[c]
      BY <1>1, <2>1
    <3> QED BY <1>5, <3>1 DEF Flat
  <2>3. ASSUME NEW j \in K PROVE j = i
    <3>1. j \in DOMAIN D /\ o[j] = c /\ q[j] = 1
      <4>1. j \in DOMAIN D /\ o[j] = c
        BY <1>9
      <4>2. q[j] \in DOMAIN ss[c]
        BY <1>5, <4>1 DEF Flat
      <4> QED BY <2>1, <4>1, <4>2
    <3>2. i \in Int /\ j \in Int /\ c \in Int
      <4>1. DOMAIN D \subseteq Int
        BY <1>3, OwnSeq
      <4>2. c \in Int
        BY <1>1
      <4> QED BY <3>1, <4>1, <4>2
    <3>3. ~(i < j)
      BY <1>5, <2>2, <3>1, <3>2 DEF Flat
    <3>4. ~(j < i)
      BY <1>5, <2>2, <3>1, <3>2 DEF Flat
    <3> QED BY <3>2, <3>3, <3>4
  <2>4. K = {i}
    <3>1. i \in K
      BY <1>9, <2>2
    <3> HIDE DEF K
    <3> QED BY <2>3, <3>1
  <2>5. Cardinality(K) = 1
    BY <2>4, FS_Singleton
  <2> QED BY <1>11, <2>5 DEF Times, D
<1>12. CASE ~HasBay(dims, sku)
  <2>1. DOMAIN ss[c] = {}
    <3>1. DOMAIN ss[c] = 1 .. 0
      BY <1>8, <1>10, <1>12
    <3> QED BY <3>1
  <2>2. \A i \in DOMAIN D : o[i] # c
    <3> SUFFICES ASSUME NEW i \in DOMAIN D, o[i] = c PROVE FALSE
      OBVIOUS
    <3>1. q[i] \in DOMAIN ss[c]
      BY <1>5 DEF Flat
    <3> QED BY <2>1, <3>1
  <2>3. K = {}
    BY <1>9, <2>2
  <2>4. Cardinality(K) = 0
    BY <2>3, FS_EmptySet
  <2> QED BY <1>12, <2>4 DEF Times, D
<1> QED BY <1>11, <1>12

(* The rows of a kind, with a face and without one.                        *)
LEMMA CountDivided ==
  ASSUME NEW P, P \in Seq(ToSet(P)), NEW W
  PROVE  /\ Cardinality(OfKind(RowsAt(P, WithFace(P)), W)) = Cardinality(OfKind(P, W) \intersect WithFace(P))
         /\ Cardinality(OfKind(RowsAt(P, WithoutFace(P)), W)) = Cardinality(OfKind(P, W) \ WithFace(P))
         /\ Cardinality(OfKind(P, W))
              = Cardinality(OfKind(P, W) \intersect WithFace(P)) + Cardinality(OfKind(P, W) \ WithFace(P))
         /\ Cardinality(OfKind(P, W)) \in Nat
         /\ Cardinality(OfKind(P, W) \intersect WithFace(P)) \in Nat
         /\ Cardinality(OfKind(P, W) \ WithFace(P)) \in Nat
<1> DEFINE A == OfKind(P, W)
           B == A \intersect WithFace(P)
<1>1. A \in SUBSET DOMAIN P /\ B \in SUBSET A
  BY DEF OfKind
<1>2. A \intersect WithoutFace(P) = A \ WithFace(P) /\ A \ B = A \ WithFace(P)
  BY <1>1 DEF WithFace, WithoutFace
<1>3. IsFiniteSet(A)
  <2>1. IsFiniteSet(DOMAIN P)
    BY OwnSeq
  <2> QED BY <1>1, <2>1, FS_Subset
<1>4. Cardinality(OfKind(RowsAt(P, WithFace(P)), W)) = Cardinality(A \intersect WithFace(P))
  BY RowsCount
<1>5. Cardinality(OfKind(RowsAt(P, WithoutFace(P)), W)) = Cardinality(A \intersect WithoutFace(P))
  BY RowsCount
<1>6. /\ Cardinality(A) = Cardinality(B) + Cardinality(A \ B)
      /\ Cardinality(A) \in Nat /\ Cardinality(B) \in Nat /\ Cardinality(A \ B) \in Nat
  <2> HIDE DEF A, B
  <2> QED BY <1>1, <1>3, SizeSplit
<1> QED BY <1>2, <1>4, <1>5, <1>6 DEF A, B
-----------------------------------------------------------------------------
(* What the assignment returns, counted.                                   *)
LEMMA PlacedOnce ==
  ASSUME NEW S, NEW D \in Seq(S), NEW L, NEW sku
  PROVE  Times(RowsAt(Placement(D, L), WithFace(Placement(D, L))), sku)
           + Times(RowsAt(Placement(D, L), WithoutFace(Placement(D, L))), sku) = Times(D, sku)
<1> DEFINE P == Placement(D, L)
           placed == RowsAt(P, WithFace(P))
           refused == RowsAt(P, WithoutFace(P))
           W == {x \in ToSet(P) : x.sku = sku}
<1>1. /\ P \in Seq(ToSet(P)) /\ DOMAIN P = DOMAIN D /\ \A k \in DOMAIN D : P[k].sku = D[k].sku
  BY PlacementRows
<1> HIDE DEF P
<1>2. placed \in Seq(ToSet(P)) /\ refused \in Seq(ToSet(P))
  BY <1>1, Divided
<1>3. /\ Cardinality(OfKind(placed, W)) = Cardinality(OfKind(P, W) \intersect WithFace(P))
      /\ Cardinality(OfKind(refused, W)) = Cardinality(OfKind(P, W) \ WithFace(P))
      /\ Cardinality(OfKind(P, W))
           = Cardinality(OfKind(P, W) \intersect WithFace(P)) + Cardinality(OfKind(P, W) \ WithFace(P))
  <2> HIDE DEF W
  <2> QED BY <1>1, CountDivided
<1> HIDE DEF placed, refused
<1>4. OfKind(placed, W) = {k \in DOMAIN placed : placed[k].sku = sku}
  <2>1. \A k \in DOMAIN placed : placed[k] \in ToSet(P)
    BY <1>2
  <2> QED BY <2>1 DEF OfKind
<1>5. OfKind(refused, W) = {k \in DOMAIN refused : refused[k].sku = sku}
  <2>1. \A k \in DOMAIN refused : refused[k] \in ToSet(P)
    BY <1>2
  <2> QED BY <2>1 DEF OfKind
<1>6. OfKind(P, W) = {k \in DOMAIN D : D[k].sku = sku}
  <2>1. \A k \in DOMAIN P : P[k] \in ToSet(P)
    BY <1>1
  <2> QED BY <1>1, <2>1 DEF OfKind
<1> HIDE DEF W
<1>7. Times(placed, sku) + Times(refused, sku) = Times(D, sku)
  BY <1>3, <1>4, <1>5, <1>6 DEF Times
<1> QED BY <1>7 DEF placed, refused, P

(* The faces of a kind that are left, and who was refused one.             *)
FreeFaces(D, L, key) == {l \in Supply(L) \ {Taken(D, L, k) : k \in DOMAIN D} : FaceKey(L[l]) = key}

Refused(D, L) == RowsAt(Placement(D, L), WithoutFace(Placement(D, L)))

RefusedOf(D, L, key) == {k \in DOMAIN Refused(D, L) : Refused(D, L)[k].key = key}

(* Faces of a kind that stay free are given to nobody, and who wants the   *)
(* kind and has no face is listed.                                         *)
LEMMA CoverageCounts ==
  ASSUME NEW S, NEW D \in Seq(S), NEW locs, ExportOK(locs), NEW key
  PROVE  Cardinality(Faces(LoadCCLocations(locs), key)) - Cardinality(WithKey(D, key))
           = Cardinality(FreeFaces(D, LoadCCLocations(locs), key))
             - Cardinality(RefusedOf(D, LoadCCLocations(locs), key))
<1> DEFINE L == LoadCCLocations(locs)
           P == Placement(D, L)
           F == Faces(L, key)
           K == WithKey(D, key)
           refused == Refused(D, L)
           W == {x \in ToSet(P) : x.key = key}
           G == K \intersect WithFace(P)
           taken == {Taken(D, L, k) : k \in DOMAIN D}
           B == F \intersect taken
<1>1. /\ P \in Seq(ToSet(P)) /\ DOMAIN P = DOMAIN D
      /\ \A k \in DOMAIN D : P[k].key = Key(D[k]) /\ P[k].face = Taken(D, L, k)
  BY PlacementRows
<1>2. IsFiniteSet(F) /\ F \subseteq Int /\ NaN \notin F
  <2>1. IsFiniteSet(F) /\ F \subseteq DOMAIN locs /\ DOMAIN locs \subseteq Int
    BY PoolFaces
  <2> HIDE DEF F
  <2> QED BY <2>1, NotANumber
<1>3. Placing(D, L)
  BY PlacingHolds
<1>4. FreeFaces(D, L, key) = F \ B
  BY DEF FreeFaces, Faces
<1> HIDE DEF L
<1>5. refused = RowsAt(P, WithoutFace(P)) /\ refused \in Seq(ToSet(P))
  <2>1. refused = RowsAt(P, WithoutFace(P))
    BY DEF Refused
  <2> HIDE DEF P, refused
  <2> QED BY <1>1, <2>1, Divided
<1> HIDE DEF P
<1>6. K = OfKind(P, W) /\ IsFiniteSet(K)
  <2>1. \A k \in DOMAIN P : P[k] \in ToSet(P)
    BY <1>1
  <2>2. K = OfKind(P, W)
    BY <1>1, <2>1 DEF OfKind, WithKey
  <2>3. IsFiniteSet(DOMAIN D) /\ K \in SUBSET DOMAIN D
    BY OwnSeq DEF WithKey
  <2> HIDE DEF K
  <2> QED BY <2>2, <2>3, FS_Subset
<1>7. /\ Cardinality(OfKind(refused, W)) = Cardinality(OfKind(P, W) \ WithFace(P))
      /\ Cardinality(OfKind(P, W)) = Cardinality(OfKind(P, W) \intersect WithFace(P))
                                     + Cardinality(OfKind(P, W) \ WithFace(P))
      /\ Cardinality(OfKind(P, W) \intersect WithFace(P)) \in Nat
      /\ Cardinality(OfKind(P, W) \ WithFace(P)) \in Nat
  <2> HIDE DEF W, refused
  <2> QED BY <1>1, <1>5, CountDivided
<1>8. OfKind(refused, W) = RefusedOf(D, L, key)
  <2> HIDE DEF refused
  <2>1. \A k \in DOMAIN refused : refused[k] \in ToSet(P)
    BY <1>5
  <2>2. OfKind(refused, W) = {k \in DOMAIN refused : refused[k].key = key}
    BY <2>1 DEF OfKind
  <2> QED BY <2>2 DEF RefusedOf, refused
<1> DEFINE f == [k \in G |-> Taken(D, L, k)]
<1>9. \A k \in G : /\ k \in DOMAIN D /\ Key(D[k]) = key /\ f[k] = Taken(D, L, k) /\ Taken(D, L, k) # NaN
  BY <1>1 DEF WithKey, WithFace
<1>10. \A k \in DOMAIN D : Taken(D, L, k) \in F => k \in G
  <2> SUFFICES ASSUME NEW k \in DOMAIN D, Taken(D, L, k) \in F PROVE k \in G
    OBVIOUS
  <2>1. Taken(D, L, k) # NaN
    BY <1>2
  <2>2. Taken(D, L, k) \in Faces(L, Key(D[k]))
    BY <1>3, <2>1 DEF Placing
  <2>3. Key(D[k]) = key
    BY <2>2 DEF Faces
  <2> QED BY <1>1, <2>1, <2>3 DEF WithKey, WithFace
<1>11. f \in [G -> B]
  <2> SUFFICES ASSUME NEW k \in G PROVE Taken(D, L, k) \in B
    OBVIOUS
  <2>1. k \in DOMAIN D /\ Key(D[k]) = key /\ Taken(D, L, k) # NaN
    BY <1>9
  <2>2. Taken(D, L, k) \in F
    BY <1>3, <2>1 DEF Placing
  <2> QED BY <2>1, <2>2
<1>12. (\A x, y \in G : f[x] = f[y] => x = y) /\ \A z \in B : \E x \in G : f[x] = z
  <2> HIDE DEF G
  <2>1. \A x, y \in G : f[x] = f[y] => x = y
    BY <1>3, <1>9 DEF Placing
  <2>2. \A z \in B : \E x \in G : f[x] = z
    BY <1>9, <1>10
  <2> QED BY <2>1, <2>2
<1>13. IsFiniteSet(G)
  <2> HIDE DEF K
  <2> QED BY <1>6, FS_Intersection
<1>14. Cardinality(G) = Cardinality(B)
  <2> HIDE DEF f, G, B
  <2> QED BY <1>11, <1>12, <1>13, SameSize
<1>15. /\ Cardinality(F) = Cardinality(B) + Cardinality(F \ B)
       /\ Cardinality(B) \in Nat /\ Cardinality(F \ B) \in Nat
  <2>1. B \in SUBSET F
    OBVIOUS
  <2> HIDE DEF B, F
  <2> QED BY <1>2, <2>1, SizeSplit
<1> DEFINE supply == Cardinality(F)
           given == Cardinality(B)
           free == Cardinality(FreeFaces(D, L, key))
           asked == Cardinality(K)
           listed == Cardinality(RefusedOf(D, L, key))
<1>16. supply = given + free /\ given \in Nat /\ free \in Nat
  <2> HIDE DEF B, F
  <2> QED BY <1>4, <1>15
<1>17. asked = given + listed /\ listed \in Nat
  <2> HIDE DEF B, K, W, refused
  <2> QED BY <1>6, <1>7, <1>8, <1>14
<1> HIDE DEF supply, given, free, asked, listed
<1>18. supply - asked = free - listed
  BY <1>16, <1>17
<1> QED BY <1>18 DEF supply, free, asked, listed, L, F, K
-----------------------------------------------------------------------------
(* Nothing is lost.  What is counted of the result of an assignment.       *)
Counted(result, dims, L, skus) ==
  /\ \A sku \in skus :
       Times(result.assignments, sku) + Times(result.unassigned, sku) = IF HasBay(dims, sku) THEN 1 ELSE 0
  /\ \A c \in result.coverage :
       c.supply - c.demand =
         Cardinality({l \in result.unused : FaceKey(L[l]) = c.key})
         - Cardinality({k \in DOMAIN result.unassigned : result.unassigned[k].key = c.key})

(* The assignment loses nobody, for any sheet with one row for each code.  *)
LEMMA AssignmentCounted ==
  ASSUME NEW M, Descending(M), NEW skus, OnceEach(M, skus), NEW dims, dims \in Seq(ToSet(dims)),
         OneRowPer(dims), NEW locs, ExportOK(locs)
  PROVE  Counted(AssignSkusToLocations(M, dims, LoadCCLocations(locs)), dims, LoadCCLocations(locs), skus)
<1> DEFINE L == LoadCCLocations(locs)
           D == Demand(M, dims)
           P == Placement(D, L)
           result == AssignSkusToLocations(M, dims, L)
<1>1. /\ result.assignments = RowsAt(P, WithFace(P)) /\ result.unassigned = Refused(D, L)
      /\ result.coverage = IF D = <<>> THEN {} ELSE Coverage(D, L)
      /\ result.unused = Unused(D, L)
  BY DEF AssignSkusToLocations, WithFace, WithoutFace, Refused
<1>2. D \in Seq(ToSet(D))
  BY DemandRows DEF Descending
<1> HIDE DEF result, D, L
<1>3. ASSUME NEW sku \in skus
      PROVE  Times(result.assignments, sku) + Times(result.unassigned, sku) = IF HasBay(dims, sku) THEN 1 ELSE 0
  <2>1. Times(RowsAt(P, WithFace(P)), sku) + Times(RowsAt(P, WithoutFace(P)), sku) = Times(D, sku)
    BY <1>2, PlacedOnce
  <2>2. Times(D, sku) = IF HasBay(dims, sku) THEN 1 ELSE 0
    BY DemandTimes DEF D
  <2> QED BY <1>1, <2>1, <2>2 DEF Refused
<1>4. ASSUME NEW c \in result.coverage
      PROVE  c.supply - c.demand =
               Cardinality({l \in result.unused : FaceKey(L[l]) = c.key})
               - Cardinality({k \in DOMAIN result.unassigned : result.unassigned[k].key = c.key})
  <2>1. D # <<>> /\ c \in Coverage(D, L)
    BY <1>1, <1>4
  <2>2. PICK key : c = CoverageOf(D, L, key)
    BY <2>1 DEF Coverage
  <2>3. c.key = key /\ c.supply = Cardinality(Faces(L, key)) /\ c.demand = Cardinality(WithKey(D, key))
    BY <2>2 DEF CoverageOf, WithKey
  <2>4. Cardinality(Faces(L, key)) - Cardinality(WithKey(D, key))
          = Cardinality(FreeFaces(D, L, key)) - Cardinality(RefusedOf(D, L, key))
    BY <1>2, CoverageCounts DEF L
  <2>5. {l \in result.unused : FaceKey(L[l]) = c.key} = FreeFaces(D, L, key)
    BY <1>1, <2>1, <2>3 DEF Unused, FreeFaces
  <2>6. {k \in DOMAIN result.unassigned : result.unassigned[k].key = c.key} = RefusedOf(D, L, key)
    BY <1>1, <2>3 DEF RefusedOf
  <2> QED BY <2>3, <2>4, <2>5, <2>6
<1> QED BY <1>3, <1>4 DEF Counted, result, L

LEMMA HasBayToPlace ==
  ASSUME RunSound, run.at = "published", OneRowEach
  PROVE  /\ OneRowPer(LoadDimensions(sheet))
         /\ \A sku : HasBay(LoadDimensions(sheet), sku) <=> ToPlace(sku)
<1> DEFINE dims == LoadDimensions(sheet)
<1>1. /\ DOMAIN dims = DOMAIN sheet.rows
      /\ \A k \in DOMAIN sheet.rows : /\ dims[k] = LoadRow(sheet.rows[k], sheet.cols)
                                      /\ dims[k].product_code = sheet.rows[k].code
  BY SheetLoaded, DimsType
<1> HIDE DEF dims
<1>2. OneRowPer(dims)
  BY <1>1 DEF OneRowPer, OneRowEach
<1>3. \A sku : HasBay(dims, sku) <=> ToPlace(sku)
  BY <1>1 DEF HasBay, ToPlace, Wanted
<1> QED BY <1>2, <1>3 DEF dims

(* One recommendation for each product, and one place or refusal.          *)
LEMMA RecommendedFollow ==
  ASSUME IInv, Within, RunSound, run.at = "published", OneRowEach, run.script = "analyze"
  PROVE  \A sku \in Moved : Times(run.published.recommendations, sku) = 1
<1> DEFINE M == CleanedMetrics(FlaggedLines)
           dims == LoadDimensions(sheet)
           R == RecommendSlotting(M, dims)
<1>1. run.published.recommendations = R
  BY DEF RunSound, AsComputed, Recommended
<1>2. OnceEach(M, Moved) /\ Descending(M)
  BY MetricsFollow
<1>3. dims \in Seq(ToSet(dims)) /\ \A sku : Len(RowsFor(dims, sku)) \in {0, 1}
  BY SheetLoaded, SheetOnce
<1> HIDE DEF M, dims
<1>4. OnceEach(R, Moved)
  BY <1>2, <1>3, RecommendedOnce
<1> HIDE DEF R
<1>5. \A sku : Times(R, sku) = IF sku \in Moved THEN 1 ELSE 0
  BY <1>4, OnceTimes
<1> QED BY <1>1, <1>5

LEMMA PlacedCounted ==
  ASSUME IInv, Within, RunSound, run.at = "published", OneRowEach, run.script = "assign"
  PROVE  /\ \A sku \in Moved :
              Times(run.published.assignments, sku) + Times(run.published.unassigned, sku)
                = IF ToPlace(sku) THEN 1 ELSE 0
         /\ CoverageAddsUp
<1> DEFINE M == CleanedMetrics(FlaggedLines)
           dims == LoadDimensions(sheet)
           L == LoadCCLocations(export)
<1>1. /\ run.published.assignments = Placed.assignments /\ run.published.unassigned = Placed.unassigned
      /\ run.published.coverage = Placed.coverage /\ run.published.unused = Placed.unused
  BY DEF RunSound, AsComputed
<1>2. OnceEach(M, Moved) /\ Descending(M)
  BY MetricsFollow
<1>3. dims \in Seq(ToSet(dims)) /\ ExportOK(export)
  BY SheetLoaded
<1>4. OneRowPer(dims) /\ \A sku : HasBay(dims, sku) <=> ToPlace(sku)
  BY HasBayToPlace
<1>5. Placed = AssignSkusToLocations(M, dims, L)
  BY DEF Placed
<1> HIDE DEF M, dims
<1>6. Counted(Placed, dims, L, Moved)
  BY <1>2, <1>3, <1>4, <1>5, AssignmentCounted
<1>7. \A sku \in Moved :
        Times(run.published.assignments, sku) + Times(run.published.unassigned, sku)
          = IF ToPlace(sku) THEN 1 ELSE 0
  BY <1>1, <1>4, <1>6 DEF Counted
<1>8. CoverageAddsUp
  BY <1>1, <1>6 DEF Counted, CoverageAddsUp
<1> QED BY <1>7, <1>8

(* And NothingLost.                                                        *)
LEMMA NothingFollows == IInv /\ Within /\ RunSound => NothingLost
<1> SUFFICES ASSUME IInv, Within, RunSound, run.at = "published", OneRowEach PROVE NothingLost
  BY DEF NothingLost
<1>1. UnitsConserved /\ \A sku \in Moved : Times(run.published.metrics, sku) = 1
  BY UnitsFollow, MetricsFollow
<1>2. run.script = "analyze" => \A sku \in Moved : Times(run.published.recommendations, sku) = 1
  BY RecommendedFollow
<1>3. run.script = "assign" =>
        /\ \A sku \in Moved :
             Times(run.published.assignments, sku) + Times(run.published.unassigned, sku)
               = IF ToPlace(sku) THEN 1 ELSE 0
        /\ CoverageAddsUp
  BY PlacedCounted
<1> QED BY <1>1, <1>2, <1>3 DEF NothingLost

(* With one row for each code on the sheet, the joins and filters on the   *)
(* way from the files to what a script publishes lose and repeat nothing:  *)
(* the units sold are in the metrics or flagged as full pallets, every     *)
(* product that moved has one row of metrics and one recommendation, and   *)
(* one that is to be placed is placed or listed as unassigned, as the      *)
(* coverage counts (run_full_pallet_analysis, apply_tags,                  *)
(* recommend_slotting, assign_skus_to_locations).                          *)
THEOREM NothingLostAlways == Spec => []NothingLost
<1>1. IInv /\ Within /\ RunSound /\ [Next]_vars => (IInv /\ Within /\ RunSound)'
  BY StepKeeps, StepWithin, StepSound
<1>2. Init => IInv /\ Within /\ RunSound
  BY Initially, InitWithin, InitSound
<1> QED BY <1>1, <1>2, NothingFollows, PTL DEF Spec
=============================================================================
