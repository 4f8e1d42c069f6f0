---------------------------- MODULE StreamProofs -----------------------------
(***************************************************************************)
(* The stream of DTC messages: whatever serialize() writes, deserialize()  *)
(* reads back, for texts of every length; StreamInv is inductive; and the  *)
(* stream implements MessageChannel, for any number of sending threads and *)
(* any way TCP cuts the stream into pieces.                                *)
(***************************************************************************)
EXTENDS StreamProperties, SequenceTheorems, WellFoundedInduction, TLAPS

(***************************************************************************)
(* Induction over the natural numbers, with a set in the place of the      *)
(* predicate.                                                              *)
(***************************************************************************)
Less == {p \in Nat \X Nat : p[1] < p[2]}

LEMMA LessWF == IsWellFoundedOn(Less, Nat)
<1>1. Less = OpToRel(<, Nat)
  BY DEF OpToRel, Less
<1> QED
  BY <1>1, NatLessThanWellFounded, Zenon

LEMMA Smallest ==
    ASSUME NEW T \in SUBSET Nat, T # {}
    PROVE  \E x \in T : \A y \in T : x <= y
<1>1. PICK x \in T : \A y \in T : ~(<<y, x>> \in Less)
  BY LessWF, WFMin, Zenon
<1>2. ASSUME NEW y \in T
      PROVE  x <= y
  <2>1. CASE y < x
    <3>1. <<y, x>> \in Less
      BY <2>1 DEF Less
    <3> QED
      BY <1>1, <3>1
  <2>2. CASE ~(y < x)
    BY <2>2
  <2> QED
    BY <2>1, <2>2
<1> QED
  BY <1>2

LEMMA Induction ==
    ASSUME NEW P, 0 \in P, \A n \in Nat : n \in P => n + 1 \in P
    PROVE  Nat \subseteq P
<1>1. SUFFICES ASSUME Nat \ P # {} PROVE FALSE
  OBVIOUS
<1>2. PICK n \in Nat \ P : \A y \in Nat \ P : n <= y
  BY <1>1, Smallest
<1> QED
  BY <1>2

-----------------------------------------------------------------------------
(* The fields of a layout and the bytes they are written as.               *)

IsLayout(s) ==
    /\ Len(s) \in Nat
    /\ s = [i \in 1 .. Len(s) |-> s[i]]
    /\ \A i \in 1 .. Len(s) : s[i][2] \in Nat

LEMMA WrittenLayouts == \A t \in Types : IsLayout(Written[t])
<1>0. IsLayout(NoFields)
  BY DEF IsLayout, NoFields
<1>1. IsLayout(LogonResponseWrites)
  BY DEF IsLayout, LogonResponseWrites, Text
<1>2. IsLayout(RequestWrites)
  BY DEF IsLayout, RequestWrites, Text
<1>3. IsLayout(ResponseWrites)
  BY DEF IsLayout, ResponseWrites, Text
<1>4. IsLayout(RejectWrites)
  BY DEF IsLayout, RejectWrites, Text
<1>5. IsLayout(TradeWrites)
  BY DEF IsLayout, TradeWrites, Text
<1>6. IsLayout(BidAskWrites)
  BY DEF IsLayout, BidAskWrites, Text
<1>7. IsLayout(DepthWrites)
  BY DEF IsLayout, DepthWrites, Text
<1>8. IsLayout(PositionWrites)
  BY DEF IsLayout, PositionWrites, Text
<1>9. IsLayout(DefinitionRequestWrites)
  BY DEF IsLayout, DefinitionRequestWrites, Text
<1>10. IsLayout(DefinitionWrites)
  BY DEF IsLayout, DefinitionWrites, Text
<1> QED
  BY <1>0, <1>1, <1>2, <1>3, <1>4, <1>5,
     <1>6, <1>7, <1>8, <1>9, <1>10 DEF Types, Members, Written

(* What is read in the place where a field was written has its name and    *)
(* its width.                                                              *)
ReadsLike(reads, writes) ==
    /\ Len(reads) = Len(writes)
    /\ \A i \in 1 .. Len(writes) :
          /\ reads[i][1] = writes[i][1]
          /\ reads[i][2] = writes[i][2]
          /\ reads[i][2] # Remaining

LEMMA ReadLayouts ==
    /\ \A t \in Types \ {"LOGON_RESPONSE", "MARKET_DEPTH_INCREMENTAL_UPDATE"} :
          ReadsLike(Read[t], Written[t])
    /\ /\ Len(LogonResponseReads) = 2 /\ Len(LogonResponseWrites) = 2
       /\ LogonResponseReads[1][1] = LogonResponseWrites[1][1]
       /\ LogonResponseReads[1][2] = LogonResponseWrites[1][2]
       /\ LogonResponseReads[1][2] # Remaining
       /\ LogonResponseReads[2][1] = LogonResponseWrites[2][1]
       /\ LogonResponseReads[2][2] = Remaining
    /\ /\ Len(DepthReads) = 6 /\ Len(DepthWrites) = 6
       /\ \A i \in 1 .. 6 :
             /\ i # 5 => DepthReads[i][1] = DepthWrites[i][1]
             /\ DepthReads[i][2] = DepthWrites[i][2]
             /\ DepthReads[i][2] # Remaining
       /\ DepthWrites[5][1] = "size"
<1>0. ReadsLike(NoFields, NoFields)
  BY DEF ReadsLike, NoFields
<1>1. ReadsLike(RequestReads, RequestWrites)
  BY DEF ReadsLike, RequestReads, RequestWrites, Text, Remaining
<1>2. ReadsLike(ResponseReads, ResponseWrites)
  BY DEF ReadsLike, ResponseReads, ResponseWrites, Text, Remaining
<1>3. ReadsLike(RejectReads, RejectWrites)
  BY DEF ReadsLike, RejectReads, RejectWrites, Text, Remaining
<1>4. ReadsLike(TradeReads, TradeWrites)
  BY DEF ReadsLike, TradeReads, TradeWrites, Text, Remaining
<1>5. ReadsLike(BidAskReads, BidAskWrites)
  BY DEF ReadsLike, BidAskReads, BidAskWrites, Text, Remaining
<1>6. ReadsLike(PositionReads, PositionWrites)
  BY DEF ReadsLike, PositionReads, PositionWrites, Text, Remaining
<1>7. ReadsLike(DefinitionRequestReads, DefinitionRequestWrites)
  BY DEF ReadsLike, DefinitionRequestReads, DefinitionRequestWrites, Text, Remaining
<1>8. ReadsLike(DefinitionReads, DefinitionWrites)
  BY DEF ReadsLike, DefinitionReads, DefinitionWrites, Text, Remaining
<1>9. \A t \in Types \ {"LOGON_RESPONSE", "MARKET_DEPTH_INCREMENTAL_UPDATE"} :
           ReadsLike(Read[t], Written[t])
  BY <1>0, <1>1, <1>2, <1>3, <1>4, <1>5, <1>6, <1>7, <1>8
     DEF Types, Members, Read, Written
<1>10. /\ Len(LogonResponseReads) = 2 /\ Len(LogonResponseWrites) = 2
       /\ LogonResponseReads[1][1] = LogonResponseWrites[1][1]
       /\ LogonResponseReads[1][2] = LogonResponseWrites[1][2]
       /\ LogonResponseReads[1][2] # Remaining
       /\ LogonResponseReads[2][1] = LogonResponseWrites[2][1]
       /\ LogonResponseReads[2][2] = Remaining
  BY DEF LogonResponseReads, LogonResponseWrites, Remaining
<1>11. /\ Len(DepthReads) = 6 /\ Len(DepthWrites) = 6
       /\ \A i \in 1 .. 6 :
             /\ i # 5 => DepthReads[i][1] = DepthWrites[i][1]
             /\ DepthReads[i][2] = DepthWrites[i][2]
             /\ DepthReads[i][2] # Remaining
       /\ DepthWrites[5][1] = "size"
  BY DEF DepthReads, DepthWrites, Remaining
<1> QED
  BY <1>9, <1>10, <1>11

FieldName == {"zero"} \cup {Written[t][i][1] : t \in Types, i \in Nat}
FieldByte == FieldName \X Nat

LEMMA ZeroType == Zero \in FieldByte
BY DEF Zero, FieldByte, FieldName

LEMMA MessageFields ==
    ASSUME NEW m \in Messages(Types, Nat)
    PROVE  /\ m.type \in Types
           /\ Len(Written[m.type]) \in Nat
           /\ \A i \in 1 .. Len(Written[m.type]) :
                 /\ Written[m.type][i][1] \in FieldName
                 /\ Written[m.type][i][2] \in Nat
                 /\ Written[m.type][i][2] = Text => m.length[Written[m.type][i][1]] \in Nat
<1>1. PICK t \in Types : m \in [type : {t}, length : [Texts(t) -> Nat]]
  BY DEF Messages
<1>2. m.type = t /\ m.length \in [Texts(t) -> Nat]
  BY <1>1
<1> DEFINE s == Written[t]
<1>3. IsLayout(s)
  BY WrittenLayouts
<1>4. ASSUME NEW i \in 1 .. Len(s)
      PROVE  s[i][1] \in FieldName
  <2>1. i \in Nat
    BY <1>3 DEF IsLayout
  <2> QED
    BY <2>1 DEF FieldName
<1> HIDE DEF s
<1>5. ASSUME NEW i \in 1 .. Len(s), s[i][2] = Text
      PROVE  m.length[s[i][1]] \in Nat
  <2>1. i \in DOMAIN s
    BY <1>3 DEF IsLayout
  <2>2. s[i] \in {g \in ToSet(s) : g[2] = Text}
    BY <1>5, <2>1 DEF ToSet
  <2>3. s[i][1] \in Texts(t)
    BY <2>2 DEF Texts, s
  <2> QED
    BY <1>2, <2>3
<1> QED
  BY <1>2, <1>3, <1>4, <1>5 DEF IsLayout, s

(* The bytes of a field: its width, or a text and the first zero behind it. *)
LEMMA BytesOfField ==
    ASSUME NEW m, NEW f, f[1] \in FieldName, f[2] \in Nat,
           f[2] = Text => m.length[f[1]] \in Nat
    PROVE  /\ FieldBytes(m, f) \in Seq(FieldByte)
           /\ f[2] # Text => Len(FieldBytes(m, f)) = f[2]
           /\ f[2] = Text =>
                 /\ Len(FieldBytes(m, f)) = m.length[f[1]] + 1
                 /\ FieldBytes(m, f)[m.length[f[1]] + 1] = Zero
                 /\ \A k \in 1 .. m.length[f[1]] : FieldBytes(m, f)[k] # Zero
<1>1. PICK name \in FieldName : name = f[1]
  OBVIOUS
<1>2. ASSUME NEW n \in Nat
      PROVE  /\ [k \in 1 .. n |-> <<name, k>>] \in Seq(FieldByte)
             /\ Len([k \in 1 .. n |-> <<name, k>>]) = n
             /\ \A k \in 1 .. n : [j \in 1 .. n |-> <<name, j>>][k] # Zero
  <2>1. \A k \in 1 .. n : <<name, k>> \in FieldByte /\ <<name, k>> # Zero
    BY DEF FieldByte, Zero
  <2> QED
    BY <2>1
<1>3. CASE f[2] = Text
  <2>1. PICK n \in Nat : n = m.length[f[1]]
    BY <1>3
  <2>2. PICK text \in Seq(FieldByte) : text = [k \in 1 .. n |-> <<name, k>>]
    BY <1>2
  <2>3. Len(text) = n /\ \A k \in 1 .. n : text[k] # Zero
    BY <1>2, <2>2
  <2>4. FieldBytes(m, f) = Append(text, Zero)
    BY <1>1, <1>3, <2>1, <2>2 DEF FieldBytes
  <2>5. /\ Append(text, Zero) \in Seq(FieldByte)
        /\ Len(Append(text, Zero)) = n + 1
        /\ Append(text, Zero)[n + 1] = Zero
        /\ \A k \in 1 .. n : Append(text, Zero)[k] = text[k]
    BY <2>3, ZeroType, AppendProperties
  <2> QED
    BY <1>3, <2>1, <2>3, <2>4, <2>5
<1>4. CASE f[2] # Text
  <2>1. FieldBytes(m, f) = [k \in 1 .. f[2] |-> <<name, k>>]
    BY <1>1, <1>4 DEF FieldBytes
  <2> QED
    BY <1>2, <1>4, <2>1
<1> QED
  BY <1>3, <1>4

(* A field of that width, read where the bytes begin, gets all of them.    *)
LEMMA FieldIsRead ==
    ASSUME NEW m, NEW f, f[1] \in FieldName, f[2] \in Nat,
           f[2] = Text => m.length[f[1]] \in Nat,
           NEW rest \in Seq(FieldByte), NEW g, g[2] = f[2], g[2] # Remaining,
           g[3] <= Len(FieldBytes(m, f) \o rest)
    PROVE  /\ CanRead(FieldBytes(m, f) \o rest, g)
           /\ FieldRead(FieldBytes(m, f) \o rest, g) = FieldBytes(m, f)
<1>1. PICK bytes \in Seq(FieldByte) : bytes = FieldBytes(m, f)
  BY BytesOfField
<1>2. PICK all \in Seq(FieldByte) : all = bytes \o rest
  BY ConcatProperties
<1>3. PICK n \in Nat : n = Len(bytes)
  OBVIOUS
<1>4. /\ n <= Len(all)
      /\ \A k \in 1 .. n : all[k] = bytes[k]
      /\ Len(all) \in Nat
      /\ g[3] <= Len(all)
  BY <1>1, <1>2, <1>3, ConcatProperties
<1>5. SubSeq(all, 1, n) = bytes
  <2>1. SubSeq(all, 1, n) \in Seq(FieldByte) /\ Len(SubSeq(all, 1, n)) = n
    BY <1>4
  <2>2. \A k \in 1 .. n : SubSeq(all, 1, n)[k] = all[k]
    BY <1>4
  <2> QED
    BY <1>3, <1>4, <2>1, <2>2, SeqEqual
<1>6. CASE f[2] # Text
  <2>1. n = f[2]
    BY <1>1, <1>3, <1>6, BytesOfField
  <2> QED
    BY <1>1, <1>2, <1>4, <1>5, <1>6, <2>1 DEF CanRead, FieldRead
<1>7. CASE f[2] = Text
  <2>1. n >= 1 /\ bytes[n] = Zero /\ \A k \in 1 .. n - 1 : bytes[k] # Zero
    <3>1. PICK l \in Nat : l = m.length[f[1]]
      BY <1>7
    <3>2. /\ n = l + 1 /\ bytes[l + 1] = Zero
          /\ \A k \in 1 .. l : bytes[k] # Zero
      BY <1>1, <1>3, <1>7, <3>1, BytesOfField
    <3> QED
      BY <3>2
  <2> DEFINE ends == {k \in 1 .. Len(all) : all[k] = Zero}
  <2>2. n \in ends /\ \A e \in ends : n <= e
    BY <1>4, <2>1
  <2>3. ends \subseteq Nat
    BY <1>4
  <2>4. Zero \in ToSet(all)
    <3>1. n \in DOMAIN all /\ all[n] = Zero
      BY <1>4, <2>1
    <3> QED
      BY <3>1 DEF ToSet
  <2> DEFINE first == CHOOSE k \in ends : \A e \in ends : k <= e
  <2> HIDE DEF ends
  <2>5. first = n
    <3>1. PICK k : k = first
      OBVIOUS
    <3>2. k \in ends /\ \A e \in ends : k <= e
      BY <2>2, <3>1
    <3> HIDE DEF first
    <3>3. k = n
      BY <2>2, <2>3, <3>2
    <3> QED
      BY <3>1, <3>3
  <2>6. FieldRead(all, g) = SubSeq(all, 1, first)
    BY <1>7 DEF FieldRead, ends
  <2>7. CanRead(all, g)
    BY <1>4, <1>7, <2>1, <2>4 DEF CanRead, Text
  <2> QED
    BY <1>1, <1>2, <1>5, <2>5, <2>6, <2>7
<1> QED
  BY <1>6, <1>7

-----------------------------------------------------------------------------
(* The pieces of a sequence, one put behind the other: a recursion over    *)
(* the first N numbers has one solution.                                   *)
ArePieces(B, N, S) == B \in [1 .. N -> Seq(S)]

Concatenates(f, B, N) ==
    f = [n \in 0 .. N |-> IF n = 0 THEN <<>> ELSE f[n - 1] \o B[n]]

Grows(f, B, N, S) ==
    /\ f \in [0 .. N -> Seq(S)]
    /\ f[0] = <<>>
    /\ \A n \in 1 .. N : f[n] = f[n - 1] \o B[n]

LEMMA PiecesGrow ==
    ASSUME NEW S, NEW N \in Nat, NEW B, ArePieces(B, N, S)
    PROVE  \E f : Grows(f, B, N, S)
<1> DEFINE P == {k \in Nat : k <= N => \E f : Grows(f, B, k, S)}
<1>1. 0 \in P
  <2>1. Grows([n \in 0 .. 0 |-> <<>>], B, 0, S)
    BY DEF Grows
  <2> QED
    BY <2>1
<1>2. ASSUME NEW k \in Nat, k \in P
      PROVE  k + 1 \in P
  <2> SUFFICES ASSUME k + 1 <= N PROVE \E f : Grows(f, B, k + 1, S)
    OBVIOUS
  <2>1. PICK f : Grows(f, B, k, S)
    BY <1>2
  <2>2. PICK K \in 1 .. N : K = k + 1 /\ K - 1 = k
    OBVIOUS
  <2>3. B[K] \in Seq(S) /\ f[k] \in Seq(S) /\ f \in [0 .. k -> Seq(S)]
    BY <2>1, <2>2 DEF ArePieces, Grows
  <2>4. PICK last \in Seq(S) : last = f[k] \o B[K]
    BY <2>3, ConcatProperties
  <2> DEFINE g == [n \in 0 .. K |-> IF n = K THEN last ELSE f[n]]
  <2>5. g \in [0 .. K -> Seq(S)]
    BY <2>2, <2>3
  <2>6. g[0] = <<>>
    BY <2>1, <2>2 DEF Grows
  <2>7. ASSUME NEW n \in 1 .. K
        PROVE  g[n] = g[n - 1] \o B[n]
    <3>1. g[n - 1] = f[n - 1]
      BY <2>2
    <3>2. CASE n = K
      <4>1. g[K] = last /\ g[n - 1] = f[k]
        BY <2>2, <3>1, <3>2
      <4> HIDE DEF g
      <4> QED
        BY <2>4, <3>2, <4>1
    <3>3. CASE n # K
      <4>1. n \in 1 .. k /\ g[n] = f[n]
        BY <2>2, <3>3
      <4>2. f[n] = f[n - 1] \o B[n]
        BY <2>1, <4>1 DEF Grows
      <4> QED
        BY <3>1, <4>1, <4>2
    <3> QED
      BY <3>2, <3>3
  <2> HIDE DEF g
  <2>8. Grows(g, B, K, S)
    BY <2>5, <2>6, <2>7 DEF Grows
  <2> QED
    BY <2>2, <2>8
<1> HIDE DEF P
<1>3. N \in P
  BY <1>1, <1>2, Induction
<1> QED
  BY <1>3 DEF P

LEMMA GrowthIsUnique ==
    ASSUME NEW S, NEW N \in Nat, NEW B, NEW f, Grows(f, B, N, S)
    PROVE  /\ Concatenates(f, B, N)
           /\ \A g : Concatenates(g, B, N) => g = f
<1>1. f = [n \in 0 .. N |-> f[n]]
  BY DEF Grows
<1>2. ASSUME NEW n \in 0 .. N
      PROVE  f[n] = IF n = 0 THEN <<>> ELSE f[n - 1] \o B[n]
  <2>1. CASE n = 0
    BY <2>1 DEF Grows
  <2>2. CASE n # 0
    <3>1. n \in 1 .. N
      BY <2>2
    <3> QED
      BY <2>2, <3>1 DEF Grows
  <2> QED
    BY <2>1, <2>2
<1>3. ASSUME NEW g, Concatenates(g, B, N)
      PROVE  g = f
  <2>1. \A n \in 0 .. N : g[n] = IF n = 0 THEN <<>> ELSE g[n - 1] \o B[n]
    BY <1>3 DEF Concatenates
  <2> DEFINE P == {n \in Nat : n <= N => g[n] = f[n]}
  <2>2. 0 \in P
    <3>1. g[0] = <<>>
      BY <2>1
    <3> QED
      BY <3>1 DEF Grows
  <2>3. ASSUME NEW n \in Nat, n \in P
        PROVE  n + 1 \in P
    <3> SUFFICES ASSUME n + 1 <= N PROVE g[n + 1] = f[n + 1]
      OBVIOUS
    <3>1. PICK k \in 1 .. N : k = n + 1 /\ k - 1 = n /\ k # 0 /\ k \in 0 .. N
      OBVIOUS
    <3>2. g[k] = g[n] \o B[k]
      BY <2>1, <3>1
    <3>3. f[k] = f[n] \o B[k]
      BY <3>1 DEF Grows
    <3>4. g[n] = f[n]
      BY <2>3
    <3> QED
      BY <3>1, <3>2, <3>3, <3>4
  <2> HIDE DEF P
  <2>4. Nat \subseteq P
    BY <2>2, <2>3, Induction
  <2>5. \A n \in 0 .. N : g[n] = f[n]
    BY <2>4 DEF P
  <2>6. g = [n \in 0 .. N |-> g[n]]
    BY <1>3 DEF Concatenates
  <2> QED
    BY <1>1, <2>5, <2>6
<1> QED
  BY <1>1, <1>2, <1>3 DEF Concatenates

(* What serialize() has written after each field.                          *)
LEMMA SerializedFields ==
    ASSUME NEW m \in Messages(Types, Nat)
    PROVE  LET fields == Written[m.type]
           IN  /\ Serialized(m) \in [0 .. Len(fields) -> Seq(FieldByte)]
               /\ Serialized(m)[0] = <<>>
               /\ \A n \in 1 .. Len(fields) :
                     Serialized(m)[n] = Serialized(m)[n - 1] \o FieldBytes(m, fields[n])
<1>0. PICK fields : fields = Written[m.type]
  OBVIOUS
<1>1. PICK N \in Nat : N = Len(fields)
  BY <1>0, MessageFields
<1>2. PICK B : B = [n \in 1 .. N |-> FieldBytes(m, fields[n])]
  OBVIOUS
<1>3. ArePieces(B, N, FieldByte)
  BY <1>0, <1>1, <1>2, MessageFields, BytesOfField DEF ArePieces
<1>4. PICK f : Grows(f, B, N, FieldByte)
  BY <1>3, PiecesGrow
<1> DEFINE Step(g) ==
             [n \in 0 .. Len(Written[m.type]) |->
                IF n = 0 THEN <<>> ELSE g[n - 1] \o FieldBytes(m, Written[m.type][n])]
<1>5. ASSUME NEW g
      PROVE  g = Step(g) <=> Concatenates(g, B, N)
  <2>1. Step(g) = [n \in 0 .. N |-> IF n = 0 THEN <<>> ELSE g[n - 1] \o B[n]]
    BY <1>0, <1>1, <1>2
  <2> QED
    BY <2>1 DEF Concatenates
<1>6. Serialized(m) = CHOOSE g : g = Step(g)
  BY DEF Serialized
<1> HIDE DEF Step
<1>7. f = Step(f) /\ \A g : g = Step(g) => g = f
  BY <1>4, <1>5, GrowthIsUnique
<1>8. Serialized(m) = f
  BY <1>6, <1>7
<1>9. \A n \in 1 .. N : B[n] = FieldBytes(m, fields[n])
  BY <1>2
<1> QED
  BY <1>0, <1>1, <1>4, <1>8, <1>9 DEF Grows

LEMMA AllFieldsType ==
    ASSUME NEW m \in Messages(Types, Nat)
    PROVE  AllFields(m) \in Seq(FieldByte)
<1>1. PICK N \in Nat : N = Len(Written[m.type])
  BY MessageFields
<1>2. Serialized(m) \in [0 .. N -> Seq(FieldByte)]
  BY <1>1, SerializedFields
<1>3. Serialized(m)[N] \in Seq(FieldByte)
  BY <1>2
<1> QED
  BY <1>1, <1>3 DEF AllFields

-----------------------------------------------------------------------------
(* The sums of get_size() and deserialize() against what serialize() has   *)
(* written, type by type.                                                  *)

Width(m, n) ==
    LET f == Written[m.type][n]
    IN IF f[2] = Text THEN m.length[f[1]] + 1 ELSE f[2]

EndOf(m, n) == Len(Serialized(m)[n])

LEMMA Ends ==
    ASSUME NEW m \in Messages(Types, Nat)
    PROVE  /\ EndOf(m, 0) = 0
           /\ \A n \in 0 .. Len(Written[m.type]) : EndOf(m, n) \in Nat
           /\ \A n \in 1 .. Len(Written[m.type]) : EndOf(m, n) = EndOf(m, n - 1) + Width(m, n)
<1>0. PICK fields : fields = Written[m.type]
  OBVIOUS
<1>1. PICK N \in Nat : N = Len(fields)
  BY <1>0, MessageFields
<1>2. PICK s \in [0 .. N -> Seq(FieldByte)] :
         /\ s = Serialized(m)
         /\ s[0] = <<>>
         /\ \A i \in 1 .. N : s[i] = s[i - 1] \o FieldBytes(m, fields[i])
  BY <1>0, <1>1, SerializedFields
<1>3. ASSUME NEW n \in 1 .. N
      PROVE  Len(s[n]) = Len(s[n - 1]) + Width(m, n)
  <2>1. PICK bytes \in Seq(FieldByte) : bytes = FieldBytes(m, fields[n])
    BY <1>0, <1>1, MessageFields, BytesOfField
  <2>2. Len(bytes) = Width(m, n)
    <3>1. PICK f : f = fields[n]
      OBVIOUS
    <3>2. f[1] \in FieldName /\ f[2] \in Nat /\ (f[2] = Text => m.length[f[1]] \in Nat)
      BY <1>0, <1>1, <3>1, MessageFields
    <3> QED
      BY <1>0, <2>1, <3>1, <3>2, BytesOfField DEF Width
  <2>3. PICK before \in Seq(FieldByte) : before = s[n - 1]
    BY <1>2
  <2>4. Len(before \o bytes) = Len(before) + Len(bytes)
    BY ConcatProperties
  <2> QED
    BY <1>2, <2>1, <2>2, <2>3, <2>4
<1>4. ASSUME NEW n \in 0 .. N
      PROVE  Len(s[n]) \in Nat
  BY <1>2
<1> QED
  BY <1>0, <1>1, <1>2, <1>3, <1>4 DEF EndOf

(* serialize() stays inside the buffer, and before every field at least    *)
(* the bytes are left that deserialize() asks for.                         *)
Fitting(m) ==
    /\ BodySize(m) \in Nat
    /\ EndOf(m, Len(Written[m.type])) <= BodySize(m)
    /\ \A n \in 1 .. Len(Written[m.type]) :
          /\ Read[m.type][n][3] \in Nat
          /\ EndOf(m, n - 1) + Read[m.type][n][3] <= BodySize(m)

LEMMA LogonRequestFits ==
    ASSUME NEW m \in Messages(Types, Nat), m.type = "LOGON_REQUEST"
    PROVE  Fitting(m)
<1>1. Written[m.type] = <<>> /\ EndOf(m, 0) = 0 /\ Len(<<>>) = 0
  BY Ends DEF Written, NoFields
<1> QED
  BY <1>1 DEF Fitting, BodySize

LEMMA HeartbeatFits ==
    ASSUME NEW m \in Messages(Types, Nat), m.type = "HEARTBEAT"
    PROVE  Fitting(m)
<1>1. Written[m.type] = <<>> /\ EndOf(m, 0) = 0 /\ Len(<<>>) = 0
  BY Ends DEF Written, NoFields
<1> QED
  BY <1>1 DEF Fitting, BodySize

LEMMA LogonResponseFits ==
    ASSUME NEW m \in Messages(Types, Nat), m.type = "LOGON_RESPONSE"
    PROVE  Fitting(m) /\ EndOf(m, 2) = BodySize(m)
<1>1. Written[m.type] = LogonResponseWrites /\ Read[m.type] = LogonResponseReads
  BY DEF Written, Read
<1>2. Len(LogonResponseWrites) = 2
  BY DEF LogonResponseWrites
<1>3. /\ Width(m, 1) = 1
      /\ Width(m, 2) = m.length["server_name"] + 1
  BY <1>1 DEF Width, LogonResponseWrites, Text
<1>4. /\ m.length["server_name"] \in Nat
  <2>1. \A i \in 1 .. 2 :
          LogonResponseWrites[i][2] = Text => m.length[LogonResponseWrites[i][1]] \in Nat
    BY <1>1, <1>2, MessageFields
  <2>2. /\ LogonResponseWrites[2][1] = "server_name" /\ LogonResponseWrites[2][2] = Text
    BY DEF LogonResponseWrites, Text
  <2> QED
    BY <2>1, <2>2
<1>5. /\ EndOf(m, 0) = 0
      /\ \A n \in 1 .. 2 : EndOf(m, n) = EndOf(m, n - 1) + Width(m, n)
  BY <1>1, <1>2, Ends
<1>6. BodySize(m) = 1 + (m.length["server_name"] + 1)
  BY DEF BodySize
<1>7. /\ LogonResponseReads[1][3] = 1
      /\ LogonResponseReads[2][3] = 0
  BY DEF LogonResponseReads
<1>8. ASSUME NEW n \in 1 .. 2
      PROVE  /\ LogonResponseReads[n][3] \in Nat
             /\ EndOf(m, n - 1) + LogonResponseReads[n][3] <= BodySize(m)
  BY <1>3, <1>4, <1>5, <1>6, <1>7
<1>9. BodySize(m) \in Nat /\ EndOf(m, 2) = BodySize(m)
  BY <1>3, <1>4, <1>5, <1>6, <1>7
<1> QED
  BY <1>1, <1>2, <1>8, <1>9 DEF Fitting

LEMMA RequestFits ==
    ASSUME NEW m \in Messages(Types, Nat), m.type = "MARKET_DATA_REQUEST"
    PROVE  Fitting(m)
<1>1. Written[m.type] = RequestWrites /\ Read[m.type] = RequestReads
  BY DEF Written, Read
<1>2. Len(RequestWrites) = 4
  BY DEF RequestWrites
<1>3. /\ Width(m, 1) = 2
      /\ Width(m, 2) = 2
      /\ Width(m, 3) = m.length["symbol"] + 1
      /\ Width(m, 4) = m.length["exchange"] + 1
  BY <1>1 DEF Width, RequestWrites, Text
<1>4. /\ m.length["symbol"] \in Nat
      /\ m.length["exchange"] \in Nat
  <2>1. \A i \in 1 .. 4 :
          RequestWrites[i][2] = Text => m.length[RequestWrites[i][1]] \in Nat
    BY <1>1, <1>2, MessageFields
  <2>2. /\ RequestWrites[3][1] = "symbol" /\ RequestWrites[3][2] = Text
        /\ RequestWrites[4][1] = "exchange" /\ RequestWrites[4][2] = Text
    BY DEF RequestWrites, Text
  <2> QED
    BY <2>1, <2>2
<1>5. /\ EndOf(m, 0) = 0
      /\ \A n \in 1 .. 4 : EndOf(m, n) = EndOf(m, n - 1) + Width(m, n)
  BY <1>1, <1>2, Ends
<1>6. BodySize(m) = 2 + 2 + (m.length["symbol"] + 1) + (m.length["exchange"]
        + 1)
  BY DEF BodySize
<1>7. /\ RequestReads[1][3] = 4
      /\ RequestReads[2][3] = 2
      /\ RequestReads[3][3] = 0
      /\ RequestReads[4][3] = 1
  BY DEF RequestReads
<1>8. ASSUME NEW n \in 1 .. 4
      PROVE  /\ RequestReads[n][3] \in Nat
             /\ EndOf(m, n - 1) + RequestReads[n][3] <= BodySize(m)
  BY <1>3, <1>4, <1>5, <1>6, <1>7
<1>9. BodySize(m) \in Nat /\ EndOf(m, 4) <= BodySize(m)
  BY <1>3, <1>4, <1>5, <1>6, <1>7
<1> QED
  BY <1>1, <1>2, <1>8, <1>9 DEF Fitting

LEMMA ResponseFits ==
    ASSUME NEW m \in Messages(Types, Nat), m.type = "MARKET_DATA_RESPONSE"
    PROVE  Fitting(m)
<1>1. Written[m.type] = ResponseWrites /\ Read[m.type] = ResponseReads
  BY DEF Written, Read
<1>2. Len(ResponseWrites) = 4
  BY DEF ResponseWrites
<1>3. /\ Width(m, 1) = 2
      /\ Width(m, 2) = m.length["symbol"] + 1
      /\ Width(m, 3) = m.length["exchange"] + 1
      /\ Width(m, 4) = 1
  BY <1>1 DEF Width, ResponseWrites, Text
<1>4. /\ m.length["symbol"] \in Nat
      /\ m.length["exchange"] \in Nat
  <2>1. \A i \in 1 .. 4 :
          ResponseWrites[i][2] = Text => m.length[ResponseWrites[i][1]] \in Nat
    BY <1>1, <1>2, MessageFields
  <2>2. /\ ResponseWrites[2][1] = "symbol" /\ ResponseWrites[2][2] = Text
        /\ ResponseWrites[3][1] = "exchange" /\ ResponseWrites[3][2] = Text
    BY DEF ResponseWrites, Text
  <2> QED
    BY <2>1, <2>2
<1>5. /\ EndOf(m, 0) = 0
      /\ \A n \in 1 .. 4 : EndOf(m, n) = EndOf(m, n - 1) + Width(m, n)
  BY <1>1, <1>2, Ends
<1>6. BodySize(m) = 2 + (m.length["symbol"] + 1) + (m.length["exchange"] + 1)
        + 1
  BY DEF BodySize
<1>7. /\ ResponseReads[1][3] = 3
      /\ ResponseReads[2][3] = 0
      /\ ResponseReads[3][3] = 1
      /\ ResponseReads[4][3] = 1
  BY DEF ResponseReads
<1>8. ASSUME NEW n \in 1 .. 4
      PROVE  /\ ResponseReads[n][3] \in Nat
             /\ EndOf(m, n - 1) + ResponseReads[n][3] <= BodySize(m)
  BY <1>3, <1>4, <1>5, <1>6, <1>7
<1>9. BodySize(m) \in Nat /\ EndOf(m, 4) <= BodySize(m)
  BY <1>3, <1>4, <1>5, <1>6, <1>7
<1> QED
  BY <1>1, <1>2, <1>8, <1>9 DEF Fitting

LEMMA RejectFits ==
    ASSUME NEW m \in Messages(Types, Nat), m.type = "MARKET_DATA_REJECT"
    PROVE  Fitting(m)
<1>1. Written[m.type] = RejectWrites /\ Read[m.type] = RejectReads
  BY DEF Written, Read
<1>2. Len(RejectWrites) = 2
  BY DEF RejectWrites
<1>3. /\ Width(m, 1) = 2
      /\ Width(m, 2) = m.length["reject_text"] + 1
  BY <1>1 DEF Width, RejectWrites, Text
<1>4. /\ m.length["reject_text"] \in Nat
  <2>1. \A i \in 1 .. 2 :
          RejectWrites[i][2] = Text => m.length[RejectWrites[i][1]] \in Nat
    BY <1>1, <1>2, MessageFields
  <2>2. /\ RejectWrites[2][1] = "reject_text" /\ RejectWrites[2][2] = Text
    BY DEF RejectWrites, Text
  <2> QED
    BY <2>1, <2>2
<1>5. /\ EndOf(m, 0) = 0
      /\ \A n \in 1 .. 2 : EndOf(m, n) = EndOf(m, n - 1) + Width(m, n)
  BY <1>1, <1>2, Ends
<1>6. BodySize(m) = 2 + (m.length["reject_text"] + 1)
  BY DEF BodySize
<1>7. /\ RejectReads[1][3] = 2
      /\ RejectReads[2][3] = 0
  BY DEF RejectReads
<1>8. ASSUME NEW n \in 1 .. 2
      PROVE  /\ RejectReads[n][3] \in Nat
             /\ EndOf(m, n - 1) + RejectReads[n][3] <= BodySize(m)
  BY <1>3, <1>4, <1>5, <1>6, <1>7
<1>9. BodySize(m) \in Nat /\ EndOf(m, 2) <= BodySize(m)
  BY <1>3, <1>4, <1>5, <1>6, <1>7
<1> QED
  BY <1>1, <1>2, <1>8, <1>9 DEF Fitting

LEMMA TradeFits ==
    ASSUME NEW m \in Messages(Types, Nat), m.type = "MARKET_DATA_UPDATE_TRADE"
    PROVE  Fitting(m)
<1>1. Written[m.type] = TradeWrites /\ Read[m.type] = TradeReads
  BY DEF Written, Read
<1>2. Len(TradeWrites) = 5
  BY DEF TradeWrites
<1>3. /\ Width(m, 1) = 2
      /\ Width(m, 2) = 8
      /\ Width(m, 3) = 8
      /\ Width(m, 4) = 8
      /\ Width(m, 5) = 8
  BY <1>1 DEF Width, TradeWrites, Text
<1>4. /\ EndOf(m, 0) = 0
      /\ \A n \in 1 .. 5 : EndOf(m, n) = EndOf(m, n - 1) + Width(m, n)
  BY <1>1, <1>2, Ends
<1>5. BodySize(m) = 2 + 8 * 3 + 8
  BY DEF BodySize
<1>6. /\ TradeReads[1][3] = 34
      /\ TradeReads[2][3] = 0
      /\ TradeReads[3][3] = 0
      /\ TradeReads[4][3] = 0
      /\ TradeReads[5][3] = 0
  BY DEF TradeReads
<1>7. ASSUME NEW n \in 1 .. 5
      PROVE  /\ TradeReads[n][3] \in Nat
             /\ EndOf(m, n - 1) + TradeReads[n][3] <= BodySize(m)
  BY <1>3, <1>4, <1>5, <1>6
<1>8. BodySize(m) \in Nat /\ EndOf(m, 5) <= BodySize(m)
  BY <1>3, <1>4, <1>5, <1>6
<1> QED
  BY <1>1, <1>2, <1>7, <1>8 DEF Fitting

LEMMA BidAskFits ==
    ASSUME NEW m \in Messages(Types, Nat), m.type = "MARKET_DATA_UPDATE_BID_ASK"
    PROVE  Fitting(m)
<1>1. Written[m.type] = BidAskWrites /\ Read[m.type] = BidAskReads
  BY DEF Written, Read
<1>2. Len(BidAskWrites) = 8
  BY DEF BidAskWrites
<1>3. /\ Width(m, 1) = 2
      /\ Width(m, 2) = 8
      /\ Width(m, 3) = 4
      /\ Width(m, 4) = 8
      /\ Width(m, 5) = 4
      /\ Width(m, 6) = 8
      /\ Width(m, 7) = 1
      /\ Width(m, 8) = 1
  BY <1>1 DEF Width, BidAskWrites, Text
<1>4. /\ EndOf(m, 0) = 0
      /\ \A n \in 1 .. 8 : EndOf(m, n) = EndOf(m, n - 1) + Width(m, n)
  BY <1>1, <1>2, Ends
<1>5. BodySize(m) = 2 + 8 + 4 + 8 + 4 + 8 + 1 + 1
  BY DEF BodySize
<1>6. /\ BidAskReads[1][3] = 36
      /\ BidAskReads[2][3] = 0
      /\ BidAskReads[3][3] = 0
      /\ BidAskReads[4][3] = 0
      /\ BidAskReads[5][3] = 0
      /\ BidAskReads[6][3] = 0
      /\ BidAskReads[7][3] = 0
      /\ BidAskReads[8][3] = 0
  BY DEF BidAskReads
<1>7. ASSUME NEW n \in 1 .. 8
      PROVE  /\ BidAskReads[n][3] \in Nat
             /\ EndOf(m, n - 1) + BidAskReads[n][3] <= BodySize(m)
  BY <1>3, <1>4, <1>5, <1>6
<1>8. BodySize(m) \in Nat /\ EndOf(m, 8) <= BodySize(m)
  BY <1>3, <1>4, <1>5, <1>6
<1> QED
  BY <1>1, <1>2, <1>7, <1>8 DEF Fitting

LEMMA DepthFits ==
    ASSUME NEW m \in Messages(Types, Nat), m.type = "MARKET_DEPTH_INCREMENTAL_UPDATE"
    PROVE  Fitting(m)
<1>1. Written[m.type] = DepthWrites /\ Read[m.type] = DepthReads
  BY DEF Written, Read
<1>2. Len(DepthWrites) = 6
  BY DEF DepthWrites
<1>3. /\ Width(m, 1) = 2
      /\ Width(m, 2) = 1
      /\ Width(m, 3) = 2
      /\ Width(m, 4) = 8
      /\ Width(m, 5) = 8
      /\ Width(m, 6) = 8
  BY <1>1 DEF Width, DepthWrites, Text
<1>4. /\ EndOf(m, 0) = 0
      /\ \A n \in 1 .. 6 : EndOf(m, n) = EndOf(m, n - 1) + Width(m, n)
  BY <1>1, <1>2, Ends
<1>5. BodySize(m) = 2 + 1 + 2 + 8 + 8 + 8
  BY DEF BodySize
<1>6. /\ DepthReads[1][3] = 29
      /\ DepthReads[2][3] = 0
      /\ DepthReads[3][3] = 0
      /\ DepthReads[4][3] = 0
      /\ DepthReads[5][3] = 0
      /\ DepthReads[6][3] = 0
  BY DEF DepthReads
<1>7. ASSUME NEW n \in 1 .. 6
      PROVE  /\ DepthReads[n][3] \in Nat
             /\ EndOf(m, n - 1) + DepthReads[n][3] <= BodySize(m)
  BY <1>3, <1>4, <1>5, <1>6
<1>8. BodySize(m) \in Nat /\ EndOf(m, 6) <= BodySize(m)
  BY <1>3, <1>4, <1>5, <1>6
<1> QED
  BY <1>1, <1>2, <1>7, <1>8 DEF Fitting

LEMMA PositionFits ==
    ASSUME NEW m \in Messages(Types, Nat), m.type = "POSITION_UPDATE"
    PROVE  Fitting(m)
<1>1. Written[m.type] = PositionWrites /\ Read[m.type] = PositionReads
  BY DEF Written, Read
<1>2. Len(PositionWrites) = 5
  BY DEF PositionWrites
<1>3. /\ Width(m, 1) = m.length["trade_account"] + 1
      /\ Width(m, 2) = m.length["symbol"] + 1
      /\ Width(m, 3) = 8
      /\ Width(m, 4) = 8
      /\ Width(m, 5) = m.length["position_identifier"] + 1
  BY <1>1 DEF Width, PositionWrites, Text
<1>4. /\ m.length["trade_account"] \in Nat
      /\ m.length["symbol"] \in Nat
      /\ m.length["position_identifier"] \in Nat
  <2>1. \A i \in 1 .. 5 :
          PositionWrites[i][2] = Text => m.length[PositionWrites[i][1]] \in Nat
    BY <1>1, <1>2, MessageFields
  <2>2. /\ PositionWrites[1][1] = "trade_account" /\ PositionWrites[1][2] = Text
        /\ PositionWrites[2][1] = "symbol" /\ PositionWrites[2][2] = Text
        /\ PositionWrites[5][1] = "position_identifier" /\ PositionWrites[5][2] = Text
    BY DEF PositionWrites, Text
  <2> QED
    BY <2>1, <2>2
<1>5. /\ EndOf(m, 0) = 0
      /\ \A n \in 1 .. 5 : EndOf(m, n) = EndOf(m, n - 1) + Width(m, n)
  BY <1>1, <1>2, Ends
<1>6. BodySize(m) = (m.length["trade_account"] + 1) + (m.length["symbol"] + 1)
        + 8 * 2 + (m.length["position_identifier"] + 1)
  BY DEF BodySize
<1>7. /\ PositionReads[1][3] = 1
      /\ PositionReads[2][3] = 1
      /\ PositionReads[3][3] = 8
      /\ PositionReads[4][3] = 8
      /\ PositionReads[5][3] = 1
  BY DEF PositionReads
<1>8. ASSUME NEW n \in 1 .. 5
      PROVE  /\ PositionReads[n][3] \in Nat
             /\ EndOf(m, n - 1) + PositionReads[n][3] <= BodySize(m)
  BY <1>3, <1>4, <1>5, <1>6, <1>7
<1>9. BodySize(m) \in Nat /\ EndOf(m, 5) <= BodySize(m)
  BY <1>3, <1>4, <1>5, <1>6, <1>7
<1> QED
  BY <1>1, <1>2, <1>8, <1>9 DEF Fitting

LEMMA DefinitionRequestFits ==
    ASSUME NEW m \in Messages(Types, Nat), m.type = "SECURITY_DEFINITION_FOR_SYMBOL_REQUEST"
    PROVE  Fitting(m)
<1>1. Written[m.type] = DefinitionRequestWrites /\ Read[m.type] = DefinitionRequestReads
  BY DEF Written, Read
<1>2. Len(DefinitionRequestWrites) = 4
  BY DEF DefinitionRequestWrites
<1>3. /\ Width(m, 1) = 4
      /\ Width(m, 2) = m.length["symbol"] + 1
      /\ Width(m, 3) = m.length["exchange"] + 1
      /\ Width(m, 4) = m.length["product_type"] + 1
  BY <1>1 DEF Width, DefinitionRequestWrites, Text
<1>4. /\ m.length["symbol"] \in Nat
      /\ m.length["exchange"] \in Nat
      /\ m.length["product_type"] \in Nat
  <2>1. \A i \in 1 .. 4 :
          DefinitionRequestWrites[i][2] = Text => m.length[DefinitionRequestWrites[i][1]] \in Nat
    BY <1>1, <1>2, MessageFields
  <2>2. /\ DefinitionRequestWrites[2][1] = "symbol" /\ DefinitionRequestWrites[2][2] = Text
        /\ DefinitionRequestWrites[3][1] = "exchange" /\ DefinitionRequestWrites[3][2] = Text
        /\ DefinitionRequestWrites[4][1] = "product_type" /\ DefinitionRequestWrites[4][2] = Text
    BY DEF DefinitionRequestWrites, Text
  <2> QED
    BY <2>1, <2>2
<1>5. /\ EndOf(m, 0) = 0
      /\ \A n \in 1 .. 4 : EndOf(m, n) = EndOf(m, n - 1) + Width(m, n)
  BY <1>1, <1>2, Ends
<1>6. BodySize(m) = 4 + (m.length["symbol"] + 1) + (m.length["exchange"] + 1)
        + (m.length["product_type"] + 1)
  BY DEF BodySize
<1>7. /\ DefinitionRequestReads[1][3] = 4
      /\ DefinitionRequestReads[2][3] = 0
      /\ DefinitionRequestReads[3][3] = 1
      /\ DefinitionRequestReads[4][3] = 1
  BY DEF DefinitionRequestReads
<1>8. ASSUME NEW n \in 1 .. 4
      PROVE  /\ DefinitionRequestReads[n][3] \in Nat
             /\ EndOf(m, n - 1) + DefinitionRequestReads[n][3] <= BodySize(m)
  BY <1>3, <1>4, <1>5, <1>6, <1>7
<1>9. BodySize(m) \in Nat /\ EndOf(m, 4) <= BodySize(m)
  BY <1>3, <1>4, <1>5, <1>6, <1>7
<1> QED
  BY <1>1, <1>2, <1>8, <1>9 DEF Fitting

LEMMA DefinitionFits ==
    ASSUME NEW m \in Messages(Types, Nat), m.type = "SECURITY_DEFINITION_RESPONSE"
    PROVE  Fitting(m)
<1>1. Written[m.type] = DefinitionWrites /\ Read[m.type] = DefinitionReads
  BY DEF Written, Read
<1>2. Len(DefinitionWrites) = 17
  BY DEF DefinitionWrites
<1>3. /\ Width(m, 1) = 4
      /\ Width(m, 2) = m.length["symbol"] + 1
      /\ Width(m, 3) = m.length["exchange"] + 1
      /\ Width(m, 4) = m.length["description"] + 1
      /\ Width(m, 5) = m.length["currency"] + 1
      /\ Width(m, 6) = 1
      /\ Width(m, 7) = 3
      /\ Width(m, 8) = 4
      /\ Width(m, 9) = 4
      /\ Width(m, 10) = 4
      /\ Width(m, 11) = 1
      /\ Width(m, 12) = m.length["display_name"] + 1
      /\ Width(m, 13) = 1
      /\ Width(m, 14) = 4
      /\ Width(m, 15) = 4
      /\ Width(m, 16) = m.length["base_currency"] + 1
      /\ Width(m, 17) = m.length["quote_currency"] + 1
  BY <1>1 DEF Width, DefinitionWrites, Text
<1>4. /\ m.length["symbol"] \in Nat
      /\ m.length["exchange"] \in Nat
      /\ m.length["description"] \in Nat
      /\ m.length["currency"] \in Nat
      /\ m.length["display_name"] \in Nat
      /\ m.length["base_currency"] \in Nat
      /\ m.length["quote_currency"] \in Nat
  <2>1. \A i \in 1 .. 17 :
          DefinitionWrites[i][2] = Text => m.length[DefinitionWrites[i][1]] \in Nat
    BY <1>1, <1>2, MessageFields
  <2>2. /\ DefinitionWrites[2][1] = "symbol" /\ DefinitionWrites[2][2] = Text
        /\ DefinitionWrites[3][1] = "exchange" /\ DefinitionWrites[3][2] = Text
        /\ DefinitionWrites[4][1] = "description" /\ DefinitionWrites[4][2] = Text
        /\ DefinitionWrites[5][1] = "currency" /\ DefinitionWrites[5][2] = Text
        /\ DefinitionWrites[12][1] = "display_name" /\ DefinitionWrites[12][2] = Text
        /\ DefinitionWrites[16][1] = "base_currency" /\ DefinitionWrites[16][2] = Text
        /\ DefinitionWrites[17][1] = "quote_currency" /\ DefinitionWrites[17][2] = Text
    BY DEF DefinitionWrites, Text
  <2> QED
    BY <2>1, <2>2
<1>5. /\ EndOf(m, 0) = 0
      /\ EndOf(m, 1) = EndOf(m, 0) + Width(m, 1)
      /\ EndOf(m, 2) = EndOf(m, 1) + Width(m, 2)
      /\ EndOf(m, 3) = EndOf(m, 2) + Width(m, 3)
      /\ EndOf(m, 4) = EndOf(m, 3) + Width(m, 4)
      /\ EndOf(m, 5) = EndOf(m, 4) + Width(m, 5)
      /\ EndOf(m, 6) = EndOf(m, 5) + Width(m, 6)
      /\ EndOf(m, 7) = EndOf(m, 6) + Width(m, 7)
      /\ EndOf(m, 8) = EndOf(m, 7) + Width(m, 8)
      /\ EndOf(m, 9) = EndOf(m, 8) + Width(m, 9)
      /\ EndOf(m, 10) = EndOf(m, 9) + Width(m, 10)
      /\ EndOf(m, 11) = EndOf(m, 10) + Width(m, 11)
      /\ EndOf(m, 12) = EndOf(m, 11) + Width(m, 12)
      /\ EndOf(m, 13) = EndOf(m, 12) + Width(m, 13)
      /\ EndOf(m, 14) = EndOf(m, 13) + Width(m, 14)
      /\ EndOf(m, 15) = EndOf(m, 14) + Width(m, 15)
      /\ EndOf(m, 16) = EndOf(m, 15) + Width(m, 16)
      /\ EndOf(m, 17) = EndOf(m, 16) + Width(m, 17)
  <2>1. /\ EndOf(m, 0) = 0
        /\ \A n \in 1 .. 17 : EndOf(m, n) = EndOf(m, n - 1) + Width(m, n)
    BY <1>1, <1>2, Ends
  <2> QED
    BY <2>1
<1>6. BodySize(m) = 4 + (m.length["symbol"] + 1) + (m.length["exchange"] + 1)
        + (m.length["description"] + 1) + (m.length["currency"] + 1) + 4
        + 4 * 4 + 1 + (m.length["display_name"] + 1) + 1 + 4 * 2
        + (m.length["base_currency"] + 1) + (m.length["quote_currency"] + 1)
  BY DEF BodySize
<1>7. /\ DefinitionReads[1][3] = 4
      /\ DefinitionReads[2][3] = 0
      /\ DefinitionReads[3][3] = 1
      /\ DefinitionReads[4][3] = 1
      /\ DefinitionReads[5][3] = 1
      /\ DefinitionReads[6][3] = 17
      /\ DefinitionReads[7][3] = 0
      /\ DefinitionReads[8][3] = 0
      /\ DefinitionReads[9][3] = 0
      /\ DefinitionReads[10][3] = 0
      /\ DefinitionReads[11][3] = 0
      /\ DefinitionReads[12][3] = 0
      /\ DefinitionReads[13][3] = 1
      /\ DefinitionReads[14][3] = 8
      /\ DefinitionReads[15][3] = 0
      /\ DefinitionReads[16][3] = 0
      /\ DefinitionReads[17][3] = 0
  BY DEF DefinitionReads
<1>8. PICK a \in Nat, b \in Nat, c \in Nat, d \in Nat, e \in Nat, f \in Nat, g \in Nat :
         /\ a = m.length["symbol"]
         /\ b = m.length["exchange"]
         /\ c = m.length["description"]
         /\ d = m.length["currency"]
         /\ e = m.length["display_name"]
         /\ f = m.length["base_currency"]
         /\ g = m.length["quote_currency"]
  BY <1>4
<1>9. /\ EndOf(m, 1) = 4
      /\ EndOf(m, 2) = 5 + a
      /\ EndOf(m, 3) = 6 + a + b
      /\ EndOf(m, 4) = 7 + a + b + c
      /\ EndOf(m, 5) = 8 + a + b + c + d
      /\ EndOf(m, 6) = 9 + a + b + c + d
      /\ EndOf(m, 7) = 12 + a + b + c + d
      /\ EndOf(m, 8) = 16 + a + b + c + d
      /\ EndOf(m, 9) = 20 + a + b + c + d
      /\ EndOf(m, 10) = 24 + a + b + c + d
      /\ EndOf(m, 11) = 25 + a + b + c + d
      /\ EndOf(m, 12) = 26 + a + b + c + d + e
      /\ EndOf(m, 13) = 27 + a + b + c + d + e
      /\ EndOf(m, 14) = 31 + a + b + c + d + e
      /\ EndOf(m, 15) = 35 + a + b + c + d + e
      /\ EndOf(m, 16) = 36 + a + b + c + d + e + f
      /\ EndOf(m, 17) = 37 + a + b + c + d + e + f + g
  <2>1. EndOf(m, 1) = 4
    BY <1>3, <1>5, <1>8
  <2>2. EndOf(m, 2) = 5 + a
    BY <1>3, <1>5, <1>8, <2>1
  <2>3. EndOf(m, 3) = 6 + a + b
    BY <1>3, <1>5, <1>8, <2>2
  <2>4. EndOf(m, 4) = 7 + a + b + c
    BY <1>3, <1>5, <1>8, <2>3
  <2>5. EndOf(m, 5) = 8 + a + b + c + d
    BY <1>3, <1>5, <1>8, <2>4
  <2>6. EndOf(m, 6) = 9 + a + b + c + d
    BY <1>3, <1>5, <1>8, <2>5
  <2>7. EndOf(m, 7) = 12 + a + b + c + d
    BY <1>3, <1>5, <1>8, <2>6
  <2>8. EndOf(m, 8) = 16 + a + b + c + d
    BY <1>3, <1>5, <1>8, <2>7
  <2>9. EndOf(m, 9) = 20 + a + b + c + d
    BY <1>3, <1>5, <1>8, <2>8
  <2>10. EndOf(m, 10) = 24 + a + b + c + d
    BY <1>3, <1>5, <1>8, <2>9
  <2>11. EndOf(m, 11) = 25 + a + b + c + d
    BY <1>3, <1>5, <1>8, <2>10
  <2>12. EndOf(m, 12) = 26 + a + b + c + d + e
    BY <1>3, <1>5, <1>8, <2>11
  <2>13. EndOf(m, 13) = 27 + a + b + c + d + e
    BY <1>3, <1>5, <1>8, <2>12
  <2>14. EndOf(m, 14) = 31 + a + b + c + d + e
    BY <1>3, <1>5, <1>8, <2>13
  <2>15. EndOf(m, 15) = 35 + a + b + c + d + e
    BY <1>3, <1>5, <1>8, <2>14
  <2>16. EndOf(m, 16) = 36 + a + b + c + d + e + f
    BY <1>3, <1>5, <1>8, <2>15
  <2>17. EndOf(m, 17) = 37 + a + b + c + d + e + f + g
    BY <1>3, <1>5, <1>8, <2>16
  <2> QED
    BY <2>1, <2>2, <2>3, <2>4, <2>5, <2>6, <2>7, <2>8, <2>9,
       <2>10, <2>11, <2>12, <2>13, <2>14, <2>15, <2>16, <2>17
<1>10. BodySize(m) = 41 + a + b + c + d + e + f + g
  <2>1. BodySize(m) = 4 + (a + 1) + (b + 1) + (c + 1) + (d + 1)
                        + 4 + 4 * 4 + 1 + (e + 1) + 1 + 4 * 2 + (f + 1) + (g + 1)
    BY <1>6, <1>8
  <2> QED
    BY <2>1
<1>11. ASSUME NEW n \in 1 .. 17
      PROVE  /\ DefinitionReads[n][3] \in Nat
             /\ EndOf(m, n - 1) + DefinitionReads[n][3] <= BodySize(m)
  BY <1>5, <1>7, <1>9, <1>10
<1>12. BodySize(m) \in Nat /\ EndOf(m, 17) <= BodySize(m)
  BY <1>5, <1>7, <1>9, <1>10
<1> QED
  BY <1>1, <1>2, <1>11, <1>12 DEF Fitting

LEMMA MessagesFit == \A m \in Messages(Types, Nat) : Fitting(m)
<1> TAKE m \in Messages(Types, Nat)
<1>1. m.type \in Types
  BY MessageFields
<1> QED
  BY <1>1, LogonRequestFits, HeartbeatFits, LogonResponseFits, RequestFits,
     ResponseFits, RejectFits, TradeFits, BidAskFits, DepthFits,
     PositionFits, DefinitionRequestFits, DefinitionFits
     DEF Types, Members

(* Zeros follow the fields up to the size.                                 *)
LEMMA ZerosBehind ==
    ASSUME NEW m \in Messages(Types, Nat)
    PROVE  /\ Body(m) \in Seq(FieldByte)
           /\ Len(Body(m)) = BodySize(m)
           /\ \E zeros \in Seq(FieldByte) : Body(m) = AllFields(m) \o zeros
<1>1. PICK a \in Seq(FieldByte) : a = AllFields(m)
  BY AllFieldsType
<1>2. PICK n \in Nat : n = Len(a)
  OBVIOUS
<1>3. PICK s \in Nat : s = BodySize(m) /\ n <= s
  BY <1>1, <1>2, MessagesFit DEF Fitting, EndOf, AllFields
<1>4. PICK zeros \in Seq(FieldByte) : Len(zeros) = s - n /\ \A k \in 1 .. s - n : zeros[k] = Zero
  <2>1. s - n \in Nat
    BY <1>3
  <2>2. /\ [k \in 1 .. s - n |-> Zero] \in Seq(FieldByte)
        /\ Len([k \in 1 .. s - n |-> Zero]) = s - n
    BY <2>1, ZeroType
  <2> QED
    BY <2>2
<1>5. PICK all \in Seq(FieldByte) : all = a \o zeros
  BY ConcatProperties
<1>6. /\ Len(all) = s
      /\ \A k \in 1 .. s : all[k] = IF k <= n THEN a[k] ELSE Zero
  <2>1. /\ Len(all) = Len(a) + Len(zeros)
        /\ \A k \in 1 .. Len(a) + Len(zeros) :
              all[k] = IF k <= Len(a) THEN a[k] ELSE zeros[k - Len(a)]
    BY <1>5, ConcatProperties
  <2>2. Len(a) + Len(zeros) = s
    BY <1>2, <1>3, <1>4
  <2>3. ASSUME NEW k \in 1 .. s, ~(k <= n)
        PROVE  zeros[k - n] = Zero
    <3>1. k - n \in 1 .. s - n
      BY <1>3, <2>3
    <3> QED
      BY <1>4, <3>1
  <2> QED
    BY <1>2, <2>1, <2>2, <2>3
<1>7. Body(m) = [k \in 1 .. s |-> IF k <= n THEN a[k] ELSE Zero]
  BY <1>1, <1>2, <1>3 DEF Body
<1>8. all = [k \in 1 .. s |-> all[k]]
  BY <1>6
<1>9. Body(m) = all
  BY <1>6, <1>7, <1>8
<1> QED
  BY <1>1, <1>3, <1>5, <1>6, <1>9

LEMMA SizeOfMessage ==
    ASSUME NEW m \in Messages(Types, Nat)
    PROVE  GetSize(m) \in Nat /\ GetSize(m) >= HeaderSize
BY MessagesFit DEF Fitting, GetSize, HeaderSize

-----------------------------------------------------------------------------
(* deserialize() finds after each field what serialize() has written       *)
(* behind it.                                                              *)

Rest(m, n) == SubSeq(Body(m), Len(Serialized(m)[n]) + 1, Len(Body(m)))

LEMMA FieldsAssociative ==
    \A s, t, u \in Seq(FieldByte) : (s \o t) \o u = s \o (t \o u)
BY ConcatAssociative

LEMMA Behind ==
    ASSUME NEW S, NEW a \in Seq(S), NEW b \in Seq(S)
    PROVE  SubSeq(a \o b, Len(a) + 1, Len(a \o b)) = b
<1>1. PICK c \in Seq(S) : c = a \o b
  BY ConcatProperties
<1>2. PICK n \in Nat, k \in Nat : n = Len(a) /\ k = Len(b)
  OBVIOUS
<1>3. Len(c) = n + k /\ \A i \in 1 .. n + k : c[i] = IF i <= n THEN a[i] ELSE b[i - n]
  BY <1>1, <1>2, ConcatProperties
<1>4. PICK d \in Seq(S) : d = SubSeq(c, n + 1, n + k)
  <2>1. SubSeq(c, n + 1, n + k) \in Seq(S)
    BY <1>3
  <2> QED
    BY <2>1
<1>5. Len(d) = k /\ \A i \in 1 .. k : d[i] = c[i + n]
  BY <1>3, <1>4
<1>6. ASSUME NEW i \in 1 .. k
      PROVE  d[i] = b[i]
  <2>1. i + n \in 1 .. n + k /\ ~(i + n <= n) /\ i + n - n = i
    OBVIOUS
  <2> QED
    BY <1>3, <1>5, <2>1
<1>7. d = b
  BY <1>2, <1>5, <1>6, SeqEqual
<1> QED
  BY <1>1, <1>2, <1>3, <1>4, <1>7

LEMMA RestIsBehind ==
    ASSUME NEW m \in Messages(Types, Nat), NEW n \in 0 .. Len(Written[m.type])
    PROVE  /\ Rest(m, n) \in Seq(FieldByte)
           /\ Serialized(m)[n] \o Rest(m, n) = Body(m)
           /\ EndOf(m, n) + Len(Rest(m, n)) = BodySize(m)
<1>0. PICK fields : fields = Written[m.type]
  OBVIOUS
<1>1. PICK N \in Nat : N = Len(fields)
  BY <1>0, MessageFields
<1>2. PICK s \in [0 .. N -> Seq(FieldByte)] :
         s = Serialized(m) /\ \A i \in 1 .. N : s[i] = s[i - 1] \o FieldBytes(m, fields[i])
  BY <1>0, <1>1, SerializedFields
<1> DEFINE EndsWith(i) == \E rest \in Seq(FieldByte) : Body(m) = s[i] \o rest
           P == {k \in Nat : \A i \in 0 .. N : N = i + k => EndsWith(i)}
<1>3. 0 \in P
  <2>1. PICK zeros \in Seq(FieldByte) : Body(m) = AllFields(m) \o zeros
    BY ZerosBehind
  <2>2. AllFields(m) = s[N]
    BY <1>0, <1>1, <1>2 DEF AllFields
  <2>4. EndsWith(N)
    BY <2>1, <2>2
  <2> HIDE DEF EndsWith
  <2>5. \A i \in 0 .. N : N = i + 0 => i = N
    OBVIOUS
  <2> QED
    BY <2>4, <2>5
<1>4. ASSUME NEW k \in Nat, k \in P
      PROVE  k + 1 \in P
  <2>1. ASSUME NEW i \in 0 .. N, N = i + (k + 1)
        PROVE  EndsWith(i)
    <3>1. PICK j \in 1 .. N : j = i + 1 /\ i = j - 1 /\ N = j + k
      BY <2>1
    <3>2. PICK rest \in Seq(FieldByte) : Body(m) = s[j] \o rest
      <4> HIDE DEF EndsWith
      <4>1. EndsWith(j)
        BY <1>4, <3>1
      <4> QED
        BY <4>1 DEF EndsWith
    <3>3. PICK bytes \in Seq(FieldByte) : bytes = FieldBytes(m, fields[j])
      BY <1>0, <1>1, MessageFields, BytesOfField
    <3>4. PICK before \in Seq(FieldByte) : before = s[i]
      BY <1>2
    <3>5. s[j] = before \o bytes
      BY <1>2, <3>1, <3>3, <3>4
    <3>6. Body(m) = (before \o bytes) \o rest
      BY <3>2, <3>5
    <3>7. Body(m) = before \o (bytes \o rest)
      BY <3>6, FieldsAssociative, Zenon
    <3>8. bytes \o rest \in Seq(FieldByte)
      BY ConcatProperties
    <3> QED
      BY <3>4, <3>7, <3>8
  <2> HIDE DEF EndsWith
  <2> QED
    BY <2>1
<1> HIDE DEF P
<1>5. Nat \subseteq P
  BY <1>3, <1>4, Induction
<1>6. PICK j \in 0 .. N : j = n
  BY <1>0, <1>1
<1>7. PICK rest \in Seq(FieldByte) : Body(m) = s[j] \o rest
  <2>1. PICK k \in Nat : N = j + k
    <3>1. N - j \in Nat /\ N = j + (N - j)
      OBVIOUS
    <3> QED
      BY <3>1
  <2> QED
    BY <1>5, <2>1 DEF P
<1>8. PICK a \in Seq(FieldByte) : a = s[j]
  BY <1>2
<1>9. Rest(m, n) = SubSeq(a \o rest, Len(a) + 1, Len(a \o rest))
  BY <1>2, <1>6, <1>7, <1>8 DEF Rest
<1>10. Rest(m, n) = rest
  BY <1>9, Behind
<1>11. Len(a) + Len(rest) = BodySize(m)
  <2>1. Len(a \o rest) = Len(a) + Len(rest)
    BY ConcatProperties
  <2> QED
    BY <1>7, <1>8, <2>1, ZerosBehind
<1> QED
  BY <1>2, <1>6, <1>7, <1>8, <1>10, <1>11 DEF EndOf

LEMMA FieldIsNext ==
    ASSUME NEW m \in Messages(Types, Nat), NEW n \in 1 .. Len(Written[m.type])
    PROVE  Rest(m, n - 1) = FieldBytes(m, Written[m.type][n]) \o Rest(m, n)
<1>0. PICK fields : fields = Written[m.type]
  OBVIOUS
<1>1. PICK N \in Nat : N = Len(fields) /\ n \in 1 .. N
  BY <1>0, MessageFields
<1>2. n \in 0 .. N /\ n - 1 \in 0 .. N
  BY <1>1
<1>3. PICK s \in [0 .. N -> Seq(FieldByte)] :
         s = Serialized(m) /\ \A i \in 1 .. N : s[i] = s[i - 1] \o FieldBytes(m, fields[i])
  BY <1>0, <1>1, SerializedFields
<1>4. PICK before \in Seq(FieldByte) : before = s[n - 1]
  BY <1>2
<1>5. PICK bytes \in Seq(FieldByte) : bytes = FieldBytes(m, fields[n])
  BY <1>0, <1>1, MessageFields, BytesOfField
<1>6. PICK rest \in Seq(FieldByte) : rest = Rest(m, n) /\ s[n] \o rest = Body(m)
  BY <1>0, <1>1, <1>2, <1>3, RestIsBehind
<1>7. s[n] = before \o bytes
  BY <1>1, <1>3, <1>4, <1>5
<1>8. Body(m) = before \o (bytes \o rest) /\ bytes \o rest \in Seq(FieldByte)
  <2>1. Body(m) = (before \o bytes) \o rest
    BY <1>6, <1>7
  <2>2. Body(m) = before \o (bytes \o rest)
    BY <2>1, FieldsAssociative, Zenon
  <2> QED
    BY <2>2, ConcatProperties
<1>9. Rest(m, n - 1) = SubSeq(before \o (bytes \o rest), Len(before) + 1,
                              Len(before \o (bytes \o rest)))
  BY <1>3, <1>4, <1>8 DEF Rest
<1>10. Rest(m, n - 1) = bytes \o rest
  BY <1>8, <1>9, Behind
<1> QED
  BY <1>0, <1>5, <1>6, <1>10

(* One step of deserialize(): what is read is what was written there.      *)
LEMMA NextIsRead ==
    ASSUME NEW m \in Messages(Types, Nat), NEW n \in 1 .. Len(Written[m.type])
    PROVE  LET next == Read[m.type][n]
           IN  /\ CanRead(Rest(m, n - 1), next)
               /\ FieldRead(Rest(m, n - 1), next) = FieldBytes(m, Written[m.type][n])
<1>1. PICK t \in Types : t = m.type
  BY MessageFields
<1>2. PICK f, g : f = Written[t][n] /\ g = Read[t][n]
  OBVIOUS
<1>3. PICK N \in Nat : N = Len(Written[t]) /\ n \in 1 .. N
  BY <1>1, MessageFields
<1>4. n \in 0 .. N /\ n - 1 \in 0 .. N
  BY <1>3
<1>5. /\ f[1] \in FieldName /\ f[2] \in Nat
      /\ f[2] = Text => m.length[f[1]] \in Nat
  BY <1>1, <1>2, <1>3, MessageFields
<1>6. PICK bytes \in Seq(FieldByte) : bytes = FieldBytes(m, f)
  BY <1>5, BytesOfField
<1>7. PICK rest \in Seq(FieldByte) : rest = Rest(m, n)
  BY <1>1, <1>3, <1>4, RestIsBehind
<1>8. Rest(m, n - 1) = bytes \o rest
  BY <1>1, <1>2, <1>3, <1>6, <1>7, FieldIsNext
<1>9. g[3] <= Len(bytes \o rest)
  <2>1. EndOf(m, n - 1) \in Nat
    BY <1>1, <1>3, <1>4, Ends
  <2>2. BodySize(m) \in Nat /\ g[3] \in Nat /\ EndOf(m, n - 1) + g[3] <= BodySize(m)
    BY <1>1, <1>2, <1>3, MessagesFit DEF Fitting
  <2>3. PICK all \in Seq(FieldByte) : all = bytes \o rest
    BY ConcatProperties
  <2>4. EndOf(m, n - 1) + Len(all) = BodySize(m)
    BY <1>1, <1>3, <1>4, <1>8, <2>3, RestIsBehind
  <2>5. Len(all) \in Nat
    OBVIOUS
  <2> QED
    BY <2>1, <2>2, <2>3, <2>4, <2>5
<1>10. CASE g[2] = f[2] /\ g[2] # Remaining
  <2>1. g[3] <= Len(FieldBytes(m, f) \o rest)
    BY <1>6, <1>9
  <2>2. /\ CanRead(FieldBytes(m, f) \o rest, g)
        /\ FieldRead(FieldBytes(m, f) \o rest, g) = FieldBytes(m, f)
    BY <1>5, <1>10, <2>1, FieldIsRead
  <2> QED
    BY <1>1, <1>2, <1>6, <1>8, <2>2
<1>11. CASE t = "LOGON_RESPONSE" /\ n = 2
  <2>1. g[2] = Remaining /\ Remaining # Text
    BY <1>2, <1>11, ReadLayouts DEF Read, Remaining, Text
  <2>2. Rest(m, 2) = <<>>
    <3>1. EndOf(m, 2) = BodySize(m) /\ BodySize(m) \in Nat
      BY <1>1, <1>11, LogonResponseFits DEF Fitting
    <3>2. EndOf(m, 2) + Len(rest) = BodySize(m)
      BY <1>1, <1>3, <1>4, <1>7, <1>11, RestIsBehind
    <3>3. Len(rest) = 0
      BY <3>1, <3>2
    <3> QED
      BY <1>7, <1>11, <3>3, EmptySeq
  <2>3. Rest(m, n - 1) = bytes
    BY <1>7, <1>8, <1>11, <2>2, ConcatEmptySeq
  <2>4. g[3] <= Len(bytes)
    BY <1>7, <1>9, <1>11, <2>2, ConcatEmptySeq
  <2> QED
    BY <1>1, <1>2, <1>6, <2>1, <2>3, <2>4 DEF CanRead, FieldRead
<1>12. (g[2] = f[2] /\ g[2] # Remaining) \/ (t = "LOGON_RESPONSE" /\ n = 2)
  <2>1. CASE t = "LOGON_RESPONSE"
    <3>1. Written[t] = LogonResponseWrites /\ Read[t] = LogonResponseReads
      BY <2>1 DEF Written, Read
    <3>2. n = 1 \/ n = 2
      BY <1>3, <3>1, ReadLayouts
    <3> QED
      BY <1>2, <2>1, <3>1, <3>2, ReadLayouts
  <2>2. CASE t = "MARKET_DEPTH_INCREMENTAL_UPDATE"
    <3>1. Written[t] = DepthWrites /\ Read[t] = DepthReads
      BY <2>2 DEF Written, Read
    <3> QED
      BY <1>2, <1>3, <3>1, ReadLayouts
  <2>3. CASE t \notin {"LOGON_RESPONSE", "MARKET_DEPTH_INCREMENTAL_UPDATE"}
    BY <1>2, <1>3, <2>3, ReadLayouts DEF ReadsLike
  <2> QED
    BY <2>1, <2>2, <2>3
<1> QED
  BY <1>10, <1>11, <1>12

LEMMA SameLength ==
    ASSUME NEW t \in Types
    PROVE  Len(Read[t]) = Len(Written[t])
<1>1. CASE t = "LOGON_RESPONSE"
  BY <1>1, ReadLayouts DEF Written, Read
<1>2. CASE t = "MARKET_DEPTH_INCREMENTAL_UPDATE"
  BY <1>2, ReadLayouts DEF Written, Read
<1>3. CASE t \notin {"LOGON_RESPONSE", "MARKET_DEPTH_INCREMENTAL_UPDATE"}
  BY <1>3, ReadLayouts DEF ReadsLike
<1> QED
  BY <1>1, <1>2, <1>3

(* deserialize() succeeds and reads every field that it looks for where it *)
(* was written.                                                            *)
LEMMA FieldsAreRead ==
    ASSUME NEW m \in Messages(Types, Nat)
    PROVE  /\ Deserialize(m).ok
           /\ \A i \in 1 .. Len(Written[m.type]) :
                 Read[m.type][i][1] = Written[m.type][i][1]
                    => Written[m.type][i][1] \in Deserialize(m).fields
<1>0. PICK w, r : w = Written[m.type] /\ r = Read[m.type]
  OBVIOUS
<1>1. PICK N \in Nat : N = Len(w) /\ N = Len(r)
  BY <1>0, MessageFields, SameLength
<1> DEFINE Arrived(j) == {v[1] : v \in {u \in ToSet(w) :
                                u[1] = r[j][1] /\ FieldBytes(m, u) = FieldBytes(m, w[j])}}
           Got(n) == UNION {Arrived(j) : j \in 1 .. n}
           State(n) == [ok |-> TRUE, rest |-> Rest(m, n), fields |-> Got(n)]
           Start == [ok |-> TRUE, rest |-> Body(m), fields |-> {}]
           Step(g) == [n \in 0 .. Len(Read[m.type]) |->
                         IF n = 0 THEN [ok |-> TRUE, rest |-> Body(m), fields |-> {}]
                                  ELSE ReadField(m, g[n - 1], Read[m.type][n])]
<1>2. State(0) = Start
  <2>1. Serialized(m)[0] = <<>> /\ Body(m) \in Seq(FieldByte)
    BY SerializedFields, ZerosBehind
  <2>2. Rest(m, 0) = SubSeq(Body(m), 1, Len(Body(m)))
    BY <2>1 DEF Rest
  <2>3. Rest(m, 0) = Body(m)
    BY <2>1, <2>2, SubSeqFull
  <2>4. Got(0) = {}
    OBVIOUS
  <2> QED
    BY <2>3, <2>4
<1>3. ASSUME NEW n \in 1 .. N
      PROVE  ReadField(m, State(n - 1), r[n]) = State(n)
  <2>1. n \in 1 .. Len(Written[m.type]) /\ n \in 0 .. Len(Written[m.type])
    BY <1>0, <1>1
  <2>2. PICK bytes \in Seq(FieldByte) : bytes = FieldBytes(m, w[n])
    BY <1>0, <2>1, MessageFields, BytesOfField
  <2>3. PICK rest \in Seq(FieldByte) : rest = Rest(m, n)
    BY <2>1, RestIsBehind
  <2>4. Rest(m, n - 1) = bytes \o rest
    BY <1>0, <2>1, <2>2, <2>3, FieldIsNext
  <2>6. CanRead(bytes \o rest, r[n]) /\ FieldRead(bytes \o rest, r[n]) = bytes
    BY <1>0, <2>1, <2>2, <2>4, NextIsRead
  <2>7. SubSeq(bytes \o rest, Len(bytes) + 1, Len(bytes \o rest)) = rest
    BY Behind
  <2>8. Got(n) = Got(n - 1) \cup Arrived(n)
    <3>1. 1 .. n = (1 .. n - 1) \cup {n}
      OBVIOUS
    <3> HIDE DEF Arrived
    <3> QED
      BY <3>1
  <2>5. Arrived(n) = {v[1] : v \in {u \in ToSet(Written[m.type]) :
                                       u[1] = r[n][1] /\ FieldBytes(m, u) = bytes}}
    BY <1>0, <2>2
  <2> HIDE DEF Got
  <2>9. PICK s : s = State(n - 1)
    OBVIOUS
  <2>10. s.ok /\ s.rest = bytes \o rest /\ s.fields = Got(n - 1)
    BY <2>4, <2>9
  <2>11. ReadField(m, s, r[n]) =
           [ok |-> TRUE, rest |-> rest,
            fields |-> Got(n - 1) \cup Arrived(n)]
    <3> HIDE DEF Arrived
    <3> QED
      BY <2>5, <2>6, <2>7, <2>10 DEF ReadField
  <2> QED
    BY <2>3, <2>8, <2>9, <2>11
<1> HIDE DEF State
<1>4. PICK f : f = [n \in 0 .. N |-> State(n)]
  OBVIOUS
<1>5. f = Step(f)
  <2>1. ASSUME NEW n \in 0 .. N
        PROVE  f[n] = IF n = 0 THEN Start ELSE ReadField(m, f[n - 1], r[n])
    <3>1. CASE n = 0
      BY <1>2, <1>4, <3>1
    <3>2. CASE n # 0
      <4>1. n \in 1 .. N /\ n - 1 \in 0 .. N
        BY <3>2
      <4> QED
        BY <1>3, <1>4, <3>2, <4>1
    <3> QED
      BY <3>1, <3>2
  <2>2. Step(f) = [n \in 0 .. N |-> IF n = 0 THEN Start ELSE ReadField(m, f[n - 1], r[n])]
    BY <1>0, <1>1
  <2> HIDE DEF Step, Start
  <2>3. f = [n \in 0 .. N |-> f[n]]
    BY <1>4
  <2> QED
    BY <2>1, <2>2, <2>3
<1>6. ASSUME NEW g, g = Step(g)
      PROVE  g = f
  <2>0. Step(g) = [n \in 0 .. N |-> IF n = 0 THEN Start ELSE ReadField(m, g[n - 1], r[n])]
    BY <1>0, <1>1
  <2> HIDE DEF Step, Start
  <2>1. \A n \in 0 .. N : g[n] = IF n = 0 THEN Start ELSE ReadField(m, g[n - 1], r[n])
    BY <1>6, <2>0
  <2> DEFINE P == {n \in Nat : n <= N => g[n] = State(n)}
  <2>2. 0 \in P
    <3>1. g[0] = Start
      BY <2>1
    <3> QED
      BY <1>2, <3>1
  <2>3. ASSUME NEW n \in Nat, n \in P
        PROVE  n + 1 \in P
    <3>1. ASSUME n + 1 <= N
          PROVE  g[n + 1] = State(n + 1)
      <4>1. PICK k \in 1 .. N : k = n + 1 /\ k - 1 = n /\ k # 0 /\ k \in 0 .. N
        BY <3>1
      <4>2. g[k] = ReadField(m, g[n], r[k])
        BY <2>1, <4>1
      <4>3. g[n] = State(n)
        BY <2>3, <3>1
      <4> QED
        BY <1>3, <4>1, <4>2, <4>3
    <3> QED
      BY <3>1
  <2> HIDE DEF P
  <2>4. Nat \subseteq P
    BY <2>2, <2>3, Induction
  <2>5. \A n \in 0 .. N : g[n] = State(n)
    BY <2>4 DEF P
  <2>6. g = [n \in 0 .. N |-> g[n]]
    BY <1>6, <2>0
  <2> QED
    BY <1>4, <2>5, <2>6
<1>7. Reading(m) = CHOOSE g : g = Step(g)
  BY DEF Reading
<1> HIDE DEF Step
<1>8. Reading(m) = f
  BY <1>5, <1>6, <1>7
<1>9. Deserialize(m) = State(N)
  BY <1>0, <1>1, <1>4, <1>8 DEF Deserialize
<1>10. ASSUME NEW i \in 1 .. N, r[i][1] = w[i][1]
       PROVE  w[i][1] \in Got(N)
  <2>1. i \in DOMAIN w
    BY <1>0, <1>1, MessageFields, WrittenLayouts DEF IsLayout
  <2>2. w[i] \in ToSet(w)
    BY <2>1 DEF ToSet
  <2>3. w[i][1] \in Arrived(i)
    BY <1>10, <2>2
  <2> HIDE DEF Arrived
  <2> QED
    BY <2>3
<1> QED
  BY <1>0, <1>1, <1>9, <1>10 DEF State

-----------------------------------------------------------------------------
LEMMA MoreMessages ==
    ASSUME NEW A, NEW B, A \subseteq B, NEW K, NEW L, K \subseteq L,
           NEW m \in Messages(A, K)
    PROVE  m \in Messages(B, L)
<1>1. PICK t \in A : m \in [type : {t}, length : [Texts(t) -> K]]
  BY DEF Messages
<1>2. m \in [type : {t}, length : [Texts(t) -> L]]
  BY <1>1
<1> QED
  BY <1>2 DEF Messages

(* What a message loses: the members that are not written, and those that  *)
(* are read as something else.                                             *)
LEMMA NotLost ==
    ASSUME NEW t \in Types, NEW name \in Members[t] \ Lost[t]
    PROVE  \E i \in 1 .. Len(Written[t]) :
              Written[t][i][1] = name /\ Read[t][i][1] = name
<1>1. CASE t = "LOGON_RESPONSE"
  <2>1. Written[t] = LogonResponseWrites /\ Read[t] = LogonResponseReads
    BY <1>1 DEF Written, Read
  <2>2. \E n \in 1 .. Len(LogonResponseWrites) : LogonResponseWrites[n][1] = name
    BY <1>1 DEF LogonResponseWrites, Members, Lost
  <2> QED
    BY <1>1, <2>1, <2>2, ReadLayouts
<1>2. CASE t = "MARKET_DATA_REQUEST"
  <2>1. Written[t] = RequestWrites /\ Read[t] = RequestReads
    BY <1>2 DEF Written, Read
  <2>2. \E n \in 1 .. Len(RequestWrites) : RequestWrites[n][1] = name
    BY <1>2 DEF RequestWrites, Members, Lost
  <2>3. ReadsLike(Read[t], Written[t])
    BY <1>2, ReadLayouts
  <2> QED
    BY <2>1, <2>2, <2>3 DEF ReadsLike
<1>3. CASE t = "MARKET_DATA_RESPONSE"
  <2>1. Written[t] = ResponseWrites /\ Read[t] = ResponseReads
    BY <1>3 DEF Written, Read
  <2>2. \E n \in 1 .. Len(ResponseWrites) : ResponseWrites[n][1] = name
    BY <1>3 DEF ResponseWrites, Members, Lost
  <2>3. ReadsLike(Read[t], Written[t])
    BY <1>3, ReadLayouts
  <2> QED
    BY <2>1, <2>2, <2>3 DEF ReadsLike
<1>4. CASE t = "MARKET_DATA_REJECT"
  <2>1. Written[t] = RejectWrites /\ Read[t] = RejectReads
    BY <1>4 DEF Written, Read
  <2>2. \E n \in 1 .. Len(RejectWrites) : RejectWrites[n][1] = name
    BY <1>4 DEF RejectWrites, Members, Lost
  <2>3. ReadsLike(Read[t], Written[t])
    BY <1>4, ReadLayouts
  <2> QED
    BY <2>1, <2>2, <2>3 DEF ReadsLike
<1>5. CASE t = "MARKET_DATA_UPDATE_TRADE"
  <2>1. Written[t] = TradeWrites /\ Read[t] = TradeReads
    BY <1>5 DEF Written, Read
  <2>2. \E n \in 1 .. Len(TradeWrites) : TradeWrites[n][1] = name
    BY <1>5 DEF TradeWrites, Members, Lost
  <2>3. ReadsLike(Read[t], Written[t])
    BY <1>5, ReadLayouts
  <2> QED
    BY <2>1, <2>2, <2>3 DEF ReadsLike
<1>6. CASE t = "MARKET_DATA_UPDATE_BID_ASK"
  <2>1. Written[t] = BidAskWrites /\ Read[t] = BidAskReads
    BY <1>6 DEF Written, Read
  <2>2. \E n \in 1 .. Len(BidAskWrites) : BidAskWrites[n][1] = name
    BY <1>6 DEF BidAskWrites, Members, Lost
  <2>3. ReadsLike(Read[t], Written[t])
    BY <1>6, ReadLayouts
  <2> QED
    BY <2>1, <2>2, <2>3 DEF ReadsLike
<1>7. CASE t = "MARKET_DEPTH_INCREMENTAL_UPDATE"
  <2>1. Written[t] = DepthWrites /\ Read[t] = DepthReads
    BY <1>7 DEF Written, Read
  <2>2. \E n \in 1 .. 6 : n # 5 /\ DepthWrites[n][1] = name
    BY <1>7 DEF DepthWrites, Members, Lost
  <2> QED
    BY <1>7, <2>1, <2>2, ReadLayouts
<1>8. CASE t = "POSITION_UPDATE"
  <2>1. Written[t] = PositionWrites /\ Read[t] = PositionReads
    BY <1>8 DEF Written, Read
  <2>2. \E n \in 1 .. Len(PositionWrites) : PositionWrites[n][1] = name
    BY <1>8 DEF PositionWrites, Members, Lost
  <2>3. ReadsLike(Read[t], Written[t])
    BY <1>8, ReadLayouts
  <2> QED
    BY <2>1, <2>2, <2>3 DEF ReadsLike
<1>9. CASE t = "SECURITY_DEFINITION_FOR_SYMBOL_REQUEST"
  <2>1. Written[t] = DefinitionRequestWrites /\ Read[t] = DefinitionRequestReads
    BY <1>9 DEF Written, Read
  <2>2. \E n \in 1 .. Len(DefinitionRequestWrites) : DefinitionRequestWrites[n][1] = name
    BY <1>9 DEF DefinitionRequestWrites, Members, Lost
  <2>3. ReadsLike(Read[t], Written[t])
    BY <1>9, ReadLayouts
  <2> QED
    BY <2>1, <2>2, <2>3 DEF ReadsLike
<1>10. CASE t = "SECURITY_DEFINITION_RESPONSE"
  <2>1. Written[t] = DefinitionWrites /\ Read[t] = DefinitionReads
    BY <1>10 DEF Written, Read
  <2>2. \E n \in 1 .. Len(DefinitionWrites) : DefinitionWrites[n][1] = name
    BY <1>10 DEF DefinitionWrites, Members, Lost
  <2>3. ReadsLike(Read[t], Written[t])
    BY <1>10, ReadLayouts
  <2> QED
    BY <2>1, <2>2, <2>3 DEF ReadsLike
<1>11. CASE t \in {"LOGON_REQUEST", "HEARTBEAT"}
  BY <1>11 DEF Members, Lost
<1> QED
  BY <1>1, <1>2, <1>3, <1>4, <1>5, <1>6,
     <1>7, <1>8, <1>9, <1>10, <1>11 DEF Types, Members

LEMMA FieldsComeBack ==
    \A m \in Messages(Types, Nat) : IsReadBack(m) /\ (m.type \in Parsed => Parses(m))
<1> TAKE m \in Messages(Types, Nat)
<1>1. m.type \in Types
  BY MessageFields
<1>2. StaysInside(m)
  BY MessagesFit DEF StaysInside, Fitting, EndOf, AllFields
<1>3. ASSUME NEW name \in Members[m.type] \ Lost[m.type]
      PROVE  name \in Deserialize(m).fields
  BY <1>1, NotLost, FieldsAreRead
<1>4. Deserialize(m).ok
  BY FieldsAreRead
<1> QED
  BY <1>2, <1>3, <1>4 DEF IsReadBack, Parses

(* Whatever the lengths of its texts, if its size fits into the header:    *)
(* serialize() writes nothing behind the buffer of get_size() bytes, and   *)
(* deserialize() finds every member that is not lost where serialize() has *)
(* put it.  parse_message() refuses none of the types it has a case for.   *)
THEOREM WrittenIsReadBack ==
    \A m \in Messages(Types, Nat) :
        Fits(m) => IsReadBack(m) /\ (m.type \in Parsed => Parses(m))
BY FieldsComeBack

(***************************************************************************)
(* The stream.                                                             *)
(***************************************************************************)
LEMMA MessagesOfStream ==
    ASSUME NEW m \in Message
    PROVE  m \in Messages(Types, Nat)
BY StreamAssumption, MoreMessages DEF StreamAssumption, Message

LEMMA Sizes ==
    ASSUME NEW m \in Message
    PROVE  Size[m] \in Nat /\ Size[m] >= HeaderSize
<1>1. Size[m] = GetSize(m)
  BY DEF Size
<1> QED
  BY <1>1, MessagesOfStream, SizeOfMessage

(* The bytes of a message with its number are bytes of the stream.         *)
LEMMA BytesType ==
    ASSUME NEW m \in Message, NEW i \in 1 .. MaxMessages
    PROVE  /\ Bytes(i, m) \in Seq(Byte)
           /\ Len(Bytes(i, m)) = Size[m]
           /\ \A k \in 1 .. Size[m] : Bytes(i, m)[k] = <<i, k>>
<1>1. Size[m] \in Nat
  BY Sizes
<1> DEFINE n == Size[m]
<1> HIDE DEF n
<1>2. n \in Nat
  BY <1>1 DEF n
<1>3. [k \in 1 .. n |-> <<i, k>>] \in Seq(Byte)
  BY <1>2 DEF Byte
<1>4. Len([k \in 1 .. n |-> <<i, k>>]) = n
  BY <1>2
<1> QED
  BY <1>3, <1>4 DEF Bytes, n

LEMMA InitTypes == Init => TypeOK
BY DEF Init, TypeOK

(* Cutting a sequence in two loses nothing.                                *)
LEMMA Pieces ==
    ASSUME NEW S, NEW bytes \in Seq(S), NEW n \in 0 .. Len(bytes)
    PROVE  /\ SubSeq(bytes, 1, n) \in Seq(S)
           /\ SubSeq(bytes, n + 1, Len(bytes)) \in Seq(S)
           /\ SubSeq(bytes, 1, n) \o SubSeq(bytes, n + 1, Len(bytes)) = bytes
           /\ Len(SubSeq(bytes, n + 1, Len(bytes))) = Len(bytes) - n
           /\ \A k \in 1 .. Len(bytes) - n :
                 SubSeq(bytes, n + 1, Len(bytes))[k] = bytes[k + n]
<1>1. SubSeq(bytes, 1, n) \o SubSeq(bytes, n + 1, Len(bytes)) = bytes
  <2>1. 1 \in 1 .. Len(bytes) + 1 /\ n \in 1 - 1 .. Len(bytes) /\ Len(bytes) \in n .. Len(bytes)
    OBVIOUS
  <2>2. SubSeq(bytes, 1, n) \o SubSeq(bytes, n + 1, Len(bytes)) = SubSeq(bytes, 1, Len(bytes))
    BY <2>1, ConcatAdjacentSubSeq
  <2> QED
    BY <2>2, SubSeqFull
<1>2. SubSeq(bytes, 1, n) \in Seq(S) /\ SubSeq(bytes, n + 1, Len(bytes)) \in Seq(S)
  OBVIOUS
<1>3. Len(SubSeq(bytes, n + 1, Len(bytes))) = Len(bytes) - n
  OBVIOUS
<1>4. \A k \in 1 .. Len(bytes) - n : SubSeq(bytes, n + 1, Len(bytes))[k] = bytes[k + n]
  OBVIOUS
<1> QED
  BY <1>1, <1>2, <1>3, <1>4

(* The places of a concatenation.                                          *)
LEMMA Joined ==
    ASSUME NEW S, NEW a \in Seq(S), NEW b \in Seq(S)
    PROVE  /\ Len(a) \in Nat
           /\ Len(a \o b) = Len(a) + Len(b)
           /\ \A j \in 1 .. Len(a) : (a \o b)[j] = a[j]
           /\ \A k \in 1 .. Len(b) : (a \o b)[Len(a) + k] = b[k]
<1>1. /\ Len(a) \in Nat /\ Len(b) \in Nat
      /\ Len(a \o b) = Len(a) + Len(b)
      /\ \A j \in 1 .. Len(a) + Len(b) :
            (a \o b)[j] = IF j <= Len(a) THEN a[j] ELSE b[j - Len(a)]
  BY ConcatProperties
<1>2. ASSUME NEW k \in 1 .. Len(b)
      PROVE  (a \o b)[Len(a) + k] = b[k]
  <2>1. /\ Len(a) + k \in 1 .. Len(a) + Len(b)
        /\ ~(Len(a) + k <= Len(a))
        /\ Len(a) + k - Len(a) = k
    BY <1>1
  <2> QED
    BY <1>1, <2>1
<1> QED
  BY <1>1, <1>2

LEMMA Associative ==
    \A s, t, u \in Seq(Byte) : (s \o t) \o u = s \o (t \o u)
BY ConcatAssociative

LEMMA NonEmpty ==
    ASSUME NEW S, NEW a \in Seq(S)
    PROVE  a # <<>> <=> Len(a) >= 1
OBVIOUS

-----------------------------------------------------------------------------
(* What is ahead of the receiver.                                          *)

LEMMA UnsentOfSender ==
    ASSUME OneSender, NEW t \in Senders, left[t] # <<>>
    PROVE  Unsent = left[t]
<1>1. Sending = {t}
  BY DEF OneSender, Sending
<1> QED
  BY <1>1 DEF Unsent

LEMMA UnsentOfNobody ==
    ASSUME \A t \in Senders : left[t] = <<>>
    PROVE  Unsent = <<>>
BY DEF Unsent, Sending

LEMMA AheadType ==
    ASSUME TypeOK
    PROVE  Unsent \in Seq(Byte) /\ Ahead \in Seq(Byte)
<1>1. Unsent \in Seq(Byte)
  <2>1. CASE Sending = {}
    BY <2>1 DEF Unsent
  <2>2. CASE Sending # {}
    <3>1. (CHOOSE t \in Sending : TRUE) \in Senders
      BY <2>2 DEF Sending
    <3> QED
      BY <2>2, <3>1 DEF Unsent, TypeOK
  <2> QED
    BY <2>1, <2>2
<1> QED
  BY <1>1 DEF Ahead, TypeOK

(* The stream ahead begins with the whole of the current message.          *)
LEMMA CurrentIsWhole ==
    ASSUME TypeOK, StreamKeepsMessages, Ahead # <<>>
    PROVE  /\ Current \in 1 .. Len(sent)
           /\ sent[Current] \in Message
           /\ Size[sent[Current]] \in 1 .. Len(Ahead)
           /\ \A k \in 1 .. Size[sent[Current]] : Ahead[k] = <<Current, k>>
<1> DEFINE ahead == Ahead
<1>1. ahead \in Seq(Byte) /\ ahead # <<>> /\ MessagesAreWhole(ahead)
  BY AheadType DEF StreamKeepsMessages
<1>2. Current = ahead[1][1]
  BY DEF Current
<1> HIDE DEF ahead
<1>3. PICK i \in 1 .. Len(sent) : \E n \in 1 .. Size[sent[i]] : MessageAround(ahead, 1, i, n)
  <2>1. 1 \in 1 .. Len(ahead)
    BY <1>1, NonEmpty
  <2> QED
    BY <1>1, <2>1 DEF MessagesAreWhole
<1> DEFINE z == Size[sent[i]]
<1>4. sent[i] \in Message /\ z \in Nat /\ z >= 1
  BY Sizes DEF TypeOK, HeaderSize
<1>5. PICK n \in 1 .. z :
        /\ ahead[1] = <<i, n>>
        /\ \A k \in 1 .. z : 1 - n + k \in 1 .. Len(ahead) /\ ahead[1 - n + k] = <<i, k>>
  BY <1>3 DEF MessageAround
<1>6. z = Size[sent[i]]
  OBVIOUS
<1> HIDE DEF z
<1>7. n = 1
  <2>1. 1 - n + 1 \in 1 .. Len(ahead)
    BY <1>4, <1>5
  <2> QED
    BY <1>4, <2>1
<1>8. Current = i
  BY <1>2, <1>5
<1>9. \A k \in 1 .. z : k \in 1 .. Len(ahead) /\ ahead[k] = <<i, k>>
  BY <1>5, <1>7
<1>10. z \in 1 .. Len(ahead)
  BY <1>4, <1>9
<1> QED
  BY <1>4, <1>6, <1>8, <1>9, <1>10 DEF ahead

LEMMA CurrentType ==
    ASSUME TypeOK, StreamKeepsMessages
    PROVE  Current \in 1 .. Len(sent) + 1
<1>1. CASE Ahead = <<>>
  BY <1>1 DEF Current, TypeOK
<1>2. CASE Ahead # <<>>
  BY <1>2, CurrentIsWhole DEF TypeOK
<1> QED
  BY <1>1, <1>2

(* A message that is sent comes to stand at the end.                       *)
LEMMA Appending ==
    ASSUME TypeOK, StreamKeepsMessages, OneSender', NEW m \in Message,
           Len(sent) < MaxMessages, sent' = Append(sent, m),
           Ahead' = Ahead \o Bytes(Len(sent) + 1, m)
    PROVE  StreamKeepsMessages' /\ Current' = Current
<1>0. PICK n \in Nat : n = Len(sent) + 1
  BY DEF TypeOK
<1> DEFINE a == Ahead
           z == Size[m]
           b == Bytes(n, m)
           w == Ahead'
<1>1. /\ n \in 1 .. MaxMessages /\ Len(sent) \in Nat /\ n = Len(sent) + 1
      /\ sent \in Seq(Message) /\ sent' \in Seq(Message) /\ Len(sent') = n
      /\ sent'[n] = m
      /\ \A i \in 1 .. Len(sent) : sent'[i] = sent[i]
  BY <1>0, StreamAssumption DEF TypeOK, StreamAssumption
<1>2. z \in Nat /\ z >= 1
  BY Sizes DEF HeaderSize
<1>3. b \in Seq(Byte) /\ Len(b) = z /\ \A k \in 1 .. z : b[k] = <<n, k>>
  BY <1>1, BytesType
<1>4. a \in Seq(Byte) /\ w = a \o b
  BY <1>0, AheadType
<1>5. /\ NothingIsLost(a, Current)
      /\ MessagesAreWhole(a)
      /\ BytesAreInOrder(a)
  BY DEF StreamKeepsMessages
<1>6. Current \in 1 .. n
  BY <1>0, CurrentType
<1>7. Current = IF a = <<>> THEN n ELSE a[1][1]
  BY <1>0 DEF Current
<1>8. Current' = IF w = <<>> THEN Len(sent') + 1 ELSE w[1][1]
  BY DEF Current
<1> HIDE DEF a, z, b, w
<1>9. PICK L \in Nat : L = Len(a)
  BY <1>4
<1>10. /\ \A j \in 1 .. L : j \in 1 .. L + z /\ w[j] = a[j]
       /\ \A k \in 1 .. z : L + k \in 1 .. L + z /\ w[L + k] = <<n, k>>
  <2>1. /\ \A j \in 1 .. Len(a) : w[j] = a[j]
        /\ \A k \in 1 .. Len(b) : w[Len(a) + k] = b[k]
    BY <1>3, <1>4, Joined
  <2>2. \A j \in 1 .. L : w[j] = a[j]
    BY <1>9, <2>1
  <2>3. \A k \in 1 .. z : w[L + k] = <<n, k>>
    BY <1>3, <1>9, <2>1
  <2>4. /\ \A j \in 1 .. L : j \in 1 .. L + z
        /\ \A k \in 1 .. z : L + k \in 1 .. L + z
    BY <1>2
  <2> QED
    BY <2>2, <2>3, <2>4
<1>10a. w \in Seq(Byte) /\ Len(w) = L + z
  <2>1. w \in Seq(Byte) /\ Len(w) = Len(a) + Len(b)
    BY <1>3, <1>4, ConcatProperties
  <2> QED
    BY <1>3, <1>9, <2>1
<1>11. ASSUME NEW j \in L + 1 .. L + z
       PROVE  j - L \in 1 .. z /\ w[j] = <<n, j - L>>
  <2>1. j - L \in 1 .. z /\ L + (j - L) = j
    BY <1>2
  <2> QED
    BY <1>10, <2>1
<1>12. Current' = Current
  <2>1. w # <<>>
    BY <1>2, <1>10a
  <2>2. CASE a = <<>>
    <3>1. L = 0
      BY <1>9, <2>2
    <3>2. w[0 + 1] = <<n, 1>>
      BY <1>2, <1>10, <3>1
    <3> QED
      BY <1>7, <1>8, <2>1, <2>2, <3>2
  <2>3. CASE a # <<>>
    <3>1. 1 \in 1 .. L
      BY <1>4, <1>9, <2>3, NonEmpty
    <3> QED
      BY <1>7, <1>8, <1>10, <2>1, <2>3, <3>1
  <2> QED
    BY <2>2, <2>3
<1>13. NothingIsLost(Ahead, Current)'
  <2>0. NothingIsLost(Ahead, Current)' <=>
          \A i \in Current' .. Len(sent') : \A k \in 1 .. Size[sent'[i]] :
             \E j \in 1 .. Len(w) : w[j] = <<i, k>>
    BY DEF NothingIsLost, w
  <2> SUFFICES \A i \in Current .. n : \A k \in 1 .. Size[sent'[i]] :
                  \E j \in 1 .. L + z : w[j] = <<i, k>>
    BY <1>1, <1>10a, <1>12, <2>0
  <2> TAKE i \in Current .. n
  <2> TAKE k \in 1 .. Size[sent'[i]]
  <2>1. CASE i = n
    <3>1. k \in 1 .. z
      BY <1>1, <2>1 DEF z
    <3>2. L + k \in 1 .. L + z /\ w[L + k] = <<i, k>>
      BY <1>10, <2>1, <3>1
    <3> QED
      BY <3>2
  <2>2. CASE i # n
    <3>1. i \in Current .. Len(sent) /\ sent'[i] = sent[i]
      BY <1>1, <1>6, <2>2
    <3>2. PICK j \in 1 .. L : a[j] = <<i, k>>
      BY <1>5, <1>9, <3>1 DEF NothingIsLost
    <3>3. j \in 1 .. L + z /\ w[j] = <<i, k>>
      BY <1>10, <3>2
    <3> QED
      BY <3>3
  <2> QED
    BY <2>1, <2>2
<1>14. MessagesAreWhole(Ahead)'
  <2> SUFFICES ASSUME NEW j \in 1 .. Len(w)
               PROVE  \E i \in 1 .. Len(sent') : \E p \in 1 .. Size[sent'[i]] :
                         MessageAround(Ahead, j, i, p)'
    BY DEF MessagesAreWhole, w
  <2>1. CASE j > L
    <3>1. PICK p \in 1 .. z : p = j - L /\ w[j] = <<n, p>>
      BY <1>10a, <1>11, <2>1
    <3>2. ASSUME NEW k \in 1 .. z
          PROVE  j - p + k \in 1 .. L + z /\ w[j - p + k] = <<n, k>>
      <4>1. j - p + k = L + k /\ L + k \in 1 .. L + z
        BY <1>2, <3>1
      <4> QED
        BY <1>10, <4>1
    <3>3. n \in 1 .. Len(sent') /\ Size[sent'[n]] = z
      BY <1>1 DEF z
    <3>4. MessageAround(Ahead, j, n, p)'
      BY <1>10a, <3>1, <3>2, <3>3 DEF MessageAround, w
    <3> QED
      BY <3>1, <3>3, <3>4
  <2>2. CASE j <= L
    <3>1. j \in 1 .. L
      BY <1>10a, <2>2
    <3>2. PICK i \in 1 .. Len(sent) : \E p \in 1 .. Size[sent[i]] : MessageAround(a, j, i, p)
      BY <1>5, <1>9, <3>1 DEF MessagesAreWhole
    <3>3. PICK p \in 1 .. Size[sent[i]] : MessageAround(a, j, i, p)
      BY <3>2
    <3>4. i \in 1 .. Len(sent') /\ sent'[i] = sent[i]
      BY <1>1
    <3>5. \A k \in 1 .. Size[sent[i]] : j - p + k \in 1 .. L /\ a[j - p + k] = <<i, k>>
      BY <1>9, <3>3 DEF MessageAround
    <3>6. \A k \in 1 .. Size[sent[i]] : j - p + k \in 1 .. L + z /\ w[j - p + k] = <<i, k>>
      BY <1>10, <3>5
    <3>7. w[j] = <<i, p>>
      BY <1>10, <3>1, <3>3 DEF MessageAround
    <3>8. MessageAround(Ahead, j, i, p)'
      BY <1>10a, <3>4, <3>6, <3>7 DEF MessageAround, w
    <3> QED
      BY <3>3, <3>4, <3>8
  <2> QED
    BY <1>10a, <2>1, <2>2
<1>15. BytesAreInOrder(Ahead)'
  <2> SUFFICES ASSUME NEW k \in 1 .. L + z, NEW j \in 1 .. k - 1
               PROVE  Before(w[j], w[k])
    BY <1>10a DEF BytesAreInOrder, w
  <2>1. CASE k <= L
    <3>1. k \in 1 .. L /\ j \in 1 .. L
      BY <1>2, <2>1
    <3> QED
      BY <1>5, <1>9, <1>10, <3>1 DEF BytesAreInOrder
  <2>2. CASE k > L /\ j > L
    <3>1. w[j] = <<n, j - L>> /\ w[k] = <<n, k - L>> /\ j - L < k - L
      BY <1>2, <1>11, <2>2
    <3> QED
      BY <3>1 DEF Before
  <2>3. CASE k > L /\ j <= L
    <3>1. j \in 1 .. L /\ w[j] = a[j]
      BY <1>2, <1>10, <2>3
    <3>2. PICK i \in 1 .. Len(sent) : \E p \in 1 .. Size[sent[i]] : MessageAround(a, j, i, p)
      BY <1>5, <1>9, <3>1 DEF MessagesAreWhole
    <3>3. w[k][1] = n
      BY <1>2, <1>11, <2>3
    <3>4. w[j][1] < w[k][1]
      BY <1>1, <3>1, <3>2, <3>3 DEF MessageAround
    <3> QED
      BY <3>4 DEF Before
  <2> QED
    BY <1>2, <2>1, <2>2, <2>3
<1> QED
  BY <1>12, <1>13, <1>14, <1>15 DEF StreamKeepsMessages

(* A message that is processed is the current one, and the next one is     *)
(* current then.                                                           *)
LEMMA Consuming ==
    ASSUME TypeOK, StreamKeepsMessages, Ahead # <<>>, UNCHANGED <<sent, left>>,
           Ahead' \in Seq(Byte),
           Len(Ahead') = Len(Ahead) - Size[sent[Current]],
           \A j \in 1 .. Len(Ahead') : Ahead'[j] = Ahead[j + Size[sent[Current]]]
    PROVE  StreamKeepsMessages' /\ Current' = Current + 1
<1> DEFINE a == Ahead
           b == Ahead'
           N == Len(sent)
<1>0. PICK c, z : c = Current /\ z = Size[sent[Current]]
  OBVIOUS
<1>1. /\ a \in Seq(Byte) /\ b \in Seq(Byte) /\ N \in Nat
      /\ c \in 1 .. N /\ z = Size[sent[c]] /\ z \in 1 .. Len(a)
      /\ \A k \in 1 .. z : a[k] = <<c, k>>
  <2>1. a \in Seq(Byte) /\ b \in Seq(Byte)
    BY AheadType
  <2>2. N \in Nat
    BY DEF TypeOK
  <2>3. /\ c \in 1 .. N /\ z = Size[sent[c]] /\ z \in 1 .. Len(a)
        /\ \A k \in 1 .. z : a[k] = <<c, k>>
    <3>1. /\ Current \in 1 .. Len(sent)
          /\ Size[sent[Current]] \in 1 .. Len(Ahead)
          /\ \A k \in 1 .. Size[sent[Current]] : Ahead[k] = <<Current, k>>
      BY CurrentIsWhole
    <3> QED
      BY <1>0, <3>1
  <2> QED
    BY <2>1, <2>2, <2>3
<1>2. Len(b) = Len(a) - z /\ \A j \in 1 .. Len(b) : b[j] = a[j + z]
  BY <1>0
<1>3. /\ NothingIsLost(a, c)
      /\ MessagesAreWhole(a)
      /\ BytesAreInOrder(a)
      /\ OneSender'
  BY <1>0 DEF StreamKeepsMessages, OneSender, Sending
<1>4. Current' = IF b = <<>> THEN N + 1 ELSE b[1][1]
  BY DEF Current
<1>5. \A i \in 1 .. N : Size[sent[i]] \in Nat /\ Size[sent[i]] >= 1
  BY Sizes DEF HeaderSize, TypeOK
<1> HIDE DEF a, b, N
<1>5a. PICK L \in Nat, M \in Nat :
          /\ L = Len(a) /\ M = Len(b) /\ L = M + z
          /\ c \in 1 .. N /\ z \in 1 .. L /\ N \in Nat
  BY <1>1, <1>2
<1>5b. \A k \in 1 .. z : a[k] = <<c, k>>
  BY <1>1
<1>5c. \A j \in 1 .. M : j + z \in 1 .. L /\ b[j] = a[j + z]
  BY <1>2, <1>5a
<1>6. \A j \in 1 .. L : j > z => j - z \in 1 .. M /\ b[j - z] = a[j]
  BY <1>5a, <1>5c
(* What is behind the current message belongs to later ones.               *)
<1>7. ASSUME NEW j \in 1 .. L, j > z
      PROVE  a[j][1] \in c + 1 .. N
  <2>1. PICK i \in 1 .. N : \E n \in 1 .. Size[sent[i]] : MessageAround(a, j, i, n)
    BY <1>3, <1>5a, <1>7 DEF MessagesAreWhole, N
  <2>2. PICK n \in 1 .. Size[sent[i]] : a[j] = <<i, n>>
    BY <2>1 DEF MessageAround
  <2>3. Before(a[z], a[j])
    BY <1>3, <1>5a, <1>7 DEF BytesAreInOrder
  <2>4. c < i \/ (c = i /\ z < n)
    BY <1>5a, <1>5b, <2>2, <2>3 DEF Before
  <2>5. ~(c = i /\ z < n)
    BY <1>1, <1>5, <2>2
  <2> QED
    BY <1>5a, <2>2, <2>4, <2>5
<1>8. ASSUME NEW i \in c + 1 .. N, NEW k \in 1 .. Size[sent[i]]
      PROVE  \E j \in 1 .. M : b[j] = <<i, k>>
  <2>1. i \in c .. N
    BY <1>5a
  <2>2. PICK j \in 1 .. L : a[j] = <<i, k>>
    BY <1>3, <1>5a, <2>1 DEF NothingIsLost, N
  <2>3. CASE j <= z
    <3>1. a[j] = <<c, j>>
      BY <1>5b, <2>3
    <3>2. i = c
      BY <2>2, <3>1
    <3> QED
      BY <1>5a, <3>2
  <2>4. CASE j > z
    BY <1>6, <2>2, <2>4
  <2> QED
    BY <1>5a, <2>3, <2>4
<1>9. BytesAreInOrder(b)
  <2> SUFFICES ASSUME NEW k \in 1 .. M, NEW j \in 1 .. k - 1
               PROVE  Before(b[j], b[k])
    BY <1>5a DEF BytesAreInOrder
  <2>1. k + z \in 1 .. L /\ j + z \in 1 .. (k + z) - 1 /\ j \in 1 .. M
    BY <1>5a
  <2>2. Before(a[j + z], a[k + z])
    BY <1>3, <1>5a, <2>1 DEF BytesAreInOrder
  <2> QED
    BY <1>5c, <2>1, <2>2
<1>10. \A j \in 1 .. M : b[j][1] \in c + 1 .. N
  BY <1>5a, <1>5c, <1>7
<1>11. Current' = c + 1
  <2>1. ASSUME c < N
        PROVE  \E j \in 1 .. M : b[j] = <<c + 1, 1>>
    <3>1. c + 1 \in c + 1 .. N /\ c + 1 \in 1 .. N
      BY <1>5a, <2>1
    <3>2. 1 \in 1 .. Size[sent[c + 1]]
      BY <1>5, <3>1
    <3> QED
      BY <1>8, <3>1, <3>2
  <2>2. CASE b = <<>>
    <3>1. M = 0
      BY <1>5a, <2>2
    <3> QED
      BY <1>4, <1>5a, <2>1, <2>2, <3>1
  <2>3. CASE b # <<>>
    <3>1. 1 \in 1 .. M
      BY <1>1, <1>5a, <2>3, NonEmpty
    <3>2. b[1][1] \in c + 1 .. N
      BY <1>10, <3>1
    <3>3. PICK j \in 1 .. M : b[j] = <<c + 1, 1>>
      BY <1>5a, <2>1, <3>2
    <3>4. j = 1 \/ Before(b[1], b[j])
      BY <1>5a, <1>9, <3>1 DEF BytesAreInOrder
    <3>5. b[1][1] <= c + 1
      BY <1>5a, <3>2, <3>3, <3>4 DEF Before
    <3>6. b[1][1] = c + 1
      BY <1>5a, <3>2, <3>5
    <3> QED
      BY <1>4, <2>3, <3>6
  <2> QED
    BY <2>2, <2>3
<1>12. NothingIsLost(Ahead, Current)'
  <2>1. \A i \in c + 1 .. N : \A k \in 1 .. Size[sent[i]] : \E j \in 1 .. Len(b) : b[j] = <<i, k>>
    BY <1>5a, <1>8
  <2> QED
    BY <1>11, <2>1 DEF NothingIsLost, b, N
<1>13. ASSUME NEW j \in 1 .. M
       PROVE  \E i \in 1 .. N : \E n \in 1 .. Size[sent[i]] : MessageAround(b, j, i, n)
  <2>1. j + z \in 1 .. L /\ b[j] = a[j + z] /\ j + z > z
    BY <1>5a, <1>5c
  <2>2. PICK i \in 1 .. N : \E n \in 1 .. Size[sent[i]] : MessageAround(a, j + z, i, n)
    BY <1>3, <1>5a, <2>1 DEF MessagesAreWhole, N
  <2>3. PICK n \in 1 .. Size[sent[i]] : MessageAround(a, j + z, i, n)
    BY <2>2
  <2>4. a[j + z] = <<i, n>>
    BY <2>3 DEF MessageAround
  <2>5. i \in c + 1 .. N
    BY <1>7, <2>1, <2>4
  <2>5a. Size[sent[i]] \in Nat /\ n \in Nat /\ z \in Nat /\ j \in Nat
    BY <1>5, <1>5a
  <2>6. ASSUME NEW k \in 1 .. Size[sent[i]]
        PROVE  j - n + k \in 1 .. M /\ b[j - n + k] = <<i, k>>
    <3>0. k \in Nat
      BY <2>5a
    <3>1. j + z - n + k \in 1 .. L /\ a[j + z - n + k] = <<i, k>>
      <4>1. j + z - n + k \in 1 .. Len(a) /\ a[j + z - n + k] = <<i, k>>
        BY <2>3, <2>5a, <3>0 DEF MessageAround
      <4> QED
        BY <1>5a, <4>1
    <3>2. PICK q \in 1 .. L : q = j + z - n + k /\ a[q] = <<i, k>>
      BY <3>1
    <3>3. q - z = j - n + k
      BY <2>5a, <3>0, <3>2
    <3>4. q > z
      BY <1>5a, <1>5b, <2>5, <3>2
    <3> QED
      BY <1>6, <3>2, <3>3, <3>4
  <2>7. MessageAround(b, j, i, n)
    BY <1>5a, <2>1, <2>4, <2>6 DEF MessageAround
  <2> QED
    BY <2>7
<1>14. MessagesAreWhole(Ahead)'
  <2> SUFFICES ASSUME NEW j \in 1 .. Len(b)
               PROVE  \E i \in 1 .. Len(sent') : \E n \in 1 .. Size[sent'[i]] :
                         MessageAround(Ahead, j, i, n)'
    BY DEF MessagesAreWhole, b
  <2>1. PICK i \in 1 .. N : \E n \in 1 .. Size[sent[i]] : MessageAround(b, j, i, n)
    BY <1>5a, <1>13
  <2>2. PICK n \in 1 .. Size[sent[i]] : MessageAround(b, j, i, n)
    BY <2>1
  <2>3. MessageAround(Ahead, j, i, n)'
    BY <2>2 DEF MessageAround, b
  <2> QED
    BY <2>2, <2>3 DEF N
<1>15. BytesAreInOrder(Ahead)'
  BY <1>9 DEF BytesAreInOrder, b
<1> QED
  BY <1>0, <1>3, <1>11, <1>12, <1>14, <1>15 DEF StreamKeepsMessages

-----------------------------------------------------------------------------
(* The steps.                                                              *)

(* What MessageComplete finds at the head of the buffer is the whole of    *)
(* the current message.                                                    *)
LEMMA CompleteIsCurrent ==
    ASSUME TypeOK, StreamKeepsMessages, MessageComplete
    PROVE  /\ Ahead # <<>>
           /\ buffer[1][1] = Current
           /\ AnnouncedSize = Size[sent[Current]]
           /\ Size[sent[Current]] \in 1 .. Len(buffer)
           /\ sent[Current] \in Message
<1> DEFINE rest == wire \o Unsent
<1>1. /\ buffer \in Seq(Byte) /\ wire \in Seq(Byte) /\ Unsent \in Seq(Byte)
      /\ Len(buffer) >= 4
  BY AheadType DEF TypeOK, MessageComplete, HeaderSize
<1>2. rest \in Seq(Byte) /\ Ahead = buffer \o rest
  <2>1. Ahead = (buffer \o wire) \o Unsent
    BY DEF Ahead
  <2>2. PICK b \in Seq(Byte), v \in Seq(Byte), u \in Seq(Byte) :
           b = buffer /\ v = wire /\ u = Unsent
    BY <1>1
  <2>3. (b \o v) \o u = b \o (v \o u) /\ v \o u \in Seq(Byte)
    BY Associative, ConcatProperties
  <2> QED
    BY <2>1, <2>2, <2>3
<1> HIDE DEF rest
<1>3. /\ Len(Ahead) = Len(buffer) + Len(rest)
      /\ \A j \in 1 .. Len(buffer) : Ahead[j] = buffer[j]
  BY <1>1, <1>2, Joined
<1>4. Ahead # <<>>
  <2>1. Len(Ahead) >= 1
    BY <1>1, <1>2, <1>3
  <2> QED
    BY <2>1, AheadType, NonEmpty
<1>5. /\ sent[Current] \in Message
      /\ Size[sent[Current]] \in Nat /\ Size[sent[Current]] >= 4
      /\ \A k \in 1 .. Size[sent[Current]] : Ahead[k] = <<Current, k>>
  BY <1>4, CurrentIsWhole, Sizes DEF HeaderSize
<1>6. buffer[1] = <<Current, 1>> /\ buffer[2] = <<Current, 2>>
  <2>1. /\ 1 \in 1 .. Size[sent[Current]] /\ 2 \in 1 .. Size[sent[Current]]
        /\ 1 \in 1 .. Len(buffer) /\ 2 \in 1 .. Len(buffer)
    BY <1>1, <1>5
  <2> QED
    BY <1>3, <1>5, <2>1
<1>7. AnnouncedSize = Size[sent[Current]]
  BY <1>6 DEF AnnouncedSize
<1> QED
  BY <1>1, <1>4, <1>5, <1>6, <1>7 DEF MessageComplete

LEMMA NextTypes ==
    ASSUME TypeOK, StreamKeepsMessages, [Next]_vars
    PROVE  TypeOK'
<1>1. ASSUME NEW t \in Senders, SendBegins(t)
      PROVE  TypeOK'
  <2>1. PICK m \in Message :
          /\ sent' = Append(sent, m)
          /\ left' = [left EXCEPT ![t] = Bytes(Len(sent'), m)]
    BY <1>1 DEF SendBegins, Begin
  <2>2. Len(sent') \in 1 .. MaxMessages
    BY <1>1, <2>1, StreamAssumption DEF SendBegins, Begin, TypeOK, StreamAssumption
  <2>3. Bytes(Len(sent'), m) \in Seq(Byte)
    BY <2>2, BytesType
  <2> QED
    BY <1>1, <2>1, <2>3 DEF TypeOK, SendBegins, Begin
<1>2. ASSUME NEW t \in Senders, SendPasses(t)
      PROVE  TypeOK'
  <2>1. PICK n \in 1 .. Len(left[t]) :
          /\ wire' = wire \o SubSeq(left[t], 1, n)
          /\ left' = [left EXCEPT ![t] = SubSeq(@, n + 1, Len(@))]
    BY <1>2 DEF SendPasses
  <2>2. /\ SubSeq(left[t], 1, n) \in Seq(Byte)
        /\ SubSeq(left[t], n + 1, Len(left[t])) \in Seq(Byte)
    BY Pieces DEF TypeOK
  <2>3. wire' \in Seq(Byte) /\ left' \in [Senders -> Seq(Byte)]
    BY <2>1, <2>2 DEF TypeOK
  <2> QED
    BY <1>2, <2>3 DEF TypeOK, SendPasses
<1>3. CASE Receive
  <2>1. PICK n \in 1 .. Len(wire) :
          /\ buffer' = buffer \o SubSeq(wire, 1, n)
          /\ wire' = SubSeq(wire, n + 1, Len(wire))
    BY <1>3 DEF Receive
  <2>2. /\ SubSeq(wire, 1, n) \in Seq(Byte)
        /\ SubSeq(wire, n + 1, Len(wire)) \in Seq(Byte)
    BY Pieces DEF TypeOK
  <2>3. wire' \in Seq(Byte) /\ buffer' \in Seq(Byte)
    BY <2>1, <2>2 DEF TypeOK
  <2> QED
    BY <1>3, <2>3 DEF TypeOK, Receive
<1>4. CASE WaitForData
  BY <1>4 DEF TypeOK, WaitForData
<1>5. CASE Process
  <2> DEFINE z == Size[sent[Current]]
  <2>1. /\ z \in 1 .. Len(buffer) /\ sent[Current] \in Message
        /\ buffer' = SubSeq(buffer, z + 1, Len(buffer))
        /\ received' \in {received, Append(received, sent[Current])}
        /\ UNCHANGED <<sent, left, wire, receiver>>
    BY <1>5, CompleteIsCurrent DEF Process
  <2> HIDE DEF z
  <2>2. SubSeq(buffer, z + 1, Len(buffer)) \in Seq(Byte)
    BY <2>1, Pieces DEF TypeOK
  <2>3. received' \in Seq(Message)
    <3>1. PICK m \in Message : received' = received \/ received' = Append(received, m)
      BY <2>1
    <3>2. received \in Seq(Message)
      BY DEF TypeOK
    <3>3. Append(received, m) \in Seq(Message)
      BY <3>2
    <3> QED
      BY <3>1, <3>2, <3>3
  <2>4. /\ sent' \in Seq(Message)
        /\ left' \in [Senders -> Seq(Byte)]
        /\ wire' \in Seq(Byte)
        /\ receiver' \in {"recv", "frame"}
    BY <2>1 DEF TypeOK
  <2> QED
    BY <2>1, <2>2, <2>3, <2>4 DEF TypeOK
<1>6. CASE UNCHANGED vars
  BY <1>6 DEF TypeOK, vars
<1> QED
  BY <1>1, <1>2, <1>3, <1>4, <1>5, <1>6 DEF Next, Receiving

(* A thread that takes send_mutex_ puts its message behind all others.     *)
LEMMA SendBeginsEffect ==
    ASSUME TypeOK, NEW t \in Senders, SendBegins(t)
    PROVE  \E m \in Message :
              /\ Len(sent) < MaxMessages
              /\ sent' = Append(sent, m)
              /\ Ahead' = Ahead \o Bytes(Len(sent) + 1, m)
              /\ OneSender'
              /\ UNCHANGED received
<1>1. PICK m \in Message :
        /\ sent' = Append(sent, m)
        /\ left' = [left EXCEPT ![t] = Bytes(Len(sent'), m)]
  BY DEF SendBegins, Begin
<1>2. /\ Len(sent) < MaxMessages /\ UNCHANGED <<wire, buffer, received>>
      /\ \A u \in Senders : left[u] = <<>>
  BY DEF SendBegins, Begin
<1>3. Len(sent') = Len(sent) + 1 /\ Len(sent) + 1 \in 1 .. MaxMessages
  BY <1>1, <1>2, StreamAssumption DEF TypeOK, StreamAssumption
<1> DEFINE bytes == Bytes(Len(sent) + 1, m)
<1>4. bytes \in Seq(Byte) /\ Len(bytes) = Size[m] /\ Size[m] \in Nat /\ Size[m] >= 1
  BY <1>3, BytesType, Sizes DEF HeaderSize
<1>5. left' = [left EXCEPT ![t] = bytes]
  BY <1>1, <1>3
<1> HIDE DEF bytes
<1>6. bytes # <<>>
  BY <1>4, NonEmpty
<1>7. left'[t] = bytes /\ \A u \in Senders \ {t} : left'[u] = <<>>
  BY <1>2, <1>5 DEF TypeOK
<1>8. Sending' = {t}
  BY <1>6, <1>7 DEF Sending
<1>9. OneSender' /\ Unsent' = bytes
  BY <1>7, <1>8 DEF OneSender, Unsent
<1>10. Ahead = (buffer \o wire) \o <<>> /\ Ahead' = (buffer \o wire) \o bytes
  BY <1>2, <1>9, UnsentOfNobody DEF Ahead
<1>11. Ahead = buffer \o wire
  BY <1>10, ConcatEmptySeq, ConcatProperties DEF TypeOK
<1> QED
  BY <1>1, <1>2, <1>9, <1>10, <1>11 DEF bytes

(* send() and recv() only move the bytes ahead.                            *)
LEMMA SendPassesEffect ==
    ASSUME TypeOK, OneSender, NEW t \in Senders, SendPasses(t)
    PROVE  Ahead' = Ahead /\ OneSender' /\ UNCHANGED <<sent, received>>
<1>1. PICK n \in 1 .. Len(left[t]) :
        /\ wire' = wire \o SubSeq(left[t], 1, n)
        /\ left' = [left EXCEPT ![t] = SubSeq(@, n + 1, Len(@))]
  BY DEF SendPasses
<1> DEFINE front == SubSeq(left[t], 1, n)
           back  == SubSeq(left[t], n + 1, Len(left[t]))
<1>2. left[t] \in Seq(Byte) /\ left[t] # <<>>
  BY DEF TypeOK
<1>3. front \in Seq(Byte) /\ back \in Seq(Byte) /\ front \o back = left[t]
  BY <1>2, Pieces
<1>4. /\ wire' = wire \o front
      /\ left' = [left EXCEPT ![t] = back]
      /\ UNCHANGED <<sent, buffer, received>>
  BY <1>1 DEF SendPasses
<1> HIDE DEF front, back
<1>5. Unsent = left[t] /\ Sending = {t}
  BY <1>2, UnsentOfSender DEF OneSender, Sending
<1>6. left'[t] = back /\ \A u \in Senders \ {t} : left'[u] = <<>>
  BY <1>4, <1>5 DEF TypeOK, Sending
<1>7. Sending' = IF back = <<>> THEN {} ELSE {t}
  BY <1>6 DEF Sending
<1>8. Unsent' = back /\ OneSender'
  BY <1>6, <1>7 DEF Unsent, OneSender
<1>9. Ahead' = (buffer \o (wire \o front)) \o back
  BY <1>4, <1>8 DEF Ahead
<1>10. Ahead = (buffer \o wire) \o (front \o back)
  BY <1>3, <1>5 DEF Ahead
<1>11. buffer \in Seq(Byte) /\ wire \in Seq(Byte)
  BY DEF TypeOK
<1>12. buffer \o (wire \o front) = (buffer \o wire) \o front
  BY <1>3, <1>11, Associative
<1>13. buffer \o wire \in Seq(Byte)
  BY <1>11, ConcatProperties
<1>14. ((buffer \o wire) \o front) \o back = (buffer \o wire) \o (front \o back)
  BY <1>3, <1>13, Associative
<1> QED
  BY <1>4, <1>8, <1>9, <1>10, <1>12, <1>14

LEMMA ReceiveEffect ==
    ASSUME TypeOK, Receive
    PROVE  Ahead' = Ahead /\ UNCHANGED <<sent, left, received>>
<1>1. PICK n \in 1 .. Len(wire) :
        /\ buffer' = buffer \o SubSeq(wire, 1, n)
        /\ wire' = SubSeq(wire, n + 1, Len(wire))
  BY DEF Receive
<1> DEFINE front == SubSeq(wire, 1, n)
           back  == SubSeq(wire, n + 1, Len(wire))
<1>2. front \in Seq(Byte) /\ back \in Seq(Byte) /\ front \o back = wire
  BY Pieces DEF TypeOK
<1>3. buffer' = buffer \o front /\ wire' = back /\ UNCHANGED <<sent, left, received>>
  BY <1>1 DEF Receive
<1> HIDE DEF front, back
<1>4. Unsent' = Unsent
  BY <1>3 DEF Unsent, Sending
<1>5. buffer \in Seq(Byte) /\ wire \in Seq(Byte)
  BY DEF TypeOK
<1>6. (buffer \o front) \o back = buffer \o (front \o back)
  <2>1. PICK b \in Seq(Byte), f \in Seq(Byte), k \in Seq(Byte) :
           b = buffer /\ f = front /\ k = back
    BY <1>2, <1>5
  <2>2. (b \o f) \o k = b \o (f \o k)
    BY Associative
  <2> QED
    BY <2>1, <2>2
<1>7. Ahead' = ((buffer \o front) \o back) \o Unsent
  BY <1>3, <1>4 DEF Ahead
<1> QED
  BY <1>2, <1>3, <1>6, <1>7 DEF Ahead

(* The loop takes exactly the current message from the front.              *)
LEMMA ProcessEffect ==
    ASSUME TypeOK, StreamKeepsMessages, Process
    PROVE  LET m == sent[Current]
           IN  /\ Ahead # <<>>
               /\ Ahead' \in Seq(Byte)
               /\ Len(Ahead') = Len(Ahead) - Size[m]
               /\ \A j \in 1 .. Len(Ahead') : Ahead'[j] = Ahead[j + Size[m]]
               /\ received' = IF m \in Readable THEN Append(received, m) ELSE received
               /\ UNCHANGED <<sent, left>>
<1>1. MessageComplete
  BY DEF Process
<1>2. PICK z : z = Size[sent[Current]]
  OBVIOUS
<1>3. /\ z \in 1 .. Len(buffer) /\ Ahead # <<>>
      /\ buffer' = SubSeq(buffer, z + 1, Len(buffer))
      /\ received' = IF sent[Current] \in Readable THEN Append(received, sent[Current])
                                                   ELSE received
      /\ UNCHANGED <<sent, left, wire>>
  BY <1>1, <1>2, CompleteIsCurrent DEF Process
<1> DEFINE rest == wire \o Unsent
<1>4. buffer \in Seq(Byte) /\ wire \in Seq(Byte) /\ Unsent \in Seq(Byte)
  BY AheadType DEF TypeOK
<1>5. /\ buffer' \in Seq(Byte)
      /\ Len(buffer') = Len(buffer) - z
      /\ \A j \in 1 .. Len(buffer) - z : buffer'[j] = buffer[j + z]
  BY <1>3, <1>4, Pieces
<1>6. Unsent' = Unsent
  BY <1>3 DEF Unsent, Sending
<1>7. rest \in Seq(Byte) /\ Ahead = buffer \o rest /\ Ahead' = buffer' \o rest
  <2>1. Ahead = (buffer \o wire) \o Unsent /\ Ahead' = (buffer' \o wire) \o Unsent
    BY <1>3, <1>6 DEF Ahead
  <2>2. PICK b \in Seq(Byte), c \in Seq(Byte), v \in Seq(Byte), u \in Seq(Byte) :
           b = buffer /\ c = buffer' /\ v = wire /\ u = Unsent
    BY <1>4, <1>5
  <2>3. (b \o v) \o u = b \o (v \o u)
    BY Associative
  <2>5. (c \o v) \o u = c \o (v \o u)
    BY Associative
  <2>4. rest \in Seq(Byte)
    BY <1>4, ConcatProperties
  <2> QED
    BY <2>1, <2>2, <2>3, <2>4, <2>5
<1> HIDE DEF rest
<1>8. PICK B \in Nat, R \in Nat : B = Len(buffer) /\ R = Len(rest) /\ z \in 1 .. B
  BY <1>3, <1>4, <1>7
<1>9. /\ Len(Ahead) = B + R
      /\ \A j \in 1 .. B : Ahead[j] = buffer[j]
      /\ \A k \in 1 .. R : Ahead[B + k] = rest[k]
  BY <1>4, <1>7, <1>8, Joined
<1>10. /\ Ahead' \in Seq(Byte)
       /\ Len(Ahead') = B - z + R
       /\ \A j \in 1 .. B - z : Ahead'[j] = buffer'[j]
       /\ \A k \in 1 .. R : Ahead'[B - z + k] = rest[k]
  <2>1. Ahead' \in Seq(Byte)
    BY <1>5, <1>7, ConcatProperties
  <2>2. PICK b \in Seq(Byte) : b = buffer'
    BY <1>5
  <2>3. PICK L \in Nat : L = Len(b) /\ L = B - z
    BY <1>5, <1>8, <2>2
  <2>4. /\ Len(b \o rest) = Len(b) + Len(rest)
        /\ \A j \in 1 .. Len(b) : (b \o rest)[j] = b[j]
        /\ \A k \in 1 .. Len(rest) : (b \o rest)[Len(b) + k] = rest[k]
    BY <1>7, Joined
  <2>5. Ahead' = b \o rest
    BY <1>7, <2>2
  <2> QED
    BY <1>8, <2>1, <2>2, <2>3, <2>4, <2>5
<1>11. ASSUME NEW j \in 1 .. B - z + R
       PROVE  Ahead'[j] = Ahead[j + z]
  <2>1. CASE j \in 1 .. B - z
    <3>1. j + z \in 1 .. B
      BY <1>8, <2>1
    <3> QED
      BY <1>5, <1>8, <1>9, <1>10, <2>1, <3>1
  <2>2. CASE j \notin 1 .. B - z
    <3>1. /\ j - (B - z) \in 1 .. R
          /\ j = B - z + (j - (B - z))
          /\ j + z = B + (j - (B - z))
      BY <1>8, <2>2
    <3> QED
      BY <1>9, <1>10, <3>1
  <2> QED
    BY <2>1, <2>2
<1>12. Len(Ahead') = Len(Ahead) - z
  BY <1>8, <1>9, <1>10
<1> QED
  BY <1>2, <1>3, <1>10, <1>11, <1>12

-----------------------------------------------------------------------------
LEMMA AheadKept ==
    ASSUME StreamKeepsMessages, OneSender', Ahead' = Ahead, UNCHANGED sent
    PROVE  StreamKeepsMessages' /\ Current' = Current
<1> DEFINE ahead == Ahead
<1>1. Current' = Current
  BY DEF Current
<1>2. Ahead' = ahead /\ sent' = sent
  OBVIOUS
<1>3. /\ NothingIsLost(ahead, Current)
      /\ MessagesAreWhole(ahead)
      /\ BytesAreInOrder(ahead)
  BY DEF StreamKeepsMessages
<1> HIDE DEF ahead
<1>4. NothingIsLost(Ahead, Current)'
  BY <1>1, <1>2, <1>3 DEF NothingIsLost
<1>5. MessagesAreWhole(Ahead)'
  <2>1. ASSUME NEW j, NEW i, NEW n
        PROVE  MessageAround(Ahead, j, i, n)' <=> MessageAround(ahead, j, i, n)
    BY <1>2 DEF MessageAround
  <2> QED
    BY <1>2, <1>3, <2>1 DEF MessagesAreWhole
<1>6. BytesAreInOrder(Ahead)'
  BY <1>2, <1>3 DEF BytesAreInOrder, Before
<1> QED
  BY <1>1, <1>4, <1>5, <1>6 DEF StreamKeepsMessages

(* How each step of the threads moves the stream and the messages that are *)
(* still to be delivered.                                                  *)
LEMMA StreamSteps ==
    ASSUME TypeOK, StreamKeepsMessages, [Next]_vars
    PROVE  /\ StreamKeepsMessages'
           /\ \/ \E m \in Message :
                    sent' = Append(sent, m) /\ Current' = Current /\ UNCHANGED received
              \/ /\ Current \in 1 .. Len(sent) /\ Current' = Current + 1
                 /\ received' = IF sent[Current] \in Readable
                                THEN Append(received, sent[Current]) ELSE received
                 /\ UNCHANGED sent
              \/ Current' = Current /\ UNCHANGED <<sent, received>>
<1>0. OneSender
  BY DEF StreamKeepsMessages
<1>1. ASSUME NEW t \in Senders, SendBegins(t)
      PROVE  StreamKeepsMessages' /\ \E m \in Message :
                sent' = Append(sent, m) /\ Current' = Current /\ UNCHANGED received
  BY <1>1, SendBeginsEffect, Appending
<1>2. ASSUME NEW t \in Senders, SendPasses(t)
      PROVE  StreamKeepsMessages' /\ Current' = Current /\ UNCHANGED <<sent, received>>
  BY <1>0, <1>2, SendPassesEffect, AheadKept
<1>3. ASSUME Receive
      PROVE  StreamKeepsMessages' /\ Current' = Current /\ UNCHANGED <<sent, received>>
  <2>1. OneSender'
    BY <1>0, <1>3, ReceiveEffect DEF OneSender, Sending
  <2> QED
    BY <1>3, <2>1, ReceiveEffect, AheadKept
<1>4. ASSUME Process
      PROVE  /\ StreamKeepsMessages'
             /\ Current \in 1 .. Len(sent) /\ Current' = Current + 1
             /\ received' = IF sent[Current] \in Readable
                            THEN Append(received, sent[Current]) ELSE received
             /\ UNCHANGED sent
  BY <1>4, ProcessEffect, Consuming, CurrentIsWhole
<1>5. ASSUME WaitForData \/ UNCHANGED vars
      PROVE  StreamKeepsMessages' /\ Current' = Current /\ UNCHANGED <<sent, received>>
  <2>1. UNCHANGED <<sent, left, wire, buffer, received>>
    BY <1>5 DEF WaitForData, vars
  <2>2. Ahead' = Ahead /\ OneSender'
    BY <1>0, <2>1 DEF Ahead, Unsent, Sending, OneSender
  <2> QED
    BY <2>1, <2>2, AheadKept
<1> QED
  BY <1>1, <1>2, <1>3, <1>4, <1>5 DEF Next, Receiving

LEMMA InitStream == Init => StreamInv /\ Current = 1
<1> SUFFICES ASSUME Init PROVE StreamInv /\ Current = 1
  OBVIOUS
<1>1. Ahead = <<>> /\ Sending = {} /\ sent = <<>>
  BY DEF Init, Ahead, Unsent, Sending
<1>2. Current = 1
  BY <1>1 DEF Current
<1> QED
  BY <1>1, <1>2, InitTypes DEF StreamInv, StreamKeepsMessages, OneSender, NothingIsLost,
     MessagesAreWhole, BytesAreInOrder

(* In every reachable state what is ahead of the receiver are the bytes of *)
(* the messages it is not done with: all of them, whole, in order.         *)
THEOREM StreamInvariant == Spec => []StreamInv
<1>1. Init => StreamInv
  BY InitStream
<1>2. StreamInv /\ [Next]_vars => StreamInv'
  BY NextTypes, StreamSteps DEF StreamInv
<1> QED
  BY <1>1, <1>2, PTL DEF Spec

-----------------------------------------------------------------------------
LEMMA PendingMessages ==
    ASSUME TypeOK, StreamKeepsMessages
    PROVE  /\ Pending \in Seq(Message)
           /\ Pending # <<>> <=> Current \in 1 .. Len(sent)
           /\ Current \in 1 .. Len(sent) =>
                 /\ Head(Pending) = sent[Current]
                 /\ Tail(Pending) = SubSeq(sent, Current + 1, Len(sent))
<1>1. sent \in Seq(Message) /\ Current \in 1 .. Len(sent) + 1
  BY CurrentType DEF TypeOK
<1>2. PICK c : c = Current
  OBVIOUS
<1>3. c \in 1 .. Len(sent) + 1 /\ Pending = SubSeq(sent, c, Len(sent))
  BY <1>1, <1>2 DEF Pending
<1>4. CASE c \in 1 .. Len(sent)
  <2>1. Len(SubSeq(sent, c, Len(sent))) = Len(sent) - c + 1
    BY <1>1, <1>4
  <2>2. SubSeq(sent, c, Len(sent)) \in Seq(Message)
    BY <1>1, <1>4
  <2>2a. SubSeq(sent, c, Len(sent)) # <<>>
    <3>1. PICK q \in Seq(Message) : q = SubSeq(sent, c, Len(sent))
      BY <2>2
    <3>2. Len(q) = Len(sent) - c + 1
      BY <2>1, <3>1
    <3>3. Len(q) >= 1
      BY <1>1, <1>4, <3>2
    <3> QED
      BY <3>1, <3>3, NonEmpty
  <2>3. /\ Head(SubSeq(sent, c, Len(sent))) = sent[c]
        /\ Tail(SubSeq(sent, c, Len(sent))) = SubSeq(sent, c + 1, Len(sent))
    BY <1>1, <1>4, HeadTailOfSubSeq
  <2> QED
    BY <1>2, <1>3, <1>4, <2>2, <2>2a, <2>3
<1>5. CASE c \notin 1 .. Len(sent)
  <2>1. SubSeq(sent, c, Len(sent)) = <<>>
    BY <1>1, <1>3, <1>5, SubSeqEmpty
  <2> QED
    BY <1>2, <1>3, <1>5, <2>1
<1> QED
  BY <1>4, <1>5

(* Every step of stream and framing is a step of the channel of messages,  *)
(* or nothing to it: messages arrive whole, once and in order, and one     *)
(* that cannot be parsed does no harm to the next.                         *)
THEOREM StreamImplementsChannel == Spec => Channel!Spec
<1>1. Init => Channel!Init
  <2> SUFFICES ASSUME Init PROVE Pending = <<>> /\ received = <<>>
    BY DEF Channel!Init
  <2>1. Current = 1 /\ sent = <<>>
    BY InitStream DEF Init
  <2> QED
    BY <2>1 DEF Pending, Init
<1>2. StreamInv /\ [Next]_vars => [Channel!Next]_<<Pending, received>>
  <2> SUFFICES ASSUME TypeOK, StreamKeepsMessages, [Next]_vars
               PROVE  [Channel!Next]_<<Pending, received>>
    BY DEF StreamInv
  <2>1. ASSUME NEW m \in Message,
               sent' = Append(sent, m), Current' = Current, UNCHANGED received
        PROVE  Channel!Send(m)
    <3>1. PICK c : c = Current
      OBVIOUS
    <3>2. c \in 1 .. Len(sent) + 1 /\ sent \in Seq(Message)
      BY <3>1, CurrentType DEF TypeOK
    <3>3. Pending = SubSeq(sent, c, Len(sent)) /\ Pending' = SubSeq(sent', c, Len(sent'))
      BY <2>1, <3>1 DEF Pending
    <3>4. SubSeq(Append(sent, m), c, Len(sent) + 1) = Append(SubSeq(sent, c, Len(sent)), m)
      BY <3>2
    <3> QED
      BY <2>1, <3>2, <3>3, <3>4 DEF Channel!Send
  <2>2. ASSUME Current \in 1 .. Len(sent), Current' = Current + 1, UNCHANGED sent,
               received' = IF sent[Current] \in Readable
                           THEN Append(received, sent[Current]) ELSE received
        PROVE  Channel!Deliver
    <3>1. Pending' = SubSeq(sent, Current + 1, Len(sent))
      BY <2>2 DEF Pending
    <3> QED
      BY <2>2, <3>1, PendingMessages DEF Channel!Deliver
  <2>3. ASSUME Current' = Current, UNCHANGED <<sent, received>>
        PROVE  UNCHANGED <<Pending, received>>
    BY <2>3 DEF Pending
  <2> QED
    BY <2>1, <2>2, <2>3, StreamSteps DEF Channel!Next
<1> QED
  BY <1>1, <1>2, StreamInvariant, PTL DEF Spec, Channel!Spec

-----------------------------------------------------------------------------
(* What the receiver is given was read as it was written, whichever        *)
(* messages are sent and however long their texts are.                     *)
THEOREM ReceivedIsAsWritten == Spec => []WhatIsWrittenIsRead
<1> DEFINE Inv == StreamInv /\ received \in Seq(Readable)
<1>1. Init => Inv
  BY InitStream DEF Init
<1>2. Inv /\ [Next]_vars => Inv'
  <2> SUFFICES ASSUME Inv, [Next]_vars PROVE Inv'
    OBVIOUS
  <2>1. StreamInv'
    BY NextTypes, StreamSteps DEF StreamInv
  <2>2. UNCHANGED received
        \/ received' = IF sent[Current] \in Readable
                       THEN Append(received, sent[Current]) ELSE received
    BY StreamSteps DEF StreamInv
  <2>3. received' \in Seq(Readable)
    <3>1. CASE UNCHANGED received
      BY <3>1
    <3>2. CASE sent[Current] \in Readable /\ received' = Append(received, sent[Current])
      <4>1. PICK m \in Readable : received' = Append(received, m)
        BY <3>2
      <4> QED
        BY <4>1
    <3> QED
      BY <2>2, <3>1, <3>2
  <2> QED
    BY <2>1, <2>3
<1>3. Inv => WhatIsWrittenIsRead
  <2> SUFFICES ASSUME Inv PROVE WhatIsWrittenIsRead
    OBVIOUS
  <2>1. AllLayoutsAreReadBack
    BY MoreMessages, FieldsComeBack DEF AllLayoutsAreReadBack
  <2>2. ASSUME NEW m \in ToSet(received)
        PROVE  IsReadBack(m) /\ Parses(m)
    <3>1. m \in Readable
      BY DEF ToSet
    <3> QED
      BY <3>1, MessagesOfStream, FieldsComeBack DEF Readable
  <2> QED
    BY <2>1, <2>2 DEF WhatIsWrittenIsRead
<1> QED
  BY <1>1, <1>2, <1>3, PTL DEF Spec
=============================================================================
