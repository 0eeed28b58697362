-------------------------- MODULE RecordLogProofs --------------------------
(***************************************************************************)
(* Theorems about RecordLog, for any payload size, any number of records   *)
(* and any number of crashes: a cut at any cell passes for a torn tail and *)
(* never for corruption, and no damaged cell yields a wrong payload.       *)
(***************************************************************************)
EXTENDS RecordLog, SequenceTheorems, TLAPS

Cells    == [field : {"magic", "length", "checksum", "payload", "bad"}, rec : Nat, val : Nat]
Payloads == {PayloadOf(r, n) : r \in Nat, n \in 1..MaxPayloadSize}

(* The record of payload p.                                                *)
Enc(p) == Encode(p[1].rec, Len(p))

(* Where the records of the payloads in l begin; the last element is where *)
(* they end.  Every cell before that belongs to one of them.               *)
Layout(off, l) ==
    /\ off \in [1..(Len(l) + 1) -> Nat] /\ off[1] = 0
    /\ \A i \in 1..Len(l) : off[i + 1] = off[i] + HeaderSize + Len(l[i])
    /\ \A i, j \in 1..(Len(l) + 1) : i < j => off[i] < off[j]
    /\ \A x \in 1..off[Len(l) + 1] : \E i \in 1..Len(l) : off[i] < x /\ x <= off[i + 1]

(* s holds the beginning of these records, except for cell d.              *)
Stream(s, l, off, d) ==
    \A i \in 1..Len(l) : \A c \in 1..(HeaderSize + Len(l[i])) :
      off[i] + c <= Len(s) /\ off[i] + c # d => s[off[i] + c] = Enc(l[i])[c]

-----------------------------------------------------------------------------
(* The inductive invariant. *)

Types ==
    /\ TypeOK
    /\ file \in Seq(Cells) /\ buf \in Seq(Cells)
    /\ log \in Seq(Payloads) /\ acked \in Seq(Payloads) /\ replayed \in Seq(Payloads)
    /\ pos \in Nat

(* File and buffer hold the records of the log, the last ones perhaps cut. *)
FileInv(off, d) ==
    /\ Stream(file \o buf, log, off, d)
    /\ Len(file) + Len(buf) <= off[Len(log) + 1]
    /\ mode = "open" => Len(file) + Len(buf) = off[Len(log) + 1]
    /\ mode # "open" => buf = <<>>

(* What the storage has made of cell c of the record of payload p.         *)
BadCell(x, p, c) ==
    \/ damage # "length" /\ c # 2 /\ x.field = "bad"
    \/ damage = "length" /\ c = 2 /\ x.val # Len(p)

(* Replay has not passed the damaged cell d, if there is one in the file.  *)
DamageInv(off, d) ==
    /\ damage = "none" => d = 0 /\ mode # "refused"
    /\ d # 0 =>
         /\ d \in 1..Len(file) /\ mode \in {"down", "replay", "refused"}
         /\ \E i \in 1..Len(log) : \E c \in 1..(HeaderSize + Len(log[i])) :
              /\ d = off[i] + c /\ BadCell(file[d], log[i], c)
              /\ mode = "replay" => pos <= off[i]

(* Replay stands behind a record of the log and has yielded those before.  *)
ReplayInv(off) ==
    mode = "replay" =>
      /\ Len(replayed) <= Len(log) /\ \A k \in 1..Len(replayed) : replayed[k] = log[k]
      /\ pos = off[Len(replayed) + 1] /\ pos <= Len(file)

(* The acknowledged records are the first of the log and durable.          *)
AckedInv(off) ==
    damage # "length" =>
      /\ Len(acked) <= Len(log) /\ \A k \in 1..Len(acked) : acked[k] = log[k]
      /\ off[Len(acked) + 1] <= synced

Framed(off, d) ==
    /\ Layout(off, log) /\ d \in Nat
    /\ FileInv(off, d) /\ DamageInv(off, d) /\ ReplayInv(off) /\ AckedInv(off)

LogInv == Types /\ \E off, d : Framed(off, d)

-----------------------------------------------------------------------------
(* Payloads and their records. *)

USE SizeAssumption DEF HeaderSize

(* The conversion to uint32 keeps the lengths of the payloads tried.       *)
LEMMA LengthKept ==
    ASSUME NEW n \in Nat, n <= MaxPayloadSize + 1
    PROVE  Uint32(n) = n
BY DEF Uint32

LEMMA PayloadOfFacts ==
    ASSUME NEW r \in Nat, NEW n \in 1..MaxPayloadSize
    PROVE  /\ PayloadOf(r, n) \in Payloads /\ PayloadOf(r, n) \in Seq(Cells)
           /\ Len(PayloadOf(r, n)) = n /\ PayloadOf(r, n)[1].rec = r
           /\ \A c \in 1..n : PayloadOf(r, n)[c] = Cell("payload", r, c)
<1>1. PICK p : p = PayloadOf(r, n)
  OBVIOUS
<1>2. n \in Nat /\ 1 \in 1..n
  OBVIOUS
<1>3. p = [i \in 1..n |-> Cell("payload", r, i)]
  BY <1>1 DEF PayloadOf
<1>4. \A i \in 1..n : p[i] = Cell("payload", r, i) /\ Cell("payload", r, i) \in Cells
  BY <1>2, <1>3 DEF Cell, Cells
<1>5. p \in Seq(Cells) /\ Len(p) = n
  <2>1. p \in [1..n -> Cells] /\ DOMAIN p = 1..n
    BY <1>3, <1>4
  <2>2. p \in Seq(Cells)
    BY <1>2, <2>1, SeqDef
  <2>3. Len(p) \in Nat /\ 1..Len(p) = 1..n
    BY <2>1, <2>2, LenProperties
  <2> QED
    BY <1>2, <2>2, <2>3
<1>6. p[1].rec = r
  <2>1. p[1] = Cell("payload", r, 1)
    BY <1>2, <1>4
  <2> QED
    BY <2>1 DEF Cell
<1> QED
  BY <1>1, <1>4, <1>5, <1>6 DEF Payloads

LEMMA PayloadFacts ==
    ASSUME NEW p \in Payloads
    PROVE  /\ p \in Seq(Cells) /\ Len(p) \in 1..MaxPayloadSize /\ Len(p) \in Nat
           /\ p[1].rec \in Nat /\ p = PayloadOf(p[1].rec, Len(p))
           /\ \A c \in 1..Len(p) : p[c] = Cell("payload", p[1].rec, c)
<1>1. PICK r \in Nat, n \in 1..MaxPayloadSize : p = PayloadOf(r, n)
  BY DEF Payloads
<1> QED
  BY <1>1, PayloadOfFacts

LEMMA EncFacts ==
    ASSUME NEW p \in Payloads
    PROVE  /\ Enc(p) \in Seq(Cells) /\ Len(Enc(p)) = HeaderSize + Len(p)
           /\ Enc(p)[1] = Cell("magic", p[1].rec, 0)
           /\ Enc(p)[2] = Cell("length", p[1].rec, Len(p))
           /\ Enc(p)[3] = Cell("checksum", p[1].rec, Len(p))
           /\ \A c \in 1..Len(p) : Enc(p)[HeaderSize + c] = p[c]
<1>1. PICK r \in Nat, n \in Nat : r = p[1].rec /\ n = Len(p)
  BY PayloadFacts
<1>2. p = PayloadOf(r, n) /\ p \in Seq(Cells)
  BY <1>1, PayloadFacts
<1>3. PICK h : h = <<Cell("magic", r, 0), Cell("length", r, n), Cell("checksum", r, n)>>
  OBVIOUS
<1>4. /\ h \in Seq(Cells) /\ Len(h) = 3 /\ h[1] = Cell("magic", r, 0)
      /\ h[2] = Cell("length", r, n) /\ h[3] = Cell("checksum", r, n)
  BY <1>3 DEF Cells, Cell
<1>5. Enc(p) = h \o p
  <2>1. Uint32(n) = n
    BY <1>1, PayloadFacts, LengthKept
  <2> QED
    BY <1>1, <1>2, <1>3, <2>1 DEF Enc, Encode
<1>6. /\ h \o p \in Seq(Cells) /\ Len(h \o p) = 3 + n
      /\ \A i \in 1..(3 + n) : (h \o p)[i] = IF i <= 3 THEN h[i] ELSE p[i - 3]
  <2>1. /\ h \o p \in Seq(Cells) /\ Len(h \o p) = Len(h) + Len(p)
        /\ \A i \in 1..(Len(h) + Len(p)) :
             (h \o p)[i] = IF i <= Len(h) THEN h[i] ELSE p[i - Len(h)]
    BY <1>2, <1>4, ConcatProperties
  <2> QED
    BY <1>1, <1>4, <2>1
<1>7. ASSUME NEW c \in 1..n PROVE (h \o p)[3 + c] = p[c]
  <2>1. 3 + c \in 1..(3 + n) /\ ~(3 + c <= 3) /\ (3 + c) - 3 = c
    BY <1>1
  <2> QED
    BY <1>6, <2>1
<1>8. (h \o p)[1] = h[1] /\ (h \o p)[2] = h[2] /\ (h \o p)[3] = h[3]
  BY <1>1, <1>6
<1> QED
  BY <1>1, <1>4, <1>5, <1>6, <1>7, <1>8

-----------------------------------------------------------------------------
(* Layouts. *)

LEMMA LayoutFacts ==
    ASSUME NEW l \in Seq(Payloads), NEW off, Layout(off, l)
    PROVE  /\ Len(l) \in Nat
           /\ \A i \in 1..Len(l) : l[i] \in Payloads /\ Len(l[i]) \in 1..MaxPayloadSize
           /\ \A i \in 1..(Len(l) + 1) : off[i] \in Nat
           /\ \A i, j \in 1..(Len(l) + 1) : i <= j => off[i] <= off[j]
<1>1. Len(l) \in Nat /\ \A i \in 1..Len(l) : l[i] \in Payloads
  OBVIOUS
<1>2. \A i \in 1..Len(l) : Len(l[i]) \in 1..MaxPayloadSize
  BY <1>1, PayloadFacts
<1>3. \A i \in 1..(Len(l) + 1) : off[i] \in Nat
  BY DEF Layout
<1>4. ASSUME NEW i \in 1..(Len(l) + 1), NEW j \in 1..(Len(l) + 1), i <= j
      PROVE  off[i] <= off[j]
  <2>1. i = j \/ i < j
    BY <1>1, <1>4
  <2>2. i < j => off[i] < off[j]
    BY DEF Layout
  <2> QED
    BY <1>3, <2>1, <2>2
<1> QED
  BY <1>1, <1>2, <1>3, <1>4

(* One more record behind the last.                                        *)
LEMMA LayoutAppend ==
    ASSUME NEW l \in Seq(Payloads), NEW p \in Payloads, NEW off, Layout(off, l)
    PROVE  \E o : /\ Layout(o, Append(l, p))
                  /\ \A i \in 1..(Len(l) + 1) : o[i] = off[i]
                  /\ o[Len(l) + 2] = off[Len(l) + 1] + HeaderSize + Len(p)
<1>1. PICK n \in Nat : n = Len(l)
  OBVIOUS
<1>2. PICK e \in Nat : e = off[n + 1] + 3 + Len(p)
  BY <1>1, LayoutFacts, PayloadFacts
<1>3. PICK m : m = Append(l, p)
  OBVIOUS
<1>4. Len(m) = n + 1 /\ m[n + 1] = p /\ \A i \in 1..n : m[i] = l[i]
  BY <1>1, <1>3
<1>5. PICK o : o = [i \in 1..(n + 2) |-> IF i <= n + 1 THEN off[i] ELSE e]
  OBVIOUS
<1>6. \A i \in 1..(n + 1) : o[i] = off[i] /\ off[i] \in Nat
  BY <1>1, <1>5, LayoutFacts
<1>7. o[n + 2] = e
  BY <1>1, <1>5
<1>8. o \in [1..(n + 2) -> Nat]
  <2>1. \A i \in 1..(n + 2) : i <= n + 1 => off[i] \in Nat
    BY <1>6
  <2> QED
    BY <1>2, <1>5, <2>1
<1>9. off[n + 1] < e
  <2>1. off[n + 1] \in Nat /\ Len(p) \in Nat
    BY <1>1, <1>6, PayloadFacts
  <2> QED
    BY <1>2, <2>1
<1>10. \A i \in 1..(n + 1) : o[i + 1] = o[i] + 3 + Len(m[i])
  <2> SUFFICES ASSUME NEW i \in 1..(n + 1) PROVE o[i + 1] = o[i] + 3 + Len(m[i])
      OBVIOUS
  <2>1. CASE i = n + 1
    BY <1>1, <1>2, <1>4, <1>6, <1>7, <2>1
  <2>2. CASE i # n + 1
    <3>1. i \in 1..n /\ i + 1 \in 1..(n + 1)
      BY <1>1, <2>2
    <3>2. off[i + 1] = off[i] + 3 + Len(l[i])
      BY <1>1, <3>1 DEF Layout
    <3> QED
      BY <1>4, <1>6, <3>1, <3>2
  <2> QED
    BY <2>1, <2>2
<1>11. ASSUME NEW i \in 1..(n + 2), NEW j \in 1..(n + 2), i < j PROVE o[i] < o[j]
  <2>1. i \in 1..(n + 1)
    BY <1>1, <1>11
  <2>2. CASE j = n + 2
    <3>1. off[i] <= off[n + 1]
      BY <1>1, <2>1, LayoutFacts
    <3> QED
      BY <1>2, <1>6, <1>7, <1>9, <2>1, <2>2, <3>1
  <2>3. CASE j # n + 2
    <3>1. j \in 1..(n + 1)
      BY <1>1, <2>3
    <3> QED
      BY <1>1, <1>6, <1>11, <2>1, <3>1 DEF Layout
  <2> QED
    BY <2>2, <2>3
<1>12. ASSUME NEW x \in 1..e PROVE \E i \in 1..(n + 1) : o[i] < x /\ x <= o[i + 1]
  <2>1. CASE x <= off[n + 1]
    <3>1. x \in 1..off[n + 1]
      BY <1>6, <2>1
    <3>2. PICK i \in 1..n : off[i] < x /\ x <= off[i + 1]
      BY <1>1, <3>1 DEF Layout
    <3>3. i \in 1..(n + 1) /\ i + 1 \in 1..(n + 1)
      BY <1>1
    <3> QED
      BY <1>6, <3>2, <3>3
  <2>2. CASE ~(x <= off[n + 1])
    <3>1. n + 1 \in 1..(n + 1) /\ (n + 1) + 1 = n + 2
      OBVIOUS
    <3>2. o[n + 1] < x
      BY <1>6, <2>2, <3>1
    <3> QED
      BY <1>7, <3>1, <3>2
  <2> QED
    BY <2>1, <2>2
<1>13. Layout(o, m)
  <2>1. Len(m) + 1 = n + 2
    BY <1>4
  <2>2. o[1] = 0
    BY <1>1, <1>6 DEF Layout
  <2>3. o[Len(m) + 1] = e
    BY <1>7, <2>1
  <2> QED
    BY <1>4, <1>8, <1>10, <1>11, <1>12, <2>1, <2>2, <2>3 DEF Layout
<1> QED
  BY <1>1, <1>2, <1>3, <1>6, <1>7, <1>13

(* Fewer records.                                                          *)
LEMMA LayoutPrefix ==
    ASSUME NEW l \in Seq(Payloads), NEW r \in Seq(Payloads), NEW off, Layout(off, l),
           Len(r) <= Len(l), \A k \in 1..Len(r) : r[k] = l[k]
    PROVE  \E o : Layout(o, r) /\ \A i \in 1..(Len(r) + 1) : o[i] = off[i]
<1>1. PICK n \in Nat : n = Len(r)
  OBVIOUS
<1>2. 1..(n + 1) \subseteq 1..(Len(l) + 1) /\ 1..n \subseteq 1..Len(l) /\ Len(l) \in Nat
  BY <1>1
<1>3. PICK o : o = [i \in 1..(n + 1) |-> off[i]]
  OBVIOUS
<1>4. \A i \in 1..(n + 1) : o[i] = off[i] /\ off[i] \in Nat
  BY <1>2, <1>3, LayoutFacts
<1>5. o \in [1..(n + 1) -> Nat] /\ o[1] = 0
  BY <1>3, <1>4 DEF Layout
<1>6. ASSUME NEW i \in 1..n PROVE o[i + 1] = o[i] + 3 + Len(r[i])
  <2>1. i \in 1..(n + 1) /\ i + 1 \in 1..(n + 1) /\ i \in 1..Len(l) /\ r[i] = l[i]
    BY <1>1, <1>2
  <2>2. off[i + 1] = off[i] + 3 + Len(l[i])
    BY <2>1 DEF Layout
  <2> QED
    BY <1>4, <2>1, <2>2
<1>7. \A i, j \in 1..(n + 1) : i < j => o[i] < o[j]
  BY <1>2, <1>4 DEF Layout
<1>8. ASSUME NEW x \in 1..o[n + 1] PROVE \E i \in 1..n : o[i] < x /\ x <= o[i + 1]
  <2>1. n + 1 \in 1..(n + 1) /\ n + 1 \in 1..(Len(l) + 1) /\ Len(l) + 1 \in 1..(Len(l) + 1)
    BY <1>1, <1>2
  <2>2. off[n + 1] <= off[Len(l) + 1] /\ off[Len(l) + 1] \in Nat
    BY <1>1, <1>2, <2>1, LayoutFacts
  <2>3. x \in 1..off[Len(l) + 1]
    BY <1>4, <2>1, <2>2
  <2>4. PICK i \in 1..Len(l) : off[i] < x /\ x <= off[i + 1]
    BY <2>3 DEF Layout
  <2>5. i <= n
    <3> SUFFICES ASSUME ~(i <= n) PROVE FALSE
        OBVIOUS
    <3>1. n + 1 <= i /\ i \in 1..(Len(l) + 1)
      BY <1>2
    <3>2. off[n + 1] <= off[i] /\ off[i] \in Nat /\ off[n + 1] \in Nat
      BY <2>1, <3>1, LayoutFacts
    <3>3. x <= off[n + 1] /\ x \in Nat
      BY <1>4, <2>1
    <3> QED
      BY <2>4, <3>2, <3>3
  <2>6. i \in 1..n /\ i \in 1..(n + 1) /\ i + 1 \in 1..(n + 1)
    BY <1>2, <2>5
  <2> QED
    BY <1>4, <2>4, <2>6
<1>9. Layout(o, r)
  BY <1>1, <1>5, <1>6, <1>7, <1>8 DEF Layout
<1> QED
  BY <1>1, <1>4, <1>9

(* A prefix of a stream is one.                                            *)
LEMMA StreamPrefix ==
    ASSUME NEW l \in Seq(Payloads), NEW off, Layout(off, l), NEW d, NEW s, NEW t,
           Stream(s, l, off, d), Len(s) \in Nat, Len(t) \in Nat, Len(t) <= Len(s),
           \A x \in 1..Len(t) : t[x] = s[x]
    PROVE  Stream(t, l, off, d)
<1> SUFFICES ASSUME NEW i \in 1..Len(l), NEW c \in 1..(3 + Len(l[i])),
                    off[i] + c <= Len(t), off[i] + c # d
             PROVE  t[off[i] + c] = Enc(l[i])[c]
    BY DEF Stream
<1>1. off[i] \in Nat /\ c \in Nat /\ c >= 1
  BY LayoutFacts
<1>2. off[i] + c \in 1..Len(t) /\ off[i] + c <= Len(s)
  BY <1>1
<1> QED
  BY <1>2 DEF Stream

-----------------------------------------------------------------------------
(* Reading. *)

LEMMA HeaderCells ==
    ASSUME file \in Seq(Cells), NEW p \in Nat, p + 3 <= Len(file)
    PROVE  /\ Header(p)[1] = file[p + 1] /\ Header(p)[2] = file[p + 2]
           /\ Header(p)[3] = file[p + 3]
           /\ Length(p) = file[p + 2].val /\ Length(p) \in Nat
<1>1. Len(file) \in Nat /\ \A i \in (p + 1)..(p + 3) : file[i] \in Cells
  OBVIOUS
<1>2. \A i \in 1..((p + 3) - (p + 1) + 1) : Header(p)[i] = file[(p + 1) + i - 1]
  BY <1>1, SubSeqProperties DEF Header
<1>3. /\ 1 \in 1..((p + 3) - (p + 1) + 1) /\ 2 \in 1..((p + 3) - (p + 1) + 1)
      /\ 3 \in 1..((p + 3) - (p + 1) + 1)
      /\ (p + 1) + 1 - 1 = p + 1 /\ (p + 1) + 2 - 1 = p + 2 /\ (p + 1) + 3 - 1 = p + 3
  OBVIOUS
<1>4. /\ Header(p)[1] = file[p + 1] /\ Header(p)[2] = file[p + 2]
      /\ Header(p)[3] = file[p + 3]
  BY <1>2, <1>3
<1>5. file[p + 2] \in Cells
  BY <1>1
<1>6. file[p + 2].val \in Nat
  BY <1>5 DEF Cells
<1> QED
  BY <1>4, <1>6 DEF Length

LEMMA PayloadCells ==
    ASSUME file \in Seq(Cells), NEW p \in Nat, Length(p) \in Nat,
           p + 3 + Length(p) <= Len(file)
    PROVE  /\ Payload(p) \in Seq(Cells) /\ Len(Payload(p)) = Length(p)
           /\ \A c \in 1..Length(p) : Payload(p)[c] = file[p + 3 + c]
<1>1. PICK n \in Nat : n = Length(p)
  OBVIOUS
<1>2. Payload(p) = SubSeq(file, p + 4, p + 3 + n)
  <2>1. p + 3 + 1 = p + 4
    OBVIOUS
  <2> QED
    BY <1>1, <2>1 DEF Payload
<1>3. Len(file) \in Nat /\ \A i \in (p + 4)..(p + 3 + n) : file[i] \in Cells
  BY <1>1
<1>4. /\ SubSeq(file, p + 4, p + 3 + n) \in Seq(Cells)
      /\ Len(SubSeq(file, p + 4, p + 3 + n))
           = IF p + 4 <= p + 3 + n THEN (p + 3 + n) - (p + 4) + 1 ELSE 0
      /\ \A i \in 1..((p + 3 + n) - (p + 4) + 1) :
           SubSeq(file, p + 4, p + 3 + n)[i] = file[(p + 4) + i - 1]
  BY <1>3, SubSeqProperties
<1>5. (p + 3 + n) - (p + 4) + 1 = n /\ \A i \in 1..n : (p + 4) + i - 1 = p + 3 + i
  OBVIOUS
<1>6. (IF p + 4 <= p + 3 + n THEN n ELSE 0) = n
  OBVIOUS
<1> QED
  BY <1>1, <1>2, <1>4, <1>5, <1>6

(* At an undamaged record replay finds its payload, or the end of the      *)
(* file before or within it.                                               *)
LEMMA ReadsRecord ==
    ASSUME file \in Seq(Cells), log \in Seq(Payloads), NEW off, NEW d, Layout(off, log),
           Stream(file, log, off, d), NEW k \in 1..Len(log), off[k] <= Len(file),
           \A c \in 1..(3 + Len(log[k])) : off[k] + c # d
    PROVE  /\ NextAt(off[k]) = IF off[k] = Len(file) THEN "EOF"
                               ELSE IF off[k + 1] <= Len(file) THEN "record"
                               ELSE "ErrTruncated"
           /\ off[k + 1] <= Len(file) =>
                Payload(off[k]) = log[k] /\ Length(off[k]) = Len(log[k])
<1>1. PICK p \in Nat : p = off[k]
  BY LayoutFacts
<1>2. PICK n \in Nat : n = Len(log[k]) /\ n <= MaxPayloadSize /\ n >= 1
  BY LayoutFacts
<1>3. off[k + 1] = p + 3 + n
  BY <1>1, <1>2 DEF Layout
<1>4. log[k] \in Payloads /\ Len(file) \in Nat
  OBVIOUS
<1>5. \A c \in 1..(3 + n) : p + c <= Len(file) => file[p + c] = Enc(log[k])[c]
  BY <1>1, <1>2 DEF Stream
<1>6. Left(p) = Len(file) - p
  BY DEF Left
<1>7. CASE p = Len(file)
  <2>1. Left(p) = 0 /\ ~(p + 3 + n <= Len(file))
    BY <1>4, <1>6, <1>7
  <2> QED
    BY <1>1, <1>3, <1>7, <2>1 DEF NextAt
<1>8. CASE p # Len(file) /\ Len(file) < p + 3
  <2>1. Left(p) # 0 /\ Left(p) < 3 /\ ~(p + 3 + n <= Len(file))
    BY <1>1, <1>4, <1>6, <1>8
  <2> QED
    BY <1>1, <1>3, <1>8, <2>1 DEF NextAt
<1>9. CASE p + 3 <= Len(file)
  <2>1. Left(p) # 0 /\ ~(Left(p) < 3) /\ p # Len(file)
    BY <1>4, <1>6, <1>9
  <2>2. PICK r \in Nat : r = log[k][1].rec
    BY <1>4, PayloadFacts
  <2>3. /\ file[p + 1] = Cell("magic", r, 0) /\ file[p + 2] = Cell("length", r, n)
        /\ file[p + 3] = Cell("checksum", r, n)
    <3>1. /\ file[p + 1] = Enc(log[k])[1] /\ file[p + 2] = Enc(log[k])[2]
          /\ file[p + 3] = Enc(log[k])[3]
      BY <1>4, <1>5, <1>9
    <3> QED
      BY <1>2, <1>4, <2>2, <3>1, EncFacts
  <2>4. /\ Header(p)[1].field = "magic" /\ Header(p)[2].val = n
        /\ Header(p)[3].field = "checksum" /\ Header(p)[3].rec = r /\ Header(p)[3].val = n
        /\ Length(p) = n
    BY <1>9, <2>3, HeaderCells DEF Cell
  <2>5. DecodeHeader(Header(p)) = "nil"
    BY <1>2, <2>4 DEF DecodeHeader
  <2>6. CASE ~(p + 3 + n <= Len(file))
    <3>1. Left(p) < 3 + n
      BY <1>4, <1>6, <2>6
    <3> QED
      BY <1>1, <1>3, <2>1, <2>4, <2>5, <2>6, <3>1 DEF NextAt
  <2>7. CASE p + 3 + n <= Len(file)
    <3>1. ~(Left(p) < 3 + n)
      BY <1>4, <1>6, <2>7
    <3>2. /\ Payload(p) \in Seq(Cells) /\ Len(Payload(p)) = n
          /\ \A c \in 1..n : Payload(p)[c] = file[p + 3 + c]
      BY <2>4, <2>7, PayloadCells
    <3>3. ASSUME NEW c \in 1..n PROVE Payload(p)[c] = log[k][c]
      <4>1. 3 + c \in 1..(3 + n) /\ p + (3 + c) = p + 3 + c /\ p + 3 + c <= Len(file)
        BY <1>4, <2>7
      <4>2. file[p + 3 + c] = Enc(log[k])[3 + c]
        BY <1>5, <4>1
      <4>3. Enc(log[k])[3 + c] = log[k][c]
        BY <1>2, <1>4, EncFacts
      <4> QED
        BY <3>2, <4>2, <4>3
    <3>4. Payload(p) = log[k]
      <4>1. log[k] \in Seq(Cells)
        BY <1>4, PayloadFacts
      <4> QED
        BY <1>2, <3>2, <3>3, <4>1, SeqEqual
    <3>5. log[k] = PayloadOf(r, n)
      BY <1>2, <1>4, <2>2, PayloadFacts
    <3>6. ValidatePayload(p)
      BY <2>4, <3>4, <3>5 DEF ValidatePayload
    <3>7. NextAt(p) = "record"
      BY <2>1, <2>4, <2>5, <3>1, <3>6 DEF NextAt
    <3> QED
      BY <1>1, <1>2, <1>3, <2>1, <2>4, <2>7, <3>4, <3>7
  <2> QED
    BY <2>6, <2>7
<1> QED
  BY <1>1, <1>4, <1>7, <1>8, <1>9

(* At the damaged one it finds neither; and if the record is complete and  *)
(* its length intact, not a torn tail either.                              *)
LEMMA ReadsDamage ==
    ASSUME file \in Seq(Cells), log \in Seq(Payloads), NEW off, Layout(off, log),
           NEW k \in 1..Len(log), NEW e \in 1..(3 + Len(log[k])),
           Stream(file, log, off, off[k] + e), off[k] + e <= Len(file),
           BadCell(file[off[k] + e], log[k], e)
    PROVE  /\ NextAt(off[k]) \notin {"EOF", "record"}
           /\ damage # "length" /\ off[k + 1] <= Len(file) => NextAt(off[k]) # "ErrTruncated"
<1>1. PICK p \in Nat : p = off[k]
  BY LayoutFacts
<1>2. PICK n \in Nat : n = Len(log[k]) /\ n <= MaxPayloadSize /\ n >= 1
  BY LayoutFacts
<1>3. off[k + 1] = p + 3 + n
  BY <1>1, <1>2 DEF Layout
<1>4. log[k] \in Payloads /\ Len(file) \in Nat /\ e \in Nat /\ e >= 1 /\ e <= 3 + n
  BY <1>2
<1>5. ASSUME NEW c \in 1..(3 + n), p + c <= Len(file), c # e
      PROVE  file[p + c] = Enc(log[k])[c]
  <2>1. off[k] + c <= Len(file) /\ off[k] + c # off[k] + e
    BY <1>1, <1>4, <1>5
  <2> QED
    BY <1>1, <1>2, <2>1 DEF Stream
<1>6. Left(p) = Len(file) - p /\ Left(p) # 0
  BY <1>1, <1>4 DEF Left
<1>7. CASE Len(file) < p + 3
  <2>1. Left(p) < 3 /\ ~(p + 3 + n <= Len(file))
    BY <1>4, <1>6, <1>7
  <2> QED
    BY <1>1, <1>3, <1>6, <2>1 DEF NextAt
<1>8. CASE p + 3 <= Len(file)
  <2>1. ~(Left(p) < 3)
    BY <1>4, <1>6, <1>8
  <2>2. PICK r \in Nat : r = log[k][1].rec
    BY <1>4, PayloadFacts
  <2>3. /\ e # 1 => file[p + 1] = Cell("magic", r, 0)
        /\ e # 2 => file[p + 2] = Cell("length", r, n)
        /\ e # 3 => file[p + 3] = Cell("checksum", r, n)
    <3>1. /\ e # 1 => file[p + 1] = Enc(log[k])[1]
          /\ e # 2 => file[p + 2] = Enc(log[k])[2]
          /\ e # 3 => file[p + 3] = Enc(log[k])[3]
      <4>1. /\ 1 \in 1..(3 + n) /\ 2 \in 1..(3 + n) /\ 3 \in 1..(3 + n)
            /\ p + 1 <= Len(file) /\ p + 2 <= Len(file) /\ p + 3 <= Len(file)
        BY <1>4, <1>8
      <4> QED
        BY <1>5, <4>1
    <3> QED
      BY <1>2, <1>4, <2>2, <3>1, EncFacts
  <2>4. /\ Header(p)[1] = file[p + 1] /\ Header(p)[2] = file[p + 2]
        /\ Header(p)[3] = file[p + 3]
        /\ Length(p) = file[p + 2].val /\ Length(p) \in Nat
    BY <1>8, HeaderCells
  <2>5. NextAt(p) = IF DecodeHeader(Header(p)) # "nil" THEN DecodeHeader(Header(p))
                    ELSE IF Left(p) < 3 + Length(p) THEN "ErrTruncated"
                    ELSE IF ValidatePayload(p) THEN "record" ELSE "ErrChecksum"
    BY <1>6, <2>1 DEF NextAt
  <2>6. DecodeHeader(Header(p)) \in {"nil", "ErrBadMagic", "ErrRecordTooLarge"}
    BY DEF DecodeHeader
  <2>7. CASE damage = "length" /\ e = 2 /\ file[p + e].val # n
    <3>1. ASSUME ~(Left(p) < 3 + Length(p)) PROVE ~ValidatePayload(p)
      <4>1. p + 3 + Length(p) <= Len(file)
        BY SMTT(30), <1>4, <1>6, <2>4, <3>1
      <4>2. Len(Payload(p)) = Length(p)
        BY <2>4, <4>1, PayloadCells
      <4>3. Length(p) # n
        BY <2>4, <2>7
      <4>4. Header(p)[3].rec = r /\ Header(p)[3].val = n
        BY <2>3, <2>4, <2>7 DEF Cell
      <4>5. Len(PayloadOf(r, n)) = n
        BY <1>2, <1>4, <2>2, PayloadFacts
      <4> QED
        BY <4>2, <4>3, <4>4, <4>5 DEF ValidatePayload
    <3> QED
      BY <1>1, <2>5, <2>6, <2>7, <3>1
  <2>8. CASE damage # "length" /\ e # 2 /\ file[p + e].field = "bad"
    <3>1. CASE e = 1
      <4>1. DecodeHeader(Header(p)) = "ErrBadMagic"
        BY <2>4, <2>8, <3>1 DEF DecodeHeader
      <4> QED
        BY <1>1, <2>5, <4>1
    <3>2. CASE e # 1
      <4>1. Length(p) = n /\ Header(p)[1].field = "magic" /\ Header(p)[2].val = n
        BY <2>3, <2>4, <2>8, <3>2 DEF Cell
      <4>2. DecodeHeader(Header(p)) = "nil"
        BY <1>2, <4>1 DEF DecodeHeader
      <4>3. p + 3 + n <= Len(file) => ~(Left(p) < 3 + n)
        BY <1>4, <1>6
      <4>4. ASSUME ~(Left(p) < 3 + n) PROVE ~ValidatePayload(p)
        <5>1. p + 3 + n <= Len(file)
          BY <1>4, <1>6, <4>4
        <5>2. CASE e = 3
          BY <2>4, <2>8, <5>2 DEF ValidatePayload
        <5>3. CASE e # 3
          <6>1. PICK c \in 1..n : e = 3 + c
            <7>1. e - 3 \in 1..n /\ e = 3 + (e - 3)
              BY <1>4, <2>8, <3>2, <5>3
            <7> QED
              BY <7>1
          <6>2. Payload(p)[c] = file[p + 3 + c] /\ p + 3 + c = p + e
            <7>1. p + 3 + Length(p) <= Len(file) /\ Length(p) \in Nat /\ p \in Nat
              BY <1>4, <4>1, <5>1
            <7>2. \A b \in 1..Length(p) : Payload(p)[b] = file[p + 3 + b]
              BY <1>4, <7>1, PayloadCells
            <7> QED
              BY <4>1, <6>1, <7>1, <7>2
          <6>3. Payload(p)[c].field = "bad"
            BY <2>8, <6>2
          <6>4. Header(p)[3].rec = r /\ Header(p)[3].val = n
            BY SMTT(30), <2>3, <2>4, <5>3 DEF Cell
          <6>5. PayloadOf(r, n)[c] = Cell("payload", r, c)
            BY <1>2, <1>4, <2>2, PayloadFacts
          <6>6. PayloadOf(r, n)[c].field = "payload"
            BY <6>5 DEF Cell
          <6> QED
            BY <6>3, <6>4, <6>6 DEF ValidatePayload
        <5> QED
          BY <5>2, <5>3
      <4> QED
        BY <1>1, <1>3, <2>5, <4>1, <4>2, <4>3, <4>4
    <3> QED
      BY <3>1, <3>2
  <2> QED
    BY <1>1, <1>2, <2>7, <2>8 DEF BadCell
<1> QED
  BY <1>1, <1>4, <1>7, <1>8

-----------------------------------------------------------------------------
(* Replay, in a state of the invariant. *)

(* Without a writer the buffer is empty.                                   *)
LEMMA FileAlone ==
    ASSUME Types, NEW off, NEW d, Framed(off, d), mode # "open"
    PROVE  file \o buf = file /\ Stream(file, log, off, d) /\ Len(file) <= off[Len(log) + 1]
<1>1. buf = <<>> /\ file \in Seq(Cells) /\ Len(buf) = 0 /\ Len(file) \in Nat
  BY DEF Types, Framed, FileInv
<1>2. file \o buf = file
  BY <1>1, ConcatEmptySeq
<1> QED
  BY <1>1, <1>2 DEF Framed, FileInv

(* If the next record is not complete, all acknowledged ones are replayed. *)
LEMMA AckedBefore ==
    ASSUME Types, NEW off, NEW d, Framed(off, d), NEW m \in Nat, m < Len(log),
           ~(off[m + 2] <= Len(file)), damage # "length"
    PROVE  Len(acked) <= m
<1> SUFFICES ASSUME ~(Len(acked) <= m) PROVE FALSE
    OBVIOUS
<1>1. Len(acked) \in Nat /\ Len(log) \in Nat /\ synced \in 0..Len(file) /\ Len(file) \in Nat
  BY DEF Types, TypeOK
<1>2. Len(acked) <= Len(log) /\ off[Len(acked) + 1] <= synced
  BY DEF Framed, AckedInv
<1>3. /\ m + 2 \in 1..(Len(log) + 1) /\ Len(acked) + 1 \in 1..(Len(log) + 1)
      /\ m + 2 <= Len(acked) + 1
  BY <1>1, <1>2
<1>4. log \in Seq(Payloads) /\ Layout(off, log)
  BY DEF Types, Framed
<1>5. /\ off[m + 2] <= off[Len(acked) + 1]
      /\ off[m + 2] \in Nat /\ off[Len(acked) + 1] \in Nat
  BY <1>3, <1>4, LayoutFacts
<1> QED
  BY <1>1, <1>2, <1>5

(* The damaged record, if there is one, is not before the next one.        *)
LEMMA DamageAhead ==
    ASSUME Types, NEW off, NEW d, Framed(off, d), mode = "replay", d # 0
    PROVE  \E i \in 1..Len(log) : \E c \in 1..(3 + Len(log[i])) :
             /\ d = off[i] + c /\ BadCell(file[d], log[i], c) /\ pos <= off[i]
             /\ Len(replayed) + 1 <= i /\ pos < d
<1>0. PICK i \in 1..Len(log) : \E c \in 1..(3 + Len(log[i])) :
        d = off[i] + c /\ BadCell(file[d], log[i], c) /\ pos <= off[i]
  BY DEF Framed, DamageInv
<1>1. PICK c \in 1..(3 + Len(log[i])) :
        d = off[i] + c /\ BadCell(file[d], log[i], c) /\ pos <= off[i]
  BY <1>0
<1>2. log \in Seq(Payloads) /\ Layout(off, log)
  BY DEF Types, Framed
<1>3. PICK m \in Nat : m = Len(replayed) /\ m <= Len(log) /\ pos = off[m + 1]
  BY DEF Types, Framed, ReplayInv
<1>4. Len(log) \in Nat /\ Len(log[i]) \in Nat /\ off[i] \in Nat /\ off[m + 1] \in Nat
  BY <1>2, <1>3, LayoutFacts
<1>5. m + 1 <= i
  <2> SUFFICES ASSUME ~(m + 1 <= i) PROVE FALSE
      OBVIOUS
  <2>1. i < m + 1 /\ m + 1 \in 1..(Len(log) + 1) /\ i \in 1..(Len(log) + 1)
    BY <1>3, <1>4
  <2>2. off[i] < off[m + 1]
    BY <1>2, <2>1 DEF Layout
  <2> QED
    BY <1>1, <1>3, <1>4, <2>2
<1>6. pos < d
  BY <1>1, <1>3, <1>4
<1> QED
  BY <1>1, <1>3, <1>5, <1>6

(* What Next finds.                                                        *)
LEMMA Reading ==
    ASSUME Types, NEW off, NEW d, Framed(off, d), mode = "replay",
           NEW m \in Nat, m = Len(replayed)
    PROVE  /\ NextAt(pos) = "record" =>
                /\ m < Len(log) /\ Payload(pos) = log[m + 1]
                /\ Length(pos) = Len(log[m + 1]) /\ off[m + 2] <= Len(file)
                /\ d # 0 => \E i \in 1..Len(log) : \E c \in 1..(3 + Len(log[i])) :
                              /\ d = off[i] + c /\ BadCell(file[d], log[i], c)
                              /\ off[m + 2] <= off[i]
           /\ NextAt(pos) = "EOF" => pos = Len(file) /\ d = 0
           /\ NextAt(pos) \in {"EOF", "ErrTruncated"} /\ damage # "length" => Len(acked) <= m
           /\ damage = "none" => NextAt(pos) \in {"record", "EOF", "ErrTruncated"}
<1>1. /\ file \in Seq(Cells) /\ log \in Seq(Payloads) /\ Layout(off, log) /\ d \in Nat
      /\ Len(log) \in Nat /\ Len(file) \in Nat /\ m <= Len(log) /\ pos = off[m + 1]
      /\ pos \in Nat /\ pos <= Len(file)
  BY DEF Types, Framed, ReplayInv
<1>2. Stream(file, log, off, d) /\ Len(file) <= off[Len(log) + 1]
  BY FileAlone
<1>3. d # 0 => d <= Len(file) /\ damage # "none"
  BY <1>1 DEF Framed, DamageInv
<1>4. CASE m = Len(log)
  <2>1. pos = Len(file) /\ off[m + 1] \in Nat
    BY <1>1, <1>2, <1>4
  <2>2. Left(pos) = 0
    BY <1>1, <2>1 DEF Left
  <2>3. NextAt(pos) = "EOF"
    BY <2>2 DEF NextAt
  <2>4. d = 0
    <3> SUFFICES ASSUME d # 0 PROVE FALSE
        OBVIOUS
    <3>1. pos < d
      BY DamageAhead
    <3> QED
      BY <1>1, <1>3, <2>1, <3>1
  <2>5. damage # "length" => Len(acked) <= m
    BY <1>4 DEF Framed, AckedInv
  <2> QED
    BY <2>1, <2>3, <2>4, <2>5
<1>5. CASE m # Len(log)
  <2>1. PICK k \in 1..Len(log) : k = m + 1 /\ k + 1 = m + 2 /\ m < Len(log)
    <3>1. m + 1 \in 1..Len(log) /\ (m + 1) + 1 = m + 2 /\ m < Len(log)
      BY <1>1, <1>5
    <3> QED
      BY <3>1
  <2>a. Len(log[k]) \in Nat
    BY <1>1, LayoutFacts
  <2>b. PICK n \in Nat : n = Len(log[k])
    BY <2>a
  <2>2. off[k] = pos /\ off[k + 1] = pos + 3 + n
    BY <1>1, <2>1, <2>b DEF Layout
  <2>3. ~(off[k + 1] <= Len(file)) /\ damage # "length" => Len(acked) <= m
    BY <2>1, AckedBefore
  <2>4. ASSUME \A c \in 1..(3 + Len(log[k])) : off[k] + c # d,
               d # 0 => \E i \in 1..Len(log) : \E c \in 1..(3 + Len(log[i])) :
                          /\ d = off[i] + c /\ BadCell(file[d], log[i], c)
                          /\ off[m + 2] <= off[i] /\ pos < d
        PROVE  /\ NextAt(pos) = "record" =>
                    /\ m < Len(log) /\ Payload(pos) = log[m + 1]
                    /\ Length(pos) = Len(log[m + 1]) /\ off[m + 2] <= Len(file)
                    /\ d # 0 => \E i \in 1..Len(log) : \E c \in 1..(3 + Len(log[i])) :
                                  /\ d = off[i] + c /\ BadCell(file[d], log[i], c)
                                  /\ off[m + 2] <= off[i]
               /\ NextAt(pos) = "EOF" => pos = Len(file) /\ d = 0
               /\ NextAt(pos) \in {"EOF", "ErrTruncated"} /\ damage # "length" => Len(acked) <= m
               /\ damage = "none" => NextAt(pos) \in {"record", "EOF", "ErrTruncated"}
    <3>1. /\ NextAt(pos) = IF pos = Len(file) THEN "EOF"
                           ELSE IF off[k + 1] <= Len(file) THEN "record"
                           ELSE "ErrTruncated"
          /\ off[k + 1] <= Len(file) =>
               Payload(pos) = log[k] /\ Length(pos) = Len(log[k])
      <4>1. off[k] <= Len(file) /\ \A c \in 1..(3 + Len(log[k])) : off[k] + c # d
        BY <1>1, <2>2, <2>4
      <4>2. /\ NextAt(off[k]) = IF off[k] = Len(file) THEN "EOF"
                                ELSE IF off[k + 1] <= Len(file) THEN "record"
                                ELSE "ErrTruncated"
            /\ off[k + 1] <= Len(file) =>
                 Payload(off[k]) = log[k] /\ Length(off[k]) = Len(log[k])
        BY <1>1, <1>2, <4>1, ReadsRecord
      <4> QED
        BY <2>2, <4>2
    <3>2. NextAt(pos) = "record" => off[k + 1] <= Len(file)
      BY <3>1
    <3>3. NextAt(pos) = "EOF" => pos = Len(file)
      BY <3>1
    <3>4. NextAt(pos) \in {"EOF", "ErrTruncated"} => ~(off[k + 1] <= Len(file))
      <4>1. pos = Len(file) => ~(off[k + 1] <= Len(file))
        BY <1>1, <2>2
      <4> QED
        BY <3>1, <4>1
    <3>5. pos = Len(file) => d = 0
      <4> SUFFICES ASSUME pos = Len(file), d # 0 PROVE FALSE
          OBVIOUS
      <4>1. pos < d
        BY <2>4
      <4> QED
        BY <1>1, <1>3, <4>1
    <3>6. NextAt(pos) \in {"record", "EOF", "ErrTruncated"}
      BY <3>1
    <3>7. d # 0 => \E i \in 1..Len(log) : \E c \in 1..(3 + Len(log[i])) :
                     /\ d = off[i] + c /\ BadCell(file[d], log[i], c)
                     /\ off[m + 2] <= off[i]
      BY <2>4
    <3> QED
      BY <2>1, <2>3, <3>1, <3>2, <3>3, <3>4, <3>5, <3>6, <3>7
  <2>5. CASE d = 0
    <3>1. \A c \in 1..(3 + Len(log[k])) : off[k] + c # d
      BY <1>1, <2>2, <2>5, <2>b
    <3> QED
      BY <2>4, <2>5, <3>1
  <2>6. CASE d # 0
    <3>0. PICK i \in 1..Len(log) : \E e \in 1..(3 + Len(log[i])) :
            d = off[i] + e /\ BadCell(file[d], log[i], e) /\ k <= i /\ pos < d
      BY <2>1, <2>6, DamageAhead
    <3>1. PICK e \in 1..(3 + Len(log[i])) :
            d = off[i] + e /\ BadCell(file[d], log[i], e) /\ k <= i /\ pos < d
      BY <3>0
    <3>2. CASE i = k
      <4>1. /\ NextAt(pos) \notin {"EOF", "record"}
            /\ damage # "length" /\ off[k + 1] <= Len(file) => NextAt(pos) # "ErrTruncated"
        BY <1>1, <1>2, <1>3, <2>2, <2>6, <3>1, <3>2, ReadsDamage
      <4> QED
        BY <1>3, <2>3, <2>6, <4>1
    <3>3. CASE i # k
      <4>1. k + 1 <= i /\ k + 1 \in 1..(Len(log) + 1) /\ i \in 1..(Len(log) + 1)
        BY <1>1, <3>1, <3>3
      <4>2. off[k + 1] <= off[i] /\ off[i] \in Nat /\ off[k + 1] \in Nat /\ Len(log[i]) \in Nat
        BY SMTT(30), <1>1, <4>1, LayoutFacts
      <4>a. pos + 3 + n < d
        <5>1. pos + 3 + n <= off[i] /\ pos \in Nat
          BY <1>1, <2>2, <4>2
        <5>2. e \in Nat /\ e >= 1 /\ d = off[i] + e
          BY <3>1, <4>2
        <5> QED
          BY <4>2, <5>1, <5>2
      <4>3. ASSUME NEW c \in 1..(3 + Len(log[k])) PROVE off[k] + c # d
        <5>1. c \in Nat /\ c <= 3 + n /\ pos \in Nat /\ d \in Nat
          BY <1>1, <2>b
        <5>2. pos + c # d
          BY <4>a, <5>1
        <5> QED
          BY <2>2, <5>2
      <4>4. /\ d = off[i] + e /\ BadCell(file[d], log[i], e)
            /\ off[m + 2] <= off[i] /\ pos < d
        BY <2>1, <3>1, <4>2
      <4> QED
        BY <2>4, <4>3, <4>4
    <3> QED
      BY <3>2, <3>3
  <2> QED
    BY <2>5, <2>6
<1> QED
  BY <1>4, <1>5

-----------------------------------------------------------------------------
(* The steps of writer and storage. *)

(* What is left of the stream is a prefix of it.                           *)
LEMMA CutStream ==
    ASSUME Types, Types', NEW off, NEW d, Framed(off, d), NEW e \in {0, d}, log' = log,
           Len(file') + Len(buf') <= Len(file) + Len(buf),
           \A x \in 1..(Len(file') + Len(buf')) : (file' \o buf')[x] = (file \o buf)[x],
           e = d \/ Len(file') + Len(buf') < d,
           mode' = "open" =>
             mode = "open" /\ Len(file') + Len(buf') = Len(file) + Len(buf),
           mode' # "open" => buf' = <<>>
    PROVE  FileInv(off, e)'
<1>1. PICK s, t : s = file \o buf /\ t = file' \o buf'
  OBVIOUS
<1>2. /\ Len(s) = Len(file) + Len(buf) /\ Len(file) \in Nat /\ Len(buf) \in Nat
      /\ log \in Seq(Payloads)
  BY ONLY Types, <1>1, ConcatProperties DEF Types
<1>3. Len(t) = Len(file') + Len(buf') /\ Len(file') \in Nat /\ Len(buf') \in Nat
  BY ONLY Types', <1>1, ConcatProperties DEF Types
<1>4. Layout(off, log) /\ Stream(s, log, off, d) /\ d \in Nat
  BY <1>1 DEF Framed, FileInv
<1>5. Stream(t, log, off, d)
  <2>1. Len(s) \in Nat /\ Len(t) \in Nat /\ Len(t) <= Len(s)
    BY <1>2, <1>3
  <2>2. \A x \in 1..Len(t) : t[x] = s[x]
    BY <1>1, <1>3
  <2> QED
    BY ONLY <1>2, <1>4, <2>1, <2>2, StreamPrefix
<1>6. Stream(t, log, off, e)
  <2>1. CASE e = d
    BY <1>5, <2>1
  <2>2. CASE Len(t) < d
    <3> SUFFICES ASSUME NEW i \in 1..Len(log), NEW c \in 1..(3 + Len(log[i])),
                        off[i] + c <= Len(t)
                 PROVE  t[off[i] + c] = Enc(log[i])[c]
        BY DEF Stream
    <3>1. off[i] \in Nat /\ c \in Nat
      BY <1>2, <1>4, LayoutFacts
    <3>2. off[i] + c # d
      BY <1>3, <1>4, <2>2, <3>1
    <3> QED
      BY <1>5, <3>2 DEF Stream
  <2> QED
    BY <1>3, <2>1, <2>2
<1>7. off[Len(log) + 1] \in Nat
  BY <1>2, <1>4, LayoutFacts
<1>8. /\ Len(file) + Len(buf) <= off[Len(log) + 1]
      /\ mode = "open" => Len(file) + Len(buf) = off[Len(log) + 1]
  BY DEF Framed, FileInv
<1>9. Len(file') + Len(buf') <= off[Len(log) + 1]
  BY <1>2, <1>3, <1>7, <1>8
<1> QED
  BY <1>1, <1>6, <1>8, <1>9 DEF FileInv

(* A writer never works on a damaged file.                                 *)
LEMMA WriterClean ==
    ASSUME NEW off, NEW d, Framed(off, d), mode \in {"open", "broken"}
    PROVE  d = 0
BY DEF Framed, DamageInv

LEMMA SyncStep ==
    ASSUME Types, NEW off, NEW d, Framed(off, d), Sync \/ Close
    PROVE  LogInv'
<1>1. /\ file' = file \o buf /\ buf' = <<>> /\ synced' = Len(file')
      /\ mode \in {"open", "broken"} /\ UNCHANGED <<log, damage, pos, replayed, crashes, appended>>
      /\ acked' = IF mode = "open" THEN log ELSE acked
      /\ mode' = "open" => mode = "open"
      /\ mode' \in {"open", "down"}
  BY DEF Sync, Close, Flushed, readerVars
<1>2. /\ file \in Seq(Cells) /\ buf \in Seq(Cells) /\ Len(file) \in Nat /\ Len(buf) \in Nat
      /\ synced \in 0..Len(file)
  BY DEF Types, TypeOK
<1>3. /\ file' \in Seq(Cells) /\ Len(file') = Len(file) + Len(buf)
      /\ <<>> \in Seq(Cells) /\ Len(<<>>) = 0 /\ file' \o <<>> = file'
  BY <1>1, <1>2, ConcatProperties, ConcatEmptySeq, EmptySeq
<1>4. Types'
  BY <1>1, <1>2, <1>3 DEF Types, TypeOK
<1>5. d = 0
  BY <1>1, WriterClean
<1>6. FileInv(off, d)'
  BY <1>1, <1>2, <1>3, <1>4, CutStream
<1>7. DamageInv(off, d)' /\ ReplayInv(off)'
  BY <1>1, <1>5 DEF DamageInv, ReplayInv
<1>8. AckedInv(off)'
  <2>1. CASE mode = "open"
    <3>1. off[Len(log) + 1] = Len(file')
      BY <1>3, <2>1 DEF Framed, FileInv
    <3> QED
      BY <1>1, <1>2, <1>3, <2>1, <3>1 DEF AckedInv, Types
  <2>2. CASE mode # "open"
    <3>1. /\ damage # "length" => off[Len(acked) + 1] <= synced
          /\ acked' = acked
      BY <1>1, <2>2 DEF Framed, AckedInv
    <3>2. damage # "length" => off[Len(acked) + 1] \in Nat
      <4>1. log \in Seq(Payloads) /\ Len(acked) \in Nat /\ Len(log) \in Nat
        BY DEF Types
      <4>2. damage # "length" => Len(acked) + 1 \in 1..(Len(log) + 1)
        BY <4>1 DEF Framed, AckedInv
      <4> QED
        BY <4>1, <4>2, LayoutFacts DEF Framed
    <3>3. damage # "length" => off[Len(acked) + 1] <= synced'
      BY <1>1, <1>2, <1>3, <3>1, <3>2
    <3> QED
      BY <1>1, <3>1, <3>3 DEF Framed, AckedInv
  <2> QED
    BY <2>1, <2>2
<1> QED
  BY <1>1, <1>4, <1>6, <1>7, <1>8 DEF LogInv, Framed

LEMMA FlushFailsStep ==
    ASSUME Types, NEW off, NEW d, Framed(off, d), FlushFails
    PROVE  LogInv'
<1>1. PICK k \in 0..(Len(buf) - 1) : file' = file \o SubSeq(buf, 1, k)
  BY DEF FlushFails
<1>2. /\ buf' = <<>> /\ mode = "open" /\ mode' = "broken"
      /\ UNCHANGED <<synced, log, acked, damage, pos, replayed, crashes, appended>>
  BY DEF FlushFails, readerVars
<1>3. /\ file \in Seq(Cells) /\ buf \in Seq(Cells) /\ Len(file) \in Nat /\ Len(buf) \in Nat
      /\ synced \in 0..Len(file) /\ k \in Nat /\ k <= Len(buf)
  BY DEF Types, TypeOK
<1>4. PICK b : b = SubSeq(buf, 1, k)
  OBVIOUS
<1>5. b \in Seq(Cells) /\ Len(b) = k /\ \A x \in 1..k : b[x] = buf[x]
  <2>1. \A i \in 1..k : buf[i] \in Cells
    BY <1>3
  <2>2. /\ b \in Seq(Cells) /\ Len(b) = IF 1 <= k THEN k - 1 + 1 ELSE 0
        /\ \A i \in 1..(k - 1 + 1) : b[i] = buf[1 + i - 1]
    BY <1>3, <1>4, <2>1, SubSeqProperties
  <2>3. k - 1 + 1 = k /\ (IF 1 <= k THEN k - 1 + 1 ELSE 0) = k /\ \A i \in 1..k : 1 + i - 1 = i
    BY <1>3
  <2> QED
    BY <2>2, <2>3
<1>6. /\ file' \in Seq(Cells) /\ Len(file') = Len(file) + k
      /\ \A x \in 1..(Len(file) + k) : file'[x] = IF x <= Len(file) THEN file[x] ELSE b[x - Len(file)]
  BY <1>1, <1>3, <1>4, <1>5, ConcatProperties
<1>7. <<>> \in Seq(Cells) /\ Len(<<>>) = 0 /\ file' \o <<>> = file'
  BY <1>6, ConcatEmptySeq, EmptySeq
<1>8. Types'
  BY <1>2, <1>3, <1>6, <1>7 DEF Types, TypeOK
<1>9. d = 0
  BY <1>2, WriterClean
<1>10. ASSUME NEW x \in 1..Len(file') PROVE file'[x] = (file \o buf)[x]
  <2>1. x \in 1..(Len(file) + Len(buf)) /\ x \in 1..(Len(file) + k)
    BY <1>3, <1>6
  <2>2. (file \o buf)[x] = IF x <= Len(file) THEN file[x] ELSE buf[x - Len(file)]
    BY <1>3, <2>1, ConcatProperties
  <2>3. x > Len(file) => x - Len(file) \in 1..k
    BY <1>3, <2>1
  <2> QED
    BY <1>3, <1>5, <1>6, <2>1, <2>2, <2>3
<1>11. FileInv(off, d)'
  <2>1. Len(file') + Len(buf') = Len(file')
    BY <1>2, <1>6, <1>7, <1>3
  <2>2. Len(file') + Len(buf') <= Len(file) + Len(buf)
    BY <1>3, <1>6, <2>1
  <2>3. \A x \in 1..(Len(file') + Len(buf')) : (file' \o buf')[x] = (file \o buf)[x]
    BY <1>2, <1>7, <1>10, <2>1
  <2> QED
    BY <1>2, <1>8, <2>2, <2>3, CutStream
<1>12. DamageInv(off, d)' /\ ReplayInv(off)' /\ AckedInv(off)'
  BY <1>2, <1>9 DEF DamageInv, ReplayInv, AckedInv, Framed
<1> QED
  BY <1>2, <1>8, <1>11, <1>12 DEF LogInv, Framed

-----------------------------------------------------------------------------
(* The steps of the reader. *)

LEMMA NewReaderStep ==
    ASSUME Types, NEW off, NEW d, Framed(off, d), NewReader
    PROVE  LogInv'
<1>1. /\ mode' = "replay" /\ pos' = 0 /\ replayed' = <<>> /\ mode \in {"down", "refused"}
      /\ UNCHANGED <<file, buf, synced, log, acked, damage, crashes, appended>>
  BY DEF NewReader
<1>2. /\ file \in Seq(Cells) /\ Len(file) \in Nat /\ log \in Seq(Payloads) /\ Len(log) \in Nat
      /\ Layout(off, log)
  BY DEF Types, Framed
<1>3. <<>> \in Seq(Payloads) /\ Len(<<>>) = 0
  OBVIOUS
<1>4. Types'
  BY <1>1, <1>2, <1>3 DEF Types, TypeOK
<1>5. FileInv(off, d)' /\ AckedInv(off)'
  BY <1>1 DEF Framed, FileInv, AckedInv
<1>6. ReplayInv(off)'
  <2>1. off[0 + 1] = 0
    BY <1>2 DEF Layout
  <2> QED
    BY <1>1, <1>2, <1>3, <2>1 DEF ReplayInv
<1>7. DamageInv(off, d)'
  <2>1. damage = "none" => d = 0
    BY DEF Framed, DamageInv
  <2>2. CASE d = 0
    BY <1>1, <2>2 DEF DamageInv
  <2>3. CASE d # 0
    <3>1. PICK i \in 1..Len(log) : \E c \in 1..(3 + Len(log[i])) :
            d = off[i] + c /\ BadCell(file[d], log[i], c)
      BY <2>3 DEF Framed, DamageInv
    <3>2. PICK c \in 1..(3 + Len(log[i])) : d = off[i] + c /\ BadCell(file[d], log[i], c)
      BY <3>1
    <3>3. BadCell(file[d], log[i], c)'
      BY <1>1, <3>2 DEF BadCell
    <3>4. off[i] \in Nat
      BY <1>2, LayoutFacts
    <3>5. pos' <= off[i]
      BY <1>1, <3>4
    <3>6. d \in 1..Len(file)
      BY <2>3 DEF Framed, DamageInv
    <3> QED
      BY <1>1, <2>1, <2>3, <3>2, <3>3, <3>5, <3>6 DEF DamageInv
  <2> QED
    BY <2>2, <2>3
<1> QED
  BY <1>1, <1>4, <1>5, <1>6, <1>7 DEF LogInv, Framed

LEMMA ReplayFailsStep ==
    ASSUME Types, NEW off, NEW d, Framed(off, d), ReplayFails
    PROVE  LogInv'
<1>1. /\ mode = "replay" /\ mode' = "refused" /\ NextAt(pos) \notin {"EOF", "ErrTruncated", "record"}
      /\ UNCHANGED <<file, buf, synced, pos, replayed, log, acked, damage, crashes, appended>>
  BY DEF ReplayFails, readerVars
<1>2. damage # "none"
  <2>1. Len(replayed) \in Nat
    BY DEF Types
  <2> QED
    BY <1>1, <2>1, Reading
<1>3. Types'
  BY <1>1 DEF Types, TypeOK
<1>4. FileInv(off, d)' /\ AckedInv(off)' /\ ReplayInv(off)'
  BY <1>1 DEF Framed, FileInv, AckedInv, ReplayInv
<1>5. DamageInv(off, d)'
  BY <1>1, <1>2 DEF Framed, DamageInv, BadCell
<1> QED
  BY <1>1, <1>3, <1>4, <1>5 DEF LogInv, Framed

LEMMA ReplayRecordStep ==
    ASSUME Types, NEW off, NEW d, Framed(off, d), ReplayRecord
    PROVE  LogInv'
<1>1. /\ mode = "replay" /\ mode' = "replay" /\ NextAt(pos) = "record"
      /\ replayed' = Append(replayed, Payload(pos)) /\ pos' = pos + 3 + Length(pos)
      /\ UNCHANGED <<file, buf, synced, log, acked, damage, crashes, appended>>
  BY DEF ReplayRecord, PosAfter
<1>2. /\ file \in Seq(Cells) /\ Len(file) \in Nat /\ log \in Seq(Payloads) /\ Len(log) \in Nat
      /\ Layout(off, log) /\ replayed \in Seq(Payloads) /\ pos \in Nat
  BY DEF Types, Framed
<1>3. PICK m \in Nat : m = Len(replayed)
  BY <1>2
<1>4. /\ pos = off[m + 1] /\ \A k \in 1..m : replayed[k] = log[k]
  BY <1>1, <1>3 DEF Framed, ReplayInv
<1>5. /\ m < Len(log) /\ Payload(pos) = log[m + 1]
      /\ Length(pos) = Len(log[m + 1]) /\ off[m + 2] <= Len(file)
      /\ d # 0 => \E i \in 1..Len(log) : \E c \in 1..(3 + Len(log[i])) :
                    /\ d = off[i] + c /\ BadCell(file[d], log[i], c)
                    /\ off[m + 2] <= off[i]
  BY <1>1, <1>3, Reading
<1>6. m + 1 \in 1..Len(log) /\ (m + 1) + 1 = m + 2 /\ m + 2 \in 1..(Len(log) + 1)
  BY <1>2, <1>5
<1>7. pos' = off[m + 2] /\ off[m + 2] \in Nat
  <2>1. off[(m + 1) + 1] = off[m + 1] + 3 + Len(log[m + 1])
    BY <1>2, <1>6 DEF Layout
  <2>2. off[m + 2] \in Nat
    BY <1>2, <1>6, LayoutFacts
  <2> QED
    BY <1>1, <1>4, <1>5, <1>6, <2>1, <2>2
<1>8. /\ replayed' \in Seq(Payloads) /\ Len(replayed') = m + 1
      /\ \A k \in 1..(m + 1) : replayed'[k] = log[k]
  <2>1. log[m + 1] \in Payloads
    BY <1>2, <1>6
  <2>2. replayed' = Append(replayed, log[m + 1])
    BY <1>1, <1>5
  <2>3. /\ replayed' \in Seq(Payloads) /\ Len(replayed') = m + 1
        /\ replayed'[m + 1] = log[m + 1]
        /\ \A k \in 1..m : replayed'[k] = replayed[k]
    BY <1>2, <1>3, <2>1, <2>2, AppendProperties
  <2> QED
    BY <1>3, <1>4, <2>3
<1>9. Types'
  <2>1. pos' \in 0..Len(file) /\ pos' \in Nat
    BY <1>2, <1>5, <1>7
  <2>2. TypeOK'
    BY <1>1, <2>1 DEF Types, TypeOK
  <2> QED
    BY <1>1, <1>8, <2>1, <2>2 DEF Types
<1>10. FileInv(off, d)' /\ AckedInv(off)'
  BY <1>1 DEF Framed, FileInv, AckedInv
<1>11. ReplayInv(off)'
  <2>1. (m + 1) + 1 = m + 2 /\ m + 1 <= Len(log)
    BY <1>2, <1>5
  <2>2. pos' = off[Len(replayed') + 1] /\ pos' <= Len(file)
    BY <1>5, <1>7, <1>8, <2>1
  <2> QED
    BY <1>1, <1>8, <2>1, <2>2 DEF ReplayInv
<1>12. DamageInv(off, d)'
  <2>1. /\ damage = "none" => d = 0
        /\ d # 0 => d \in 1..Len(file)
    BY DEF Framed, DamageInv
  <2> QED
    BY <1>1, <1>5, <1>7, <2>1 DEF DamageInv, BadCell
<1> QED
  BY <1>1, <1>2, <1>9, <1>10, <1>11, <1>12 DEF LogInv, Framed

(* The first k cells of s.                                                 *)
LEMMA FirstCells ==
    ASSUME NEW s \in Seq(Cells), NEW k \in 0..Len(s)
    PROVE  /\ SubSeq(s, 1, k) \in Seq(Cells) /\ Len(SubSeq(s, 1, k)) = k
           /\ \A x \in 1..k : SubSeq(s, 1, k)[x] = s[x]
<1>1. Len(s) \in Nat /\ k \in Nat /\ \A i \in 1..k : s[i] \in Cells
  OBVIOUS
<1>2. PICK t : t = SubSeq(s, 1, k)
  OBVIOUS
<1>3. /\ t \in Seq(Cells) /\ Len(t) = IF 1 <= k THEN k - 1 + 1 ELSE 0
      /\ \A i \in 1..(k - 1 + 1) : t[i] = s[1 + i - 1]
  BY <1>1, <1>2, SubSeqProperties
<1>4. k - 1 + 1 = k /\ (IF 1 <= k THEN k - 1 + 1 ELSE 0) = k /\ \A i \in 1..k : 1 + i - 1 = i
  BY <1>1
<1> QED
  BY <1>2, <1>3, <1>4

(* What Open continues: the records replayed, and nothing behind them.     *)
LEMMA ReplayEndStep ==
    ASSUME Types, NEW off, NEW d, Framed(off, d), ReplayEnd
    PROVE  LogInv'
<1>1. /\ mode = "replay" /\ mode' = "open" /\ log' = replayed
      /\ synced' = (IF synced > pos THEN pos ELSE synced)
      /\ NextAt(pos) \in {"EOF", "ErrTruncated"}
      /\ NextAt(pos) = "EOF" => file' = file
      /\ NextAt(pos) = "ErrTruncated" => file' = SubSeq(file, 1, pos)
      /\ UNCHANGED <<buf, pos, replayed, acked, damage, crashes, appended>>
  BY DEF ReplayEnd, TailTrimmed, readerVars
<1>2. /\ file \in Seq(Cells) /\ Len(file) \in Nat /\ log \in Seq(Payloads) /\ Len(log) \in Nat
      /\ Layout(off, log) /\ replayed \in Seq(Payloads) /\ pos \in Nat /\ acked \in Seq(Payloads)
      /\ d \in Nat /\ synced \in 0..Len(file)
  BY DEF Types, TypeOK, Framed
<1>3. PICK m \in Nat : m = Len(replayed)
  BY <1>2
<1>4. /\ m <= Len(log) /\ \A k \in 1..m : replayed[k] = log[k]
      /\ pos = off[m + 1] /\ pos <= Len(file)
  BY <1>1, <1>3 DEF Framed, ReplayInv
<1>5. /\ NextAt(pos) = "EOF" => pos = Len(file) /\ d = 0
      /\ damage # "length" => Len(acked) <= m
  BY <1>1, <1>3, Reading
<1>6. d # 0 => pos < d
  BY <1>1, DamageAhead
<1>7. buf = <<>> /\ Stream(file, log, off, d)
  BY <1>1, FileAlone DEF Framed, FileInv
<1>8. /\ file' \in Seq(Cells) /\ Len(file') = pos /\ \A x \in 1..pos : file'[x] = file[x]
  <2>1. CASE NextAt(pos) = "EOF"
    BY <1>1, <1>2, <1>5, <2>1
  <2>2. CASE NextAt(pos) = "ErrTruncated"
    <3>1. pos \in 0..Len(file)
      BY <1>2, <1>4
    <3> QED
      BY <1>1, <1>2, <2>2, <3>1, FirstCells
  <2> QED
    BY <1>1, <2>1, <2>2
<1>9. Types'
  <2>1. synced' \in 0..pos /\ pos \in 0..pos
    BY <1>1, <1>2
  <2>2. TypeOK'
    BY <1>1, <1>8, <2>1 DEF Types, TypeOK
  <2>3. buf \in Seq(Cells)
    BY DEF Types
  <2> QED
    BY <1>1, <1>2, <1>8, <2>2, <2>3 DEF Types
<1>10. PICK o : Layout(o, replayed) /\ \A i \in 1..(m + 1) : o[i] = off[i]
  BY <1>2, <1>3, <1>4, LayoutPrefix
<1>11. file' \o buf' = file' /\ Len(file') + Len(buf') = pos
  <2>1. Len(<<>>) = 0 /\ file' \o <<>> = file'
    BY <1>8, ConcatEmptySeq, EmptySeq
  <2> QED
    BY <1>1, <1>2, <1>7, <1>8, <2>1
<1>12. Stream(file', replayed, o, 0)
  <2> SUFFICES ASSUME NEW i \in 1..m, NEW c \in 1..(3 + Len(replayed[i])), o[i] + c <= pos
               PROVE  file'[o[i] + c] = Enc(replayed[i])[c]
      BY <1>3, <1>8 DEF Stream
  <2>1. i \in 1..Len(log) /\ i \in 1..(m + 1) /\ replayed[i] = log[i] /\ o[i] = off[i]
    BY <1>2, <1>4, <1>10
  <2>2. off[i] \in Nat /\ c \in Nat /\ c >= 1 /\ c \in 1..(3 + Len(log[i]))
    BY SMTT(30), <1>2, <2>1, LayoutFacts
  <2>3. PICK x \in Nat : x = off[i] + c
    BY <2>2
  <2>4. x \in 1..pos /\ x <= Len(file) /\ x # d
    BY SMTT(30), <1>2, <1>4, <1>6, <2>1, <2>2, <2>3
  <2>5. file[off[i] + c] = Enc(log[i])[c]
    BY <1>7, <2>1, <2>2, <2>3, <2>4 DEF Stream
  <2> QED
    BY <1>8, <2>1, <2>3, <2>4, <2>5
<1>13. FileInv(o, 0)'
  <2>1. o[m + 1] = pos
    BY <1>4, <1>10
  <2>2. pos <= o[Len(replayed) + 1] /\ pos = o[Len(replayed) + 1]
    BY <1>2, <1>3, <2>1
  <2> QED
    BY <1>1, <1>11, <1>12, <2>2 DEF FileInv
<1>14. DamageInv(o, 0)' /\ ReplayInv(o)'
  BY <1>1 DEF DamageInv, ReplayInv
<1>15. AckedInv(o)'
  <2> SUFFICES ASSUME damage # "length"
               PROVE  /\ Len(acked) <= m /\ \A k \in 1..Len(acked) : acked[k] = replayed[k]
                      /\ o[Len(acked) + 1] <= synced'
      BY <1>1, <1>3 DEF AckedInv
  <2>1. PICK a \in Nat : a = Len(acked)
    BY <1>2
  <2>2. a <= m /\ (\A k \in 1..a : acked[k] = log[k]) /\ off[a + 1] <= synced
    BY <1>5, <2>1 DEF Framed, AckedInv
  <2>3. \A k \in 1..a : acked[k] = replayed[k]
    BY <1>4, <2>2
  <2>4. /\ a + 1 \in 1..(m + 1) /\ a + 1 \in 1..(Len(log) + 1) /\ m + 1 \in 1..(Len(log) + 1)
        /\ a + 1 <= m + 1
    BY <1>2, <1>4, <2>2
  <2>5. off[a + 1] <= off[m + 1] /\ o[a + 1] = off[a + 1]
    BY <1>2, <1>10, <2>4, LayoutFacts
  <2>6. o[a + 1] <= synced'
    BY <1>1, <1>4, <2>2, <2>5
  <2> QED
    BY <2>1, <2>2, <2>3, <2>6
<1>16. Framed(o, 0)'
  BY <1>1, <1>10, <1>13, <1>14, <1>15 DEF Framed
<1> QED
  BY <1>9, <1>16 DEF LogInv

-----------------------------------------------------------------------------
(* Crashes and corruption. *)

(* A crash leaves the first cells of the file, the durable ones at least.  *)
LEMMA CrashStep ==
    ASSUME Types, NEW off, NEW d, Framed(off, d), NEW keep \in Nat,
           keep \in synced..Len(file), Crash(keep), synced' \in synced..keep
    PROVE  LogInv'
<1>1. /\ file' = SubSeq(file, 1, keep) /\ buf' = <<>> /\ mode' = "down" /\ mode # "refused"
      /\ crashes < MaxCrashes /\ crashes' = crashes + 1
      /\ UNCHANGED <<pos, replayed, log, acked, damage, appended>>
  BY DEF Crash, readerVars
<1>2. /\ file \in Seq(Cells) /\ buf \in Seq(Cells) /\ Len(file) \in Nat /\ Len(buf) \in Nat
      /\ synced \in 0..Len(file) /\ crashes \in 0..MaxCrashes /\ d \in Nat
      /\ log \in Seq(Payloads) /\ Len(log) \in Nat /\ acked \in Seq(Payloads) /\ Layout(off, log)
  BY DEF Types, TypeOK, Framed
<1>3. file' \in Seq(Cells) /\ Len(file') = keep /\ \A x \in 1..keep : file'[x] = file[x]
  BY <1>1, <1>2, FirstCells
<1>4. <<>> \in Seq(Cells) /\ Len(<<>>) = 0 /\ file' \o <<>> = file'
  BY <1>3, ConcatEmptySeq, EmptySeq
<1>5. Types'
  <2>1. synced' \in 0..keep /\ crashes' \in 0..MaxCrashes
    BY <1>1, <1>2
  <2>2. TypeOK'
    BY <1>1, <1>3, <2>1 DEF Types, TypeOK
  <2> QED
    BY <1>1, <1>3, <1>4, <2>2 DEF Types
<1>6. PICK e \in {0, d} : (e = d /\ d <= keep) \/ (e = 0 /\ keep < d)
  BY <1>2
<1>7. FileInv(off, e)'
  <2>1. Len(file') + Len(buf') = keep
    BY <1>1, <1>3, <1>4
  <2>2. keep <= Len(file) + Len(buf) /\ (e = d \/ keep < d)
    BY <1>2, <1>6
  <2>3. ASSUME NEW x \in 1..keep PROVE (file' \o buf')[x] = (file \o buf)[x]
    <3>1. x \in 1..(Len(file) + Len(buf)) /\ x <= Len(file)
      BY <1>2
    <3>2. (file \o buf)[x] = file[x]
      BY <1>2, <3>1, ConcatProperties
    <3> QED
      BY <1>1, <1>3, <1>4, <3>2
  <2>4. \A x \in 1..(Len(file') + Len(buf')) : (file' \o buf')[x] = (file \o buf)[x]
    BY <2>1, <2>3
  <2> QED
    BY <1>1, <1>5, <2>1, <2>2, <2>4, CutStream
<1>8. DamageInv(off, e)'
  <2>1. damage = "none" => e = 0
    BY <1>6 DEF Framed, DamageInv
  <2>2. CASE e = 0
    BY <1>1, <2>2 DEF DamageInv
  <2>3. CASE e # 0
    <3>1. e = d /\ d # 0 /\ d <= keep
      BY <1>6, <2>3
    <3>2. PICK i \in 1..Len(log) : \E c \in 1..(3 + Len(log[i])) :
            d = off[i] + c /\ BadCell(file[d], log[i], c)
      BY <3>1 DEF Framed, DamageInv
    <3>3. PICK c \in 1..(3 + Len(log[i])) : d = off[i] + c /\ BadCell(file[d], log[i], c)
      BY <3>2
    <3>4. d \in 1..keep /\ file'[d] = file[d]
      BY <1>2, <1>3, <3>1
    <3>5. BadCell(file[d], log[i], c)'
      BY <1>1, <3>3, <3>4 DEF BadCell
    <3> QED
      BY <1>1, <1>3, <2>1, <3>1, <3>3, <3>4, <3>5 DEF DamageInv
  <2> QED
    BY <2>2, <2>3
<1>9. ReplayInv(off)'
  BY <1>1 DEF ReplayInv
<1>10. AckedInv(off)'
  <2> SUFFICES ASSUME damage # "length"
               PROVE  /\ Len(acked) <= Len(log) /\ \A k \in 1..Len(acked) : acked[k] = log[k]
                      /\ off[Len(acked) + 1] <= synced'
      BY <1>1 DEF AckedInv
  <2>1. /\ Len(acked) <= Len(log) /\ \A k \in 1..Len(acked) : acked[k] = log[k]
        /\ off[Len(acked) + 1] <= synced
    BY DEF Framed, AckedInv
  <2>2. Len(acked) + 1 \in 1..(Len(log) + 1)
    BY <1>2, <2>1
  <2>3. off[Len(acked) + 1] \in Nat
    BY <1>2, <2>2, LayoutFacts
  <2>4. off[Len(acked) + 1] <= synced'
    BY <1>2, <2>1, <2>3
  <2> QED
    BY <2>1, <2>4
<1>11. Framed(off, e)'
  BY <1>1, <1>2, <1>6, <1>7, <1>8, <1>9, <1>10 DEF Framed
<1> QED
  BY <1>5, <1>11 DEF LogInv

(* The cells of a record and their fields.                                 *)
LEMMA EncField ==
    ASSUME NEW p \in Payloads, NEW c \in 1..(3 + Len(p))
    PROVE  /\ Enc(p)[c] \in Cells
           /\ Enc(p)[c].field \in {"magic", "length", "checksum", "payload"}
           /\ Enc(p)[c].field = "length" <=> c = 2
           /\ c = 2 => Enc(p)[c].val = Len(p)
<1>1. PICK r \in Nat, n \in Nat : r = p[1].rec /\ n = Len(p)
  BY PayloadFacts
<1>2. Enc(p)[c] = IF c = 1 THEN Cell("magic", r, 0)
                  ELSE IF c = 2 THEN Cell("length", r, n)
                  ELSE IF c = 3 THEN Cell("checksum", r, n) ELSE Cell("payload", r, c - 3)
  <2>1. CASE c \in 1..3
    BY <1>1, <2>1, EncFacts
  <2>2. CASE c \notin 1..3
    <3>1. c - 3 \in 1..n /\ 3 + (c - 3) = c /\ c # 1 /\ c # 2 /\ c # 3
      BY <1>1, <2>2
    <3>2. Enc(p)[3 + (c - 3)] = p[c - 3]
      BY <1>1, <3>1, EncFacts
    <3>3. p[c - 3] = Cell("payload", r, c - 3)
      BY <1>1, <3>1, PayloadFacts
    <3> QED
      BY <3>1, <3>2, <3>3
  <2> QED
    BY <2>1, <2>2
<1>3. Enc(p)[c] \in Cells
  BY EncFacts
<1> QED
  BY <1>1, <1>2, <1>3 DEF Cell

(* The record a cell of the file belongs to.                               *)
LEMMA CellOf ==
    ASSUME Types, NEW off, NEW d, Framed(off, d), NEW x \in 1..Len(file), x # d
    PROVE  \E j \in 1..Len(log) : \E c \in 1..(3 + Len(log[j])) :
             x = off[j] + c /\ file[x] = Enc(log[j])[c]
<1>1. /\ Len(file) \in Nat /\ log \in Seq(Payloads) /\ Layout(off, log) /\ Len(log) \in Nat
  BY DEF Types, Framed
<1>3. off[Len(log) + 1] \in Nat
  BY <1>1, LayoutFacts
<1>2. Stream(file, log, off, d) /\ Len(file) <= off[Len(log) + 1]
  <2>1. PICK s : s = file \o buf
    OBVIOUS
  <2>2. file \in Seq(Cells) /\ buf \in Seq(Cells) /\ Len(buf) \in Nat
    BY DEF Types
  <2>3. Len(s) = Len(file) + Len(buf) /\ \A k \in 1..Len(file) : s[k] = file[k]
    <3>1. /\ Len(s) = Len(file) + Len(buf)
          /\ \A k \in 1..(Len(file) + Len(buf)) :
               s[k] = IF k <= Len(file) THEN file[k] ELSE buf[k - Len(file)]
      BY <2>1, <2>2, ConcatProperties
    <3>2. \A k \in 1..Len(file) : k \in 1..(Len(file) + Len(buf)) /\ k <= Len(file)
      BY <1>1, <2>2
    <3> QED
      BY <3>1, <3>2
  <2>4. Stream(s, log, off, d) /\ Len(file) + Len(buf) <= off[Len(log) + 1]
    BY <2>1 DEF Framed, FileInv
  <2>5. Len(s) \in Nat /\ Len(file) <= Len(s)
    BY <1>1, <2>2, <2>3
  <2>6. Stream(file, log, off, d)
    BY <1>1, <2>3, <2>4, <2>5, StreamPrefix
  <2> QED
    BY <1>1, <1>3, <2>2, <2>4, <2>6
<1>4. x \in 1..off[Len(log) + 1]
  BY <1>1, <1>2, <1>3
<1>5. PICK j \in 1..Len(log) : off[j] < x /\ x <= off[j + 1]
  BY <1>4, <1>1 DEF Layout
<1>6. off[j] \in Nat /\ Len(log[j]) \in Nat /\ off[j + 1] = off[j] + 3 + Len(log[j])
  <2>1. off[j + 1] = off[j] + 3 + Len(log[j])
    BY <1>1 DEF Layout
  <2>2. off[j] \in Nat /\ Len(log[j]) \in Nat
    BY <1>1, LayoutFacts
  <2> QED
    BY <2>1, <2>2
<1>7. PICK c \in 1..(3 + Len(log[j])) : x = off[j] + c
  <2>1. x - off[j] \in 1..(3 + Len(log[j])) /\ x = off[j] + (x - off[j])
    BY <1>1, <1>5, <1>6
  <2> QED
    BY <2>1
<1>8. off[j] + c <= Len(file) /\ off[j] + c # d
  BY <1>7
<1>9. file[off[j] + c] = Enc(log[j])[c]
  BY <1>2, <1>8 DEF Stream
<1> QED
  BY <1>7, <1>9

LEMMA CorruptStep ==
    ASSUME Types, NEW off, NEW d, Framed(off, d), NEW i \in 1..Len(file), Corrupt(i)
    PROVE  LogInv'
<1>1. /\ mode = "down" /\ mode' = "down" /\ damage = "none" /\ damage' = file[i].field
      /\ UNCHANGED <<buf, synced, pos, replayed, log, acked, crashes, appended>>
  BY DEF Corrupt, readerVars
<1>2. /\ file \in Seq(Cells) /\ Len(file) \in Nat /\ log \in Seq(Payloads) /\ Layout(off, log)
      /\ buf = <<>> /\ d = 0 /\ i \in Nat /\ i # 0
  BY <1>1 DEF Types, Framed, FileInv, DamageInv
<1>3. Stream(file, log, off, 0) /\ Len(file) <= off[Len(log) + 1]
  BY <1>1, <1>2, FileAlone
<1>4. PICK j \in 1..Len(log) : \E c \in 1..(3 + Len(log[j])) :
        i = off[j] + c /\ file[i] = Enc(log[j])[c]
  BY <1>2, CellOf
<1>5. PICK c \in 1..(3 + Len(log[j])) : i = off[j] + c /\ file[i] = Enc(log[j])[c]
  BY <1>4
<1>6. log[j] \in Payloads /\ file[i] \in Cells
  BY <1>2
<1>7. /\ file[i].field \in {"magic", "length", "checksum", "payload"}
      /\ file[i].field = "length" <=> c = 2
      /\ c = 2 => file[i].val = Len(log[j])
  BY <1>5, <1>6, EncField
<1>8. PICK x \in Cells : /\ file' = [file EXCEPT ![i] = x]
                         /\ c = 2 => x.val # Len(log[j])
                         /\ c # 2 => x.field = "bad"
  <2>1. CASE file[i].field = "length"
    <3>1. PICK v \in (0..(MaxPayloadSize + 1)) \ {file[i].val} : file' = [file EXCEPT ![i].val = v]
      BY <2>1 DEF Corrupt
    <3>2. PICK x : x = [file[i] EXCEPT !.val = v]
      OBVIOUS
    <3>3. x \in Cells /\ x.val = v
      BY SMTT(30), <1>6, <3>2 DEF Cells
    <3>4. file' = [file EXCEPT ![i] = x]
      BY <3>1, <3>2
    <3> QED
      BY <1>7, <2>1, <3>1, <3>3, <3>4
  <2>2. CASE file[i].field # "length"
    <3>1. file' = [file EXCEPT ![i].field = "bad"]
      BY <2>2 DEF Corrupt
    <3>2. PICK x : x = [file[i] EXCEPT !.field = "bad"]
      OBVIOUS
    <3>3. x \in Cells /\ x.field = "bad"
      BY <1>6, <3>2 DEF Cells
    <3>4. file' = [file EXCEPT ![i] = x]
      BY <3>1, <3>2
    <3> QED
      BY <1>7, <2>2, <3>3, <3>4
  <2> QED
    BY <2>1, <2>2
<1>9. /\ file' \in Seq(Cells) /\ Len(file') = Len(file) /\ file'[i] = x
      /\ \A k \in 1..Len(file) : k # i => file'[k] = file[k]
  BY <1>2, <1>8, ExceptSeq
<1>10. Types'
  <2>1. TypeOK'
    BY <1>1, <1>7, <1>9 DEF Types, TypeOK
  <2> QED
    BY <1>1, <1>9, <2>1 DEF Types
<1>11. FileInv(off, i)'
  <2>1. file' \o buf' = file' /\ Len(buf') = 0
    BY <1>1, <1>2, <1>9, ConcatEmptySeq, EmptySeq
  <2>2. Stream(file', log, off, i)
    <3> SUFFICES ASSUME NEW k \in 1..Len(log), NEW b \in 1..(3 + Len(log[k])),
                        off[k] + b <= Len(file'), off[k] + b # i
                 PROVE  file'[off[k] + b] = Enc(log[k])[b]
        BY DEF Stream
    <3>1. off[k] \in Nat /\ b \in Nat /\ b >= 1
      BY <1>2, LayoutFacts
    <3>2. PICK y \in Nat : y = off[k] + b
      BY <3>1
    <3>3. y \in 1..Len(file) /\ y # i /\ y # 0
      BY SMTT(30), <1>2, <1>9, <3>1, <3>2
    <3>4. file[off[k] + b] = Enc(log[k])[b]
      BY <1>3, <3>2, <3>3 DEF Stream
    <3> QED
      BY <1>9, <3>2, <3>3, <3>4
  <2>3. Len(file') + Len(buf') <= off[Len(log) + 1]
    BY <1>2, <1>3, <1>9, <2>1
  <2> QED
    BY <1>1, <1>2, <2>1, <2>2, <2>3 DEF FileInv
<1>12. DamageInv(off, i)'
  <2>1. damage' # "none" /\ (damage' = "length" <=> c = 2)
    BY <1>1, <1>7
  <2>2. BadCell(file[i], log[j], c)'
    BY <1>1, <1>8, <1>9, <2>1 DEF BadCell
  <2> QED
    BY <1>1, <1>5, <1>9, <2>1, <2>2 DEF DamageInv
<1>13. ReplayInv(off)' /\ AckedInv(off)'
  BY <1>1 DEF Framed, ReplayInv, AckedInv
<1> QED
  BY <1>1, <1>2, <1>10, <1>11, <1>12, <1>13 DEF LogInv, Framed

-----------------------------------------------------------------------------
(* The writer appends a record. *)

LEMMA ConcatCells ==
    \A x, y, z \in Seq(Cells) : (x \o y) \o z = x \o (y \o z)
<1> SUFFICES ASSUME NEW x \in Seq(Cells), NEW y \in Seq(Cells), NEW z \in Seq(Cells)
             PROVE  (x \o y) \o z = x \o (y \o z)
    OBVIOUS
<1> QED
  BY ConcatAssociative

LEMMA AppendStep ==
    ASSUME Types, NEW off, NEW d, Framed(off, d), NEW n \in PayloadSizes, WalAppend(n)
    PROVE  LogInv'
<1>1. /\ mode = "open" /\ mode' = "open" /\ appended < MaxRecords /\ appended' = appended + 1
      /\ log' = Append(log, PayloadOf(appended + 1, n))
      /\ UNCHANGED <<synced, pos, replayed, acked, damage, crashes>>
  BY DEF WalAppend, readerVars
<1>2. /\ file \in Seq(Cells) /\ buf \in Seq(Cells) /\ Len(file) \in Nat /\ Len(buf) \in Nat
      /\ log \in Seq(Payloads) /\ Len(log) \in Nat /\ acked \in Seq(Payloads)
      /\ synced \in 0..Len(file) /\ appended \in 0..MaxRecords /\ Layout(off, log)
      /\ pos \in 0..Len(file)
  BY <1>1 DEF Types, TypeOK, Framed
<1>3. n \in 1..MaxPayloadSize /\ appended + 1 \in Nat
  <2>1. n \in Nat /\ n >= 1 /\ n <= MaxPayloadSize + 1
    BY DEF PayloadSizes
  <2>2. Uint32(n) = n
    BY <2>1, LengthKept
  <2> QED
    BY <1>2, <2>1, <2>2 DEF WalAppend
<1>4. PICK p : p = PayloadOf(appended + 1, n)
  OBVIOUS
<1>5. p \in Payloads /\ Enc(p) = Encode(appended + 1, n) /\ Len(p) = n
  BY <1>3, <1>4, PayloadOfFacts DEF Enc
<1>6. Enc(p) \in Seq(Cells) /\ Len(Enc(p)) = 3 + n
  BY <1>5, EncFacts
<1>7. PICK all : all = buf \o Enc(p)
  OBVIOUS
<1>8. all \in Seq(Cells) /\ Len(all) \in Nat
  <2>1. all \in Seq(Cells)
    BY ONLY <1>2, <1>6, <1>7, ConcatProperties
  <2> QED
    BY <2>1, LenProperties
<1>9. PICK k \in 0..Len(all) : file' = file \o SubSeq(all, 1, k) /\ buf' = SubSeq(all, k + 1, Len(all))
  BY <1>5, <1>7 DEF WalAppend
<1>10. /\ SubSeq(all, 1, k) \in Seq(Cells) /\ SubSeq(all, k + 1, Len(all)) \in Seq(Cells)
       /\ SubSeq(all, 1, k) \o SubSeq(all, k + 1, Len(all)) = all
  <2>1. SubSeq(all, 1, k) \in Seq(Cells)
    BY <1>8, FirstCells
  <2>2. \A i \in (k + 1)..Len(all) : all[i] \in Cells
    BY <1>8
  <2>3. SubSeq(all, k + 1, Len(all)) \in Seq(Cells)
    BY <1>8, <2>2, SubSeqProperties
  <2>4. 1 \in 1..(Len(all) + 1) /\ k \in (1 - 1)..Len(all) /\ Len(all) \in k..Len(all)
    BY <1>8
  <2>5. SubSeq(all, 1, k) \o SubSeq(all, k + 1, Len(all)) = SubSeq(all, 1, Len(all))
    BY <1>8, <2>4, ConcatAdjacentSubSeq
  <2>6. SubSeq(all, 1, Len(all)) = all
    BY <1>8, SubSeqFull
  <2> QED
    BY <2>1, <2>3, <2>5, <2>6
<1>11. /\ file' \in Seq(Cells) /\ buf' \in Seq(Cells) /\ Len(file') \in Nat /\ Len(buf') \in Nat
       /\ Len(file) <= Len(file')
  <2>1. PICK u, v : u = SubSeq(all, 1, k) /\ v = SubSeq(all, k + 1, Len(all))
    OBVIOUS
  <2>2. u \in Seq(Cells) /\ v \in Seq(Cells) /\ Len(u) \in Nat /\ Len(v) \in Nat
    BY ONLY <1>10, <2>1, LenProperties
  <2>3. file' = file \o u /\ buf' = v
    BY <1>9, <2>1
  <2>4. file \o u \in Seq(Cells) /\ Len(file \o u) = Len(file) + Len(u)
    BY ONLY <1>2, <2>2, ConcatProperties
  <2> QED
    BY <1>2, <2>2, <2>3, <2>4
<1>12. PICK s, t : s = file \o buf /\ t = file' \o buf'
  OBVIOUS
<1>13. s \in Seq(Cells) /\ Len(s) = Len(file) + Len(buf) /\ Len(s) \in Nat
  BY <1>2, <1>12, ConcatProperties
<1>14. t = s \o Enc(p)
  <2>1. PICK u, v : u = SubSeq(all, 1, k) /\ v = SubSeq(all, k + 1, Len(all))
    OBVIOUS
  <2>2. u \in Seq(Cells) /\ v \in Seq(Cells) /\ u \o v = all
    BY <1>10, <2>1
  <2>3. t = (file \o u) \o v
    BY <1>9, <1>12, <2>1
  <2>a. \A x, y, z \in Seq(Cells) : (x \o y) \o z = x \o (y \o z)
    BY ConcatCells
  <2>4. (file \o u) \o v = file \o (u \o v)
    BY <1>2, <2>2, <2>a, Zenon
  <2>5. (file \o buf) \o Enc(p) = file \o (buf \o Enc(p))
    BY <1>2, <1>6, <2>a, Zenon
  <2> QED
    BY <1>7, <1>12, <2>2, <2>3, <2>4, <2>5
<1>15. /\ Len(t) = Len(s) + 3 + n /\ Len(t) = Len(file') + Len(buf')
       /\ \A x \in 1..Len(t) : t[x] = IF x <= Len(s) THEN s[x] ELSE Enc(p)[x - Len(s)]
  <2>1. /\ Len(t) = Len(s) + Len(Enc(p))
        /\ \A x \in 1..(Len(s) + Len(Enc(p))) :
             t[x] = IF x <= Len(s) THEN s[x] ELSE Enc(p)[x - Len(s)]
    BY <1>6, <1>13, <1>14, ConcatProperties
  <2>2. Len(t) = Len(file') + Len(buf')
    BY <1>11, <1>12, ConcatProperties
  <2>3. Len(t) = Len(s) + 3 + n
    BY <1>3, <1>6, <1>13, <2>1
  <2> QED
    BY <2>1, <2>2, <2>3
<1>16. d = 0 /\ Stream(s, log, off, 0) /\ Len(s) = off[Len(log) + 1]
  <2>1. d = 0
    BY <1>1, WriterClean
  <2> QED
    BY <1>1, <1>12, <1>13, <2>1 DEF Framed, FileInv
<1>17. PICK o : /\ Layout(o, Append(log, p))
                /\ \A i \in 1..(Len(log) + 1) : o[i] = off[i]
                /\ o[Len(log) + 2] = off[Len(log) + 1] + 3 + n
  BY SMTT(30), <1>2, <1>5, LayoutAppend
<1>18. /\ log' = Append(log, p) /\ log' \in Seq(Payloads) /\ Len(log') = Len(log) + 1
       /\ log'[Len(log) + 1] = p /\ \A i \in 1..Len(log) : log'[i] = log[i]
  BY <1>1, <1>2, <1>4, <1>5, AppendProperties
<1>19. Types'
  <2>1. synced \in 0..Len(file') /\ pos \in 0..Len(file') /\ appended' \in 0..MaxRecords
    BY <1>1, <1>2, <1>11
  <2>2. TypeOK'
    BY <1>1, <2>1 DEF Types, TypeOK
  <2> QED
    BY <1>1, <1>11, <1>18, <2>2 DEF Types
<1>20. ASSUME NEW i \in 1..Len(log'), NEW c \in 1..(3 + Len(log'[i])),
              o[i] + c <= Len(t)
       PROVE  t[o[i] + c] = Enc(log'[i])[c]
  <2>1. CASE i = Len(log) + 1
    <3>1. o[i] = Len(s) /\ log'[i] = p /\ c \in 1..(3 + n)
      BY <1>2, <1>5, <1>16, <1>17, <1>18, <2>1
    <3>2. PICK x \in 1..Len(t) : x = o[i] + c /\ ~(x <= Len(s)) /\ x - Len(s) = c
      <4>1. /\ Len(s) + c \in 1..Len(t) /\ ~(Len(s) + c <= Len(s)) /\ (Len(s) + c) - Len(s) = c
        BY SMTT(30), <1>3, <1>13, <1>15, <3>1
      <4> QED
        BY <3>1, <4>1
    <3> QED
      BY <1>15, <3>1, <3>2
  <2>2. CASE i # Len(log) + 1
    <3>1. /\ i \in 1..Len(log) /\ i + 1 \in 1..(Len(log) + 1) /\ i \in 1..(Len(log) + 1)
          /\ Len(log) + 1 \in 1..(Len(log) + 1)
      BY <1>2, <1>18, <2>2
    <3>2. log'[i] = log[i] /\ o[i] = off[i] /\ c \in 1..(3 + Len(log[i]))
      BY <1>17, <1>18, <3>1
    <3>3. /\ off[i] \in Nat /\ Len(log[i]) \in Nat /\ off[i + 1] <= off[Len(log) + 1]
          /\ off[i + 1] \in Nat
      BY SMTT(30), <1>2, <3>1, LayoutFacts
    <3>4. off[i + 1] = off[i] + 3 + Len(log[i])
      BY <1>2, <3>1 DEF Layout
    <3>5. PICK x \in Nat : x = off[i] + c
      BY <3>2, <3>3
    <3>6. x \in 1..Len(t) /\ x <= Len(s) /\ x # 0
      <4>1. c \in Nat /\ c >= 1 /\ c <= 3 + Len(log[i]) /\ n \in Nat
        BY <1>3, <3>2, <3>3
      <4>a. PICK b \in Nat, l \in Nat : b = off[i] /\ l = Len(log[i])
        BY <3>3
      <4>b. off[i + 1] = b + 3 + l /\ x = b + c /\ c <= 3 + l
        BY <3>4, <3>5, <4>1, <4>a
      <4>2. x <= b + 3 + l /\ x >= 1
        BY ONLY <4>1, <4>b, b \in Nat, l \in Nat
      <4>3. x <= Len(s)
        <5>1. off[i + 1] <= Len(s)
          BY <1>16, <3>3
        <5> QED
          BY ONLY <1>13, <3>5, <4>2, <4>b, <5>1, b \in Nat, l \in Nat, x \in Nat
      <4>4. Len(s) <= Len(t) /\ Len(t) \in Nat
        BY <1>13, <1>15, <4>1
      <4> QED
        BY <1>13, <3>5, <4>2, <4>3, <4>4
    <3>7. s[off[i] + c] = Enc(log[i])[c]
      BY <1>16, <3>1, <3>2, <3>5, <3>6 DEF Stream
    <3> QED
      BY <1>15, <3>2, <3>5, <3>6, <3>7
  <2> QED
    BY <2>1, <2>2
<1>21. FileInv(o, 0)'
  <2>1. Stream(t, log', o, 0)
    BY <1>20 DEF Stream
  <2>2. (Len(log) + 1) + 1 = Len(log) + 2
    BY <1>2
  <2>3. o[Len(log') + 1] = Len(t)
    BY <1>15, <1>16, <1>17, <1>18, <2>2
  <2>4. Len(t) <= Len(t)
    BY <1>13, <1>15, <1>3
  <2> QED
    BY <1>1, <1>12, <1>15, <2>1, <2>3, <2>4 DEF FileInv
<1>22. DamageInv(o, 0)' /\ ReplayInv(o)'
  BY <1>1 DEF DamageInv, ReplayInv
<1>23. AckedInv(o)'
  <2> SUFFICES ASSUME damage # "length"
               PROVE  /\ Len(acked) <= Len(log') /\ \A i \in 1..Len(acked) : acked[i] = log'[i]
                      /\ o[Len(acked) + 1] <= synced
      BY <1>1 DEF AckedInv
  <2>1. PICK a \in Nat : a = Len(acked)
    BY <1>2
  <2>2. a <= Len(log) /\ (\A i \in 1..a : acked[i] = log[i]) /\ off[a + 1] <= synced
    BY <2>1 DEF Framed, AckedInv
  <2>3. a + 1 \in 1..(Len(log) + 1) /\ a <= Len(log) + 1 /\ 1..a \subseteq 1..Len(log)
    BY <1>2, <2>2
  <2> QED
    BY <1>17, <1>18, <2>1, <2>2, <2>3
<1>24. Framed(o, 0)'
  BY <1>17, <1>18, <1>21, <1>22, <1>23 DEF Framed
<1> QED
  BY <1>19, <1>24 DEF LogInv

-----------------------------------------------------------------------------
(* The invariant holds throughout. *)

LEMMA LogInvInit == Init => LogInv
<1> SUFFICES ASSUME Init PROVE LogInv
    OBVIOUS
<1>1. /\ file = <<>> /\ buf = <<>> /\ synced = 0 /\ mode = "down" /\ pos = 0 /\ replayed = <<>>
      /\ log = <<>> /\ acked = <<>> /\ damage = "none" /\ crashes = 0 /\ appended = 0
  BY DEF Init
<1>2. <<>> \in Seq(Cells) /\ <<>> \in Seq(Payloads) /\ Len(<<>>) = 0 /\ <<>> \o <<>> = <<>>
  OBVIOUS
<1>3. Types
  BY <1>1, <1>2 DEF Types, TypeOK
<1>4. PICK off : off = [i \in 1..1 |-> 0]
  OBVIOUS
<1>5. off \in [1..1 -> Nat] /\ off[1] = 0
  BY <1>4
<1>6. Layout(off, log)
  BY <1>1, <1>2, <1>5 DEF Layout
<1>7. FileInv(off, 0)
  BY <1>1, <1>2, <1>5 DEF FileInv, Stream
<1>8. DamageInv(off, 0) /\ ReplayInv(off) /\ AckedInv(off)
  BY <1>1, <1>2, <1>5 DEF DamageInv, ReplayInv, AckedInv
<1>9. Framed(off, 0)
  BY <1>6, <1>7, <1>8 DEF Framed
<1> QED
  BY <1>3, <1>9 DEF LogInv

LEMMA LogInvStep == LogInv /\ [Next]_vars => LogInv'
<1> SUFFICES ASSUME LogInv, [Next]_vars PROVE LogInv'
    OBVIOUS
<1>1. Types
  BY DEF LogInv
<1>2. PICK off, d : Framed(off, d)
  BY DEF LogInv
<1>3. ASSUME NEW n \in PayloadSizes, WalAppend(n) PROVE LogInv'
  BY <1>1, <1>2, <1>3, AppendStep
<1>4. CASE Sync \/ Close
  BY <1>1, <1>2, <1>4, SyncStep
<1>5. CASE FlushFails
  BY <1>1, <1>2, <1>5, FlushFailsStep
<1>6. CASE Kill \/ PowerLoss
  <2>1. synced \in 0..Len(file) /\ Len(file) \in Nat /\ synced \in Nat
    BY <1>1 DEF Types, TypeOK
  <2>2. PICK keep \in synced..Len(file) : Crash(keep) /\ synced' \in synced..keep
    <3>1. CASE Kill
      <4>1. Len(file) \in synced..Len(file) /\ synced \in synced..Len(file)
        BY <2>1
      <4> QED
        BY <3>1, <4>1 DEF Kill
    <3>2. CASE PowerLoss
      <4>1. PICK keep \in synced..Len(file) : Crash(keep) /\ synced' = keep
        BY <3>2 DEF PowerLoss
      <4>2. keep \in synced..keep
        BY <2>1
      <4> QED
        BY <4>1, <4>2
    <3> QED
      BY <1>6, <3>1, <3>2
  <2>3. keep \in Nat
    BY <2>1
  <2> QED
    BY <1>1, <1>2, <2>2, <2>3, CrashStep
<1>7. ASSUME NEW i \in 1..Len(file), Corrupt(i) PROVE LogInv'
  BY <1>1, <1>2, <1>7, CorruptStep
<1>8. CASE NewReader
  BY <1>1, <1>2, <1>8, NewReaderStep
<1>9. CASE ReplayRecord
  BY <1>1, <1>2, <1>9, ReplayRecordStep
<1>10. CASE ReplayEnd
  BY <1>1, <1>2, <1>10, ReplayEndStep
<1>11. CASE ReplayFails
  BY <1>1, <1>2, <1>11, ReplayFailsStep
<1>12. CASE UNCHANGED vars
  <2>1. UNCHANGED <<file, buf, synced, mode, pos, replayed, log, acked, damage, crashes, appended>>
    BY <1>12 DEF vars
  <2>2. Types'
    BY <1>1, <2>1 DEF Types, TypeOK
  <2>3. FileInv(off, d)' /\ ReplayInv(off)' /\ AckedInv(off)'
    BY <1>2, <2>1 DEF Framed, FileInv, ReplayInv, AckedInv
  <2>4. DamageInv(off, d)'
    BY <1>2, <2>1 DEF Framed, DamageInv, BadCell
  <2> QED
    BY <1>2, <2>1, <2>2, <2>3, <2>4 DEF LogInv, Framed
<1> QED
  BY <1>3, <1>4, <1>5, <1>6, <1>7, <1>8, <1>9, <1>10, <1>11, <1>12 DEF Next

LEMMA LogInvariant == Spec => []LogInv
BY LogInvInit, LogInvStep, PTL DEF Spec

(* A sequence whose elements begin another is a prefix of it.              *)
LEMMA BeginsAsPrefix ==
    ASSUME NEW s \in Seq(Payloads), NEW t \in Seq(Payloads),
           Len(s) <= Len(t), \A k \in 1..Len(s) : s[k] = t[k]
    PROVE  IsPrefix(s, t)
<1>1. PICK n \in Nat : n = Len(s) /\ n <= Len(t)
  OBVIOUS
<1>2. /\ \A i \in 1..n : s[i] \in Payloads /\ t[i] \in Payloads
      /\ 1 \in Int /\ n \in Int
  BY <1>1
<1>3. PICK u, v : u = SubSeq(s, 1, n) /\ v = SubSeq(t, 1, n)
  OBVIOUS
<1>4. /\ u \in Seq(Payloads) /\ Len(u) = (IF 1 <= n THEN n - 1 + 1 ELSE 0)
      /\ \A i \in 1..(n - 1 + 1) : u[i] = s[1 + i - 1]
  BY ONLY <1>2, <1>3, SubSeqProperties
<1>5. /\ v \in Seq(Payloads) /\ Len(v) = (IF 1 <= n THEN n - 1 + 1 ELSE 0)
      /\ \A i \in 1..(n - 1 + 1) : v[i] = t[1 + i - 1]
  BY ONLY <1>2, <1>3, SubSeqProperties
<1>6. n - 1 + 1 = n /\ (IF 1 <= n THEN n - 1 + 1 ELSE 0) = n /\ \A i \in 1..n : 1 + i - 1 = i
  BY <1>1
<1>7. Len(u) = Len(v) /\ \A i \in 1..Len(u) : u[i] = v[i]
  BY <1>1, <1>4, <1>5, <1>6
<1>8. u = v
  BY ONLY <1>4, <1>5, <1>7, SeqEqual
<1> QED
  BY <1>1, <1>3, <1>8 DEF IsPrefix

-----------------------------------------------------------------------------
(* THEOREMS *)

(* Every variable of the log keeps its type; the reader's valid offset and *)
(* the durable prefix stay within the file over every crash, trim, append. *)
THEOREM TypeCorrect == Spec => []TypeOK
<1>1. LogInv => TypeOK
  BY DEF LogInv, Types
<1> QED
  BY <1>1, LogInvariant, PTL

(* The log that Open continues holds every record whose Sync succeeded, in *)
(* order, after any number of crashes that cut the file at any cell behind *)
(* the last Sync, unless the storage changed a length.                     *)
THEOREM AckedRecordsSurvive == Spec => []AckedSurvive
<1>1. LogInv => AckedSurvive
  <2> SUFFICES ASSUME LogInv, mode = "open", damage # "length" PROVE IsPrefix(acked, log)
      BY DEF AckedSurvive
  <2>1. PICK off, d : Framed(off, d)
    BY DEF LogInv
  <2>2. Len(acked) <= Len(log) /\ \A k \in 1..Len(acked) : acked[k] = log[k]
    BY <2>1 DEF Framed, AckedInv
  <2>3. acked \in Seq(Payloads) /\ log \in Seq(Payloads)
    BY DEF LogInv, Types
  <2> QED
    BY <2>2, <2>3, BeginsAsPrefix
<1> QED
  BY <1>1, LogInvariant, PTL

(* Whatever a crash leaves of the file, replay takes it for a torn tail:   *)
(* Open is refused only after the storage damaged a cell.                  *)
THEOREM TearsNotCorruption == Spec => []TornNotCorrupt
<1>1. LogInv => TornNotCorrupt
  BY DEF LogInv, Framed, DamageInv, TornNotCorrupt
<1> QED
  BY <1>1, LogInvariant, PTL

(* Replay yields the appended payloads, unchanged and without a gap,       *)
(* whichever cell was damaged; an Open that succeeded has no damaged cell  *)
(* but a length behind it.                                                 *)
THEOREM ReplayYieldsPrefix == Spec => []ReplaysPrefix
<1>1. LogInv => ReplaysPrefix
  <2> SUFFICES ASSUME LogInv PROVE ReplaysPrefix
      OBVIOUS
  <2>1. PICK off, d : Framed(off, d)
    BY DEF LogInv
  <2>2. /\ Types /\ replayed \in Seq(Payloads) /\ log \in Seq(Payloads)
    BY DEF LogInv, Types
  <2>3. ASSUME mode = "replay" PROVE IsPrefix(replayed, log)
    <3>1. Len(replayed) <= Len(log) /\ \A k \in 1..Len(replayed) : replayed[k] = log[k]
      BY <2>1, <2>3 DEF Framed, ReplayInv
    <3> QED
      BY <2>2, <3>1, BeginsAsPrefix
  <2>4. ASSUME mode = "open", NEW i \in 1..Len(file) PROVE file[i].field # "bad"
    <3>1. i # d
      BY <2>1, <2>4, WriterClean
    <3>2. PICK j \in 1..Len(log) : \E c \in 1..(3 + Len(log[j])) : file[i] = Enc(log[j])[c]
      BY <2>1, <2>2, <3>1, CellOf
    <3>3. PICK c \in 1..(3 + Len(log[j])) : file[i] = Enc(log[j])[c]
      BY <3>2
    <3>4. log[j] \in Payloads
      BY <2>2
    <3> QED
      BY <3>3, <3>4, EncField
  <2> QED
    BY <2>3, <2>4 DEF ReplaysPrefix
<1> QED
  BY <1>1, LogInvariant, PTL

=============================================================================
