------------------------- MODULE ConnectServerProofs -------------------------
(***************************************************************************)
(* Theorems about ConnectServer, for every even number of values of a byte *)
(* from four on, all messages and any number of steps.                     *)
(***************************************************************************)
EXTENDS ConnectServer, SequenceTheorems, TLAPS

(***************************************************************************)
(* The length of a packet                                                  *)
(***************************************************************************)

LEMMA DivMod ==
    ASSUME NEW n \in Nat, NEW b \in Nat \ {0}
    PROVE  /\ n % b \in 0 .. b - 1 /\ n \div b \in Nat
           /\ n = b * (n \div b) + (n % b)
OBVIOUS

LEMMA TimesMonotone ==
    ASSUME NEW a \in Nat, NEW b \in Nat, NEW c \in Nat, b >= c
    PROVE  a * b >= a * c
<1>1. PICK d \in Nat : b = c + d
  <2>1. b = c + (b - c) /\ b - c \in Nat
    OBVIOUS
  <2> QED
    BY <2>1
<1>2. a * b = a * c + a * d /\ a * c \in Nat /\ a * d \in Nat
  BY <1>1
<1> QED
  BY <1>2

(* Two bytes take an even number of values, 16 or more. *)
LEMMA WordEven == \E h \in Nat : h >= 8 /\ Word = 2 * h
<1>1. PICK k \in Nat : Byte = 2 * k
  <2>1. Byte \in Nat /\ Byte % 2 = 0
    BY ByteAssumption
  <2>2. Byte = 2 * (Byte \div 2) /\ Byte \div 2 \in Nat
    BY <2>1
  <2> QED
    BY <2>2
<1>2. k >= 2 /\ Byte >= 4
  BY <1>1, ByteAssumption
<1>3. Word = 2 * (k * Byte)
  BY <1>1, ByteAssumption DEF Word
<1>4. k * Byte \in Nat /\ k * Byte >= 8
  BY <1>2, ByteAssumption
<1> QED
  BY <1>3, <1>4

(* The conversion to an int16 wraps: it yields an int16, and an int16 as it is. *)
LEMMA Int16Wraps ==
    /\ \A n \in Int : Int16(n) \in -(MaxInt16 + 1) .. MaxInt16
    /\ \A n \in Int : n \in -(MaxInt16 + 1) .. MaxInt16 => Int16(n) = n
<1>1. PICK h \in Nat : h >= 8 /\ Word = 2 * h
  BY WordEven
<1>2. MaxInt16 = h - 1
  BY <1>1 DEF MaxInt16
<1>3. \A n \in Int : n % Word \in 0 .. Word - 1
  <2> SUFFICES ASSUME NEW n \in Int, NEW w \in Nat \ {0} PROVE n % w \in 0 .. w - 1
    BY <1>1
  <2> QED
    OBVIOUS
<1>4. \A n \in Int : n \in -h .. h - 1 => n % Word = IF n >= 0 THEN n ELSE n + Word
  <2> SUFFICES ASSUME NEW n \in Int, NEW w \in Nat \ {0}, w = 2 * h, n \in -h .. h - 1
               PROVE  n % w = IF n >= 0 THEN n ELSE n + w
    BY <1>1
  <2> QED
    BY <1>1
<1>5. ASSUME NEW n \in Int PROVE Int16(n) \in -h .. h - 1
  <2>1. PICK r \in 0 .. 2 * h - 1 : r = n % Word
    BY <1>1, <1>3
  <2>2. Int16(n) = IF r <= h - 1 THEN r ELSE r - 2 * h
    BY ONLY <1>1, <1>2, <2>1 DEF Int16
  <2> QED
    BY ONLY <2>1, <2>2, <1>1
<1>6. ASSUME NEW n \in Int, n \in -h .. h - 1 PROVE Int16(n) = n
  <2>1. PICK r \in 0 .. 2 * h - 1 : r = n % Word
    BY <1>1, <1>3
  <2>2. Int16(n) = IF r <= h - 1 THEN r ELSE r - 2 * h
    BY <1>1, <1>2, <2>1 DEF Int16
  <2>3. r = IF n >= 0 THEN n ELSE n + 2 * h
    BY <1>1, <1>4, <1>6, <2>1
  <2> QED
    BY <2>1, <2>2, <2>3, <1>1, <1>6
<1> QED
  BY <1>2, <1>5, <1>6

(* Packet.Length counts a message that fits with its header. *)
LEMMA FittingLength ==
    ASSUME NEW size \in Nat, Fits(size)
    PROVE  GetPackageLength(size) = TcpHeaderLength + size
<1>1. MaxInt16 \in Nat
  BY WordEven DEF MaxInt16
<1>2. Int16(size) = size /\ Int16(TcpHeaderLength + size) = TcpHeaderLength + size
  BY <1>1, Int16Wraps DEF Fits, TcpHeaderLength
<1> QED
  BY <1>2 DEF GetPackageLength

(* What is read from the two bytes of a length is the length that was written. *)
LEMMA LengthReadBack ==
    ASSUME NEW x \in -(MaxInt16 + 1) .. MaxInt16
    PROVE  /\ PutInt16(x) \in (0 .. Byte - 1) \X (0 .. Byte - 1)
           /\ GetInt16(PutInt16(x)[1], PutInt16(x)[2]) = x
<1>1. PICK h \in Nat : h >= 8 /\ Word = 2 * h
  BY WordEven
<1>2. MaxInt16 = h - 1 /\ x \in Int
  BY <1>1 DEF MaxInt16
<1>3. PICK r \in Nat : r < Word /\ r = x % Word /\ r = IF x >= 0 THEN x ELSE x + Word
  BY <1>1, <1>2
<1> DEFINE hi == r \div Byte
           lo == r % Byte
<1>4. lo \in 0 .. Byte - 1 /\ hi \in Nat /\ r = Byte * hi + lo
  <2>1. Byte \in Nat \ {0}
    BY ByteAssumption
  <2> QED
    BY ONLY <1>3, <2>1, DivMod
<1> HIDE DEF hi, lo
<1>5. hi < Byte
  <2> SUFFICES ASSUME hi >= Byte PROVE FALSE
    BY <1>4, ByteAssumption
  <2>1. Byte * hi >= Byte * Byte
    BY <1>4, TimesMonotone, ByteAssumption
  <2> QED
    BY <1>3, <1>4, <2>1, ByteAssumption DEF Word
<1>6. r % Word = r
  BY <1>1, <1>3
<1>7. GetInt16(hi, lo) = x
  BY <1>1, <1>2, <1>3, <1>4, <1>6 DEF GetInt16, Int16
<1> QED
  BY <1>3, <1>4, <1>5, <1>7, ByteAssumption DEF PutInt16, hi, lo
-----------------------------------------------------------------------------
(***************************************************************************)
(* What is on the wire                                                     *)
(***************************************************************************)

WireByte == {<<"v", 0>>, <<"1", 0>>} \cup ({"length"} \X (0 .. Byte - 1)) \cup ({"msg"} \X Messages)

TcpTypeOK ==
    /\ sent \in Seq(Messages) /\ net \in Seq(WireByte) /\ buf \in Seq(WireByte)
    /\ conn \in {"open", "eof", "closed"}
    /\ cur \in Messages \cup {Tcp!Garbage}

(* Two bytes that PutInt16 has made of the length of a message of that size. *)
Written(x, y, size) ==
    LET l == PutInt16(GetPackageLength(size)) IN x = <<"length", l[1]>> /\ y = <<"length", l[2]>>

(* After every byte that starts a packet comes the length of a message that was sent, unless
   the client has stopped in between. *)
Headers(s) ==
    \A i \in DOMAIN s : s[i][1] = "v" =>
        \/ conn # "open" /\ i + 3 > Len(s)
        \/ i + 3 <= Len(s) /\ \E j \in DOMAIN sent : Written(s[i + 2], s[i + 3], sent[j].size)

StreamInv == TcpTypeOK /\ Headers(buf \o net) /\ Tcp!OnlyLongPanics

(* TcpReader has the definitions of StickPackage through INSTANCE. *)
LEMMA SamePackage ==
    /\ Tcp!TcpHeaderLength = TcpHeaderLength
    /\ \A n : Tcp!PutInt16(n) = PutInt16(n) /\ Tcp!GetPackageLength(n) = GetPackageLength(n)
    /\ \A n : Tcp!Fits(n) = Fits(n)
    /\ \A n, k : Tcp!GetInt16(n, k) = GetInt16(n, k)
BY DEF Tcp!TcpHeaderLength, TcpHeaderLength, Tcp!PutInt16, PutInt16, Tcp!GetPackageLength, GetPackageLength,
       Tcp!Fits, Fits, Tcp!GetInt16, GetInt16, Tcp!Int16, Int16, Tcp!Word, Word, Tcp!MaxInt16, MaxInt16

LEMMA PackageLengthIsInt16 ==
    ASSUME NEW size \in Nat
    PROVE  GetPackageLength(size) \in -(MaxInt16 + 1) .. MaxInt16
<1>1. MaxInt16 \in Nat
  BY WordEven DEF MaxInt16
<1>2. Int16(size) \in Int
  BY <1>1, Int16Wraps
<1> QED
  BY <1>1, <1>2, Int16Wraps DEF GetPackageLength, TcpHeaderLength

(* The bytes of a packet that fits: its header and, behind it, its message. *)
LEMMA PackShape ==
    ASSUME NEW m \in Messages
    PROVE  /\ Tcp!Pack(m) \in Seq(WireByte)
           /\ Len(Tcp!Pack(m)) >= 4
           /\ Written(Tcp!Pack(m)[3], Tcp!Pack(m)[4], m.size)
           /\ \A i \in DOMAIN Tcp!Pack(m) : Tcp!Pack(m)[i][1] = "v" => i = 1
           /\ Len(Tcp!Pack(m)) = 4 + m.size
           /\ \A i \in 5 .. 4 + m.size : Tcp!Pack(m)[i] = <<"msg", m>>
<1> DEFINE l == PutInt16(GetPackageLength(m.size))
           head == <<<<"v", 0>>, <<"1", 0>>, <<"length", l[1]>>, <<"length", l[2]>>>>
           body == [i \in 1 .. m.size |-> <<"msg", m>>]
<1>1. m.size \in Nat
  BY MessagesAssumption DEF Tcp!IsMessage
<1>2. l \in (0 .. Byte - 1) \X (0 .. Byte - 1)
  BY <1>1, PackageLengthIsInt16, LengthReadBack
<1>3. Tcp!Pack(m) = head \o body
  BY SamePackage DEF Tcp!Pack
<1> HIDE DEF l
<1>4. head \in Seq(WireByte) /\ Len(head) = 4
  BY <1>2 DEF WireByte
<1>5. body \in Seq(WireByte) /\ Len(body) = m.size
  BY <1>1 DEF WireByte
<1>6. Written(head[3], head[4], m.size)
  BY DEF Written, l
<1>7. \A i \in 1 .. 4 : head[i][1] = "v" => i = 1
  OBVIOUS
<1>8. \A i \in 1 .. m.size : body[i] = <<"msg", m>>
  OBVIOUS
<1> HIDE DEF head, body
<1> DEFINE pack == head \o body
<1>9. /\ pack \in Seq(WireByte) /\ Len(pack) = 4 + m.size
      /\ \A i \in 1 .. 4 : pack[i] = head[i]
      /\ \A i \in 5 .. 4 + m.size : pack[i] = body[i - 4]
  <2>1. /\ pack \in Seq(WireByte) /\ Len(pack) = Len(head) + Len(body)
        /\ \A i \in 1 .. Len(head) + Len(body) :
              pack[i] = IF i <= Len(head) THEN head[i] ELSE body[i - Len(head)]
    BY <1>4, <1>5, ConcatProperties
  <2> QED
    BY <1>1, <1>4, <1>5, <2>1
<1> HIDE DEF pack
<1>10. ASSUME NEW i \in DOMAIN pack, pack[i][1] = "v" PROVE i = 1
  <2>1. CASE i \in 1 .. 4
    BY <1>7, <1>9, <1>10, <2>1
  <2>2. CASE i \in 5 .. 4 + m.size
    <3>1. pack[i] = <<"msg", m>>
      <4>1. i - 4 \in 1 .. m.size
        BY <1>1, <2>2
      <4> QED
        BY <1>8, <1>9, <2>2, <4>1
    <3> QED
      BY <1>10, <3>1
  <2> QED
    BY <1>1, <1>9, <2>1, <2>2, SMTT(20)
<1>11. \A i \in 5 .. 4 + m.size : pack[i] = <<"msg", m>>
  <2> SUFFICES ASSUME NEW i \in 5 .. 4 + m.size PROVE pack[i] = <<"msg", m>>
    OBVIOUS
  <2>1. i - 4 \in 1 .. m.size
    BY <1>1
  <2> QED
    BY <1>8, <1>9, <2>1
<1>12. Written(pack[3], pack[4], m.size) /\ Len(pack) >= 4
  BY <1>1, <1>6, <1>9
<1>13. Tcp!Pack(m) = pack
  BY <1>3 DEF pack
<1> QED
  BY <1>9, <1>10, <1>11, <1>12, <1>13

(* A token whose length is that of a packet is read back. *)
LEMMA TokenLength ==
    ASSUME TcpTypeOK, Headers(buf \o net), Tcp!TokenReady
    PROVE  \E j \in DOMAIN sent : Tcp!Length = GetPackageLength(sent[j].size) /\ sent[j].size \in Nat
<1> DEFINE s == buf \o net
<1>1. /\ Len(buf) > 4 /\ buf[1][1] = "v" /\ Len(s) = Len(buf) + Len(net)
      /\ s[1] = buf[1] /\ s[3] = buf[3] /\ s[4] = buf[4] /\ s \in Seq(WireByte)
  <2>1. /\ s \in Seq(WireByte) /\ Len(s) = Len(buf) + Len(net)
        /\ \A i \in 1 .. Len(buf) + Len(net) : s[i] = IF i <= Len(buf) THEN buf[i] ELSE net[i - Len(buf)]
    BY ConcatProperties DEF TcpTypeOK
  <2>2. Len(buf) > 4 /\ buf[1][1] = "v"
    BY DEF Tcp!TokenReady, Tcp!TcpHeaderLength
  <2>3. Len(buf) \in Nat /\ Len(net) \in Nat
    BY DEF TcpTypeOK
  <2> HIDE DEF s
  <2> QED
    BY <2>1, <2>2, <2>3
<1>2. Len(buf) \in Nat /\ Len(net) \in Nat
  BY DEF TcpTypeOK
<1> HIDE DEF s
<1>3. PICK j \in DOMAIN sent : Written(s[3], s[4], sent[j].size)
  <2>1. 1 \in DOMAIN s /\ ~(1 + 3 > Len(s))
    BY <1>1, <1>2
  <2>2. Headers(s)
    BY DEF s
  <2> QED
    BY <1>1, <2>1, <2>2 DEF Headers
<1>4. sent[j].size \in Nat
  BY MessagesAssumption DEF TcpTypeOK, Tcp!IsMessage
<1> DEFINE x == GetPackageLength(sent[j].size)
<1>5. GetInt16(PutInt16(x)[1], PutInt16(x)[2]) = x
  BY <1>4, PackageLengthIsInt16, LengthReadBack
<1>6. s[3] = <<"length", PutInt16(x)[1]>> /\ s[4] = <<"length", PutInt16(x)[2]>>
  BY <1>3 DEF Written
<1> HIDE DEF x
<1>7. Tcp!Length = x
  BY <1>1, <1>5, <1>6, SamePackage DEF Tcp!Length
<1> QED
  BY <1>4, <1>7 DEF x

(* Taking a packet out of the buffer, or dropping the rest of the input, leaves a stream
   with headers. *)
LEMMA HeadersOfSuffix ==
    ASSUME NEW s \in Seq(WireByte), NEW k \in 0 .. Len(s), Headers(s)
    PROVE  Headers(SubSeq(s, k + 1, Len(s)))
<1> DEFINE t == SubSeq(s, k + 1, Len(s))
<1>1. Len(t) = Len(s) - k /\ \A i \in 1 .. Len(s) - k : t[i] = s[i + k]
  OBVIOUS
<1>2. Len(s) \in Nat /\ k \in Nat /\ DOMAIN s = 1 .. Len(s) /\ DOMAIN t = 1 .. Len(s) - k
  BY <1>1
<1> HIDE DEF t
<1> SUFFICES ASSUME NEW i \in 1 .. Len(s) - k, t[i][1] = "v"
             PROVE  \/ conn # "open" /\ i + 3 > Len(t)
                    \/ /\ i + 3 <= Len(t)
                       /\ \E j \in DOMAIN sent : Written(t[i + 2], t[i + 3], sent[j].size)
  BY <1>2 DEF Headers, t
<1>3. s[i + k][1] = "v" /\ i + k \in DOMAIN s
  BY <1>1, <1>2
<1>4. CASE i + k + 3 > Len(s)
  BY <1>1, <1>2, <1>3, <1>4 DEF Headers
<1>5. CASE i + k + 3 <= Len(s)
  <2>1. PICK j \in DOMAIN sent : Written(s[i + k + 2], s[i + k + 3], sent[j].size)
    BY <1>2, <1>3, <1>5, SMTT(20) DEF Headers
  <2>2. i + 2 \in 1 .. Len(s) - k /\ i + 3 \in 1 .. Len(s) - k
    BY <1>2, <1>5
  <2>3. t[i + 2] = s[i + k + 2] /\ t[i + 3] = s[i + k + 3]
    <3>1. t[i + 2] = s[(i + 2) + k] /\ t[i + 3] = s[(i + 3) + k]
      BY <1>1, <2>2
    <3>2. (i + 2) + k = i + k + 2 /\ (i + 3) + k = i + k + 3
      BY <1>2
    <3> QED
      BY <3>1, <3>2
  <2> QED
    BY <1>1, <1>2, <1>5, <2>1, <2>3
<1> QED
  BY <1>2, <1>4, <1>5

LEMMA RestAt ==
    ASSUME NEW S, NEW u \in Seq(S), NEW k \in 0 .. Len(u), NEW i \in 1 .. Len(u) - k
    PROVE  SubSeq(u, k + 1, Len(u))[i] = u[k + i]
OBVIOUS

(* The rest of two parts laid together is the rest of the first and all of the second. *)
LEMMA SuffixOfConcat ==
    ASSUME NEW S, NEW s \in Seq(S), NEW t \in Seq(S), NEW k \in 0 .. Len(s)
    PROVE  SubSeq(s, k + 1, Len(s)) \o t = SubSeq(s \o t, k + 1, Len(s) + Len(t))
<1> DEFINE a == SubSeq(s, k + 1, Len(s)) \o t
           b == SubSeq(s \o t, k + 1, Len(s) + Len(t))
<1>1. /\ a \in Seq(S) /\ b \in Seq(S)
      /\ Len(a) = Len(s) + Len(t) - k /\ Len(b) = Len(s) + Len(t) - k
  OBVIOUS
<1>2. ASSUME NEW i \in 1 .. Len(s) + Len(t) - k PROVE b[i] = (s \o t)[k + i]
  <2>1. s \o t \in Seq(S) /\ Len(s \o t) = Len(s) + Len(t)
    OBVIOUS
  <2> PICK u \in Seq(S) : u = s \o t /\ Len(u) = Len(s) + Len(t)
    BY <2>1
  <2>2. k \in 0 .. Len(u) /\ i \in 1 .. Len(u) - k
    OBVIOUS
  <2>3. SubSeq(u, k + 1, Len(u))[i] = u[k + i]
    BY <2>2, RestAt
  <2> QED
    BY <2>3
<1>3. ASSUME NEW i \in 1 .. Len(s) - k PROVE a[i] = b[i]
  <2>1. a[i] = s[k + i]
    BY SMTT(20)
  <2>2. (s \o t)[k + i] = s[k + i]
    OBVIOUS
  <2> QED
    BY <1>2, <2>1, <2>2
<1>4. ASSUME NEW i \in Len(s) - k + 1 .. Len(s) + Len(t) - k PROVE a[i] = b[i]
  <2>1. a[i] = t[i - (Len(s) - k)]
    OBVIOUS
  <2>2. (s \o t)[k + i] = t[(k + i) - Len(s)]
    OBVIOUS
  <2>3. (k + i) - Len(s) = i - (Len(s) - k)
    OBVIOUS
  <2> QED
    BY <1>2, <2>1, <2>2, <2>3
<1> HIDE DEF a, b
<1>5. \A i \in 1 .. Len(a) : a[i] = b[i]
  BY <1>1, <1>3, <1>4
<1>6. a = b
  BY <1>1, <1>5, SeqEqual
<1> QED
  BY <1>6 DEF a, b

LEMMA WireAssociative ==
    \A s, t, u \in Seq(WireByte) : (s \o t) \o u = s \o (t \o u)
BY ConcatAssociative

LEMMA WireSuffix ==
    \A s, t \in Seq(WireByte) : \A k \in 0 .. Len(s) :
        SubSeq(s, k + 1, Len(s)) \o t = SubSeq(s \o t, k + 1, Len(s) + Len(t))
BY SuffixOfConcat

(* The invariant survives every step that leaves the bytes alone and does not reopen the
   connection. *)
LEMMA StreamKept ==
    ASSUME StreamInv, UNCHANGED <<sent, net, buf, panicked>>,
           conn' \in {conn, "eof", "closed"}, cur' = cur
    PROVE  StreamInv'
<1>1. conn # "open" => conn' # "open"
  OBVIOUS
<1>2. TcpTypeOK'
  BY DEF StreamInv, TcpTypeOK, WireByte, Tcp!Garbage
<1>3. Headers(buf \o net)'
  BY <1>1 DEF StreamInv, Headers, Written
<1>4. Tcp!OnlyLongPanics'
  BY DEF StreamInv, Tcp!OnlyLongPanics, Tcp!Fits, Tcp!TcpHeaderLength, Tcp!MaxInt16, Tcp!Word
<1> QED
  BY <1>2, <1>3, <1>4 DEF StreamInv

(* A packet that is sent goes behind the others on the wire. *)
LEMMA SendKeeps ==
    ASSUME StreamInv, NEW m \in Messages, Tcp!Send(m)
    PROVE  StreamInv'
<1> DEFINE p == Tcp!Pack(m)
           s == buf \o net
           t == s \o p
<1>1. /\ conn = "open" /\ conn' = conn /\ cur' = cur /\ panicked' = panicked
      /\ sent' = Append(sent, m) /\ net' = net \o p /\ buf' = buf
  BY DEF Tcp!Send, Tcp!reader, Tcp!hist, Tcp!proc
<1>2. /\ p \in Seq(WireByte) /\ Len(p) >= 4 /\ Written(p[3], p[4], m.size)
      /\ \A i \in DOMAIN p : p[i][1] = "v" => i = 1
  BY PackShape
<1> HIDE DEF p
<1>3. sent \in Seq(Messages) /\ net \in Seq(WireByte) /\ buf \in Seq(WireByte)
  BY DEF StreamInv, TcpTypeOK
<1>4. TcpTypeOK'
  <2>1. sent' \in Seq(Messages)
    BY <1>1, <1>3, AppendProperties
  <2>2. net' \in Seq(WireByte)
    BY <1>1, <1>2, <1>3, ConcatProperties
  <2> QED
    BY <1>1, <2>1, <2>2 DEF StreamInv, TcpTypeOK, WireByte, Tcp!Garbage
<1>5. \A j \in DOMAIN sent : j \in DOMAIN sent' /\ sent'[j] = sent[j]
  BY <1>1, <1>3, AppendProperties
<1>6. Len(sent) + 1 \in DOMAIN sent' /\ sent'[Len(sent) + 1] = m
  BY <1>1, <1>3, AppendProperties
<1>7. (buf \o net)' = t
  <2>1. (buf \o net) \o p = buf \o (net \o p)
    BY <1>2, <1>3, WireAssociative
  <2> QED
    BY <1>1, <2>1, Zenon
<1>8. /\ s \in Seq(WireByte) /\ t \in Seq(WireByte) /\ Len(t) = Len(s) + Len(p)
      /\ \A i \in 1 .. Len(s) + Len(p) : t[i] = IF i <= Len(s) THEN s[i] ELSE p[i - Len(s)]
  BY <1>2, <1>3, ConcatProperties
<1>9. Len(s) \in Nat /\ Len(p) \in Nat /\ DOMAIN s = 1 .. Len(s) /\ DOMAIN t = 1 .. Len(t) /\ DOMAIN p = 1 .. Len(p)
  BY <1>2, <1>8
<1>10. Headers(s)
  BY DEF StreamInv
<1> HIDE DEF s, t
<1>11. ASSUME NEW i \in DOMAIN t, t[i][1] = "v"
       PROVE  i + 3 <= Len(t) /\ \E j \in DOMAIN sent' : Written(t[i + 2], t[i + 3], sent'[j].size)
  <2>1. CASE i <= Len(s)
    <3>1. i \in DOMAIN s /\ s[i][1] = "v"
      BY <1>8, <1>9, <1>11, <2>1
    <3>2. PICK j \in DOMAIN sent : i + 3 <= Len(s) /\ Written(s[i + 2], s[i + 3], sent[j].size)
      BY <1>1, <1>10, <3>1 DEF Headers
    <3>3. i + 2 \in 1 .. Len(s) /\ i + 3 \in 1 .. Len(s)
      BY <1>9, <3>1, <3>2
    <3>4. t[i + 2] = s[i + 2] /\ t[i + 3] = s[i + 3]
      BY <1>8, <1>9, <3>3
    <3> QED
      BY <1>5, <1>8, <1>9, <3>1, <3>2, <3>4
  <2>2. CASE i > Len(s)
    <3>1. i - Len(s) \in DOMAIN p /\ t[i] = p[i - Len(s)]
      BY <1>8, <1>9, <1>11, <2>2
    <3>2. i = Len(s) + 1
      BY <1>2, <1>9, <1>11, <3>1
    <3>3. Len(s) + 3 \in 1 .. Len(s) + Len(p) /\ Len(s) + 4 \in 1 .. Len(s) + Len(p)
      BY <1>2, <1>9
    <3>4. t[Len(s) + 3] = p[(Len(s) + 3) - Len(s)] /\ t[Len(s) + 4] = p[(Len(s) + 4) - Len(s)]
      BY <1>8, <1>9, <3>3
    <3>5. (Len(s) + 3) - Len(s) = 3 /\ (Len(s) + 4) - Len(s) = 4 /\ i + 2 = Len(s) + 3 /\ i + 3 = Len(s) + 4
      BY <1>9, <3>2
    <3>6. Written(t[i + 2], t[i + 3], m.size)
      BY <1>2, <3>4, <3>5
    <3> QED
      BY <1>2, <1>6, <1>8, <1>9, <3>2, <3>6
  <2> QED
    BY <1>9, <1>11, <2>1, <2>2
<1>12. Headers(buf \o net)'
  BY <1>7, <1>11 DEF Headers, Written
<1>13. Tcp!OnlyLongPanics'
  BY <1>1, <1>5 DEF StreamInv, Tcp!OnlyLongPanics, Tcp!Fits, Tcp!TcpHeaderLength, Tcp!MaxInt16, Tcp!Word
<1> QED
  BY <1>4, <1>12, <1>13 DEF StreamInv

(* What is read moves from the wire to the end of the buffer. *)
LEMMA ReadMoves ==
    ASSUME TcpTypeOK, NEW k \in Nat, Tcp!Read(k)
    PROVE  (buf \o net)' = buf \o net /\ buf' \in Seq(WireByte) /\ net' \in Seq(WireByte)
<1> DEFINE fst == SubSeq(net, 1, k)
           snd == SubSeq(net, k + 1, Len(net))
<1>1. /\ k <= Len(net) /\ buf' = buf \o fst /\ net' = snd
      /\ UNCHANGED <<sent, conn, cur, panicked>>
  BY DEF Tcp!Read, Tcp!reader, Tcp!hist, Tcp!proc
<1>2. net \in Seq(WireByte) /\ buf \in Seq(WireByte)
  BY DEF TcpTypeOK
<1>3. fst \in Seq(WireByte) /\ snd \in Seq(WireByte)
  <2>1. k + 1 \in Int /\ Len(net) \in Int /\ \A i \in 1 .. Len(net) : net[i] \in WireByte
    BY <1>2
  <2>2. (\A i \in 1 .. k : net[i] \in WireByte) /\ \A i \in k + 1 .. Len(net) : net[i] \in WireByte
    BY <1>1, <2>1
  <2> QED
    BY <2>1, <2>2, SubSeqProperties
<1>4. fst \o snd = net
  <2>1. SubSeq(net, 1, k) \o SubSeq(net, k + 1, Len(net)) = SubSeq(net, 1, Len(net))
    <3>1. 1 \in 1 .. Len(net) + 1 /\ k \in 1 - 1 .. Len(net) /\ Len(net) \in k .. Len(net)
      BY <1>1, <1>2
    <3> QED
      BY <1>2, <3>1, ConcatAdjacentSubSeq
  <2> QED
    BY <1>2, <2>1, SubSeqFull
<1> HIDE DEF fst, snd
<1>5. (buf \o net)' = buf \o net
  <2>1. (buf \o fst) \o snd = buf \o (fst \o snd)
    BY <1>2, <1>3, WireAssociative
  <2> QED
    BY <1>1, <1>4, <2>1, Zenon
<1>6. buf' \in Seq(WireByte)
  BY <1>1, <1>2, <1>3, ConcatProperties
<1> QED
  BY <1>1, <1>3, <1>5, <1>6

LEMMA ReadKeeps ==
    ASSUME StreamInv, NEW k \in Nat, Tcp!Read(k)
    PROVE  StreamInv'
<1>1. UNCHANGED <<sent, conn, cur, panicked>>
  BY DEF Tcp!Read, Tcp!reader, Tcp!hist, Tcp!proc
<1>2. (buf \o net)' = buf \o net /\ buf' \in Seq(WireByte) /\ net' \in Seq(WireByte)
  BY ReadMoves DEF StreamInv
<1>3. TcpTypeOK'
  BY <1>1, <1>2 DEF StreamInv, TcpTypeOK, WireByte, Tcp!Garbage
<1>4. Headers(buf \o net)'
  BY <1>1, <1>2 DEF StreamInv, Headers, Written
<1>5. Tcp!OnlyLongPanics'
  BY <1>1 DEF StreamInv, Tcp!OnlyLongPanics, Tcp!Fits, Tcp!TcpHeaderLength, Tcp!MaxInt16, Tcp!Word
<1> QED
  BY <1>3, <1>4, <1>5 DEF StreamInv

LEMMA DecodeYields ==
    ASSUME NEW msg \in Seq(WireByte)
    PROVE  Tcp!Decode(msg) \in Messages \cup {Tcp!Garbage}
<1>1. msg # <<>> => msg[1] \in WireByte
  OBVIOUS
<1> QED
  BY <1>1 DEF Tcp!Decode, WireByte

(* What remains when a token is taken out of the buffer: a suffix of the stream. *)
LEMMA TokenRest ==
    ASSUME TcpTypeOK, Tcp!TokenReady, NEW n \in Int, n = Tcp!Length, n >= 4,
           buf' = SubSeq(buf, n + 1, Len(buf)), net' = net
    PROVE  /\ n \in 4 .. Len(buf) /\ Len(buf) \in Nat /\ Len(net) \in Nat
           /\ (buf \o net)' = SubSeq(buf \o net, n + 1, Len(buf \o net))
           /\ Len(buf \o net) = Len(buf) + Len(net) /\ buf \o net \in Seq(WireByte)
           /\ \A i \in 1 .. Len(buf) : (buf \o net)[i] = buf[i]
<1> DEFINE s == buf \o net
<1>1. net \in Seq(WireByte) /\ buf \in Seq(WireByte)
  BY DEF TcpTypeOK
<1>2. n \in 4 .. Len(buf) /\ Len(buf) \in Nat /\ Len(net) \in Nat
  BY <1>1 DEF Tcp!TokenReady
<1>3. s \in Seq(WireByte) /\ Len(s) = Len(buf) + Len(net)
  BY <1>1, ConcatProperties
<1>4. (buf \o net)' = SubSeq(s, n + 1, Len(s))
  <2>1. SubSeq(buf, n + 1, Len(buf)) \o net = SubSeq(buf \o net, n + 1, Len(buf) + Len(net))
    <3>1. n \in 0 .. Len(buf)
      BY <1>2
    <3> QED
      BY <1>1, <3>1, WireSuffix
  <2> QED
    BY <1>3, <2>1
<1>5. \A i \in 1 .. Len(buf) : s[i] = buf[i]
  <2>1. \A i \in 1 .. Len(buf) + Len(net) : s[i] = IF i <= Len(buf) THEN buf[i] ELSE net[i - Len(buf)]
    BY <1>1, ConcatProperties
  <2>2. \A i \in 1 .. Len(buf) : i \in 1 .. Len(buf) + Len(net) /\ i <= Len(buf)
    BY <1>2
  <2> QED
    BY <2>1, <2>2
<1> QED
  BY <1>2, <1>3, <1>4, <1>5

LEMMA TokenKeeps ==
    ASSUME StreamInv, Tcp!Token
    PROVE  StreamInv'
<1>1. PICK j \in DOMAIN sent : Tcp!Length = GetPackageLength(sent[j].size) /\ sent[j].size \in Nat
  BY TokenLength DEF StreamInv, Tcp!Token
<1>2. Tcp!TokenReady /\ UNCHANGED <<sent, net, conn>>
  BY DEF Tcp!Token
<1>3. sent \in Seq(Messages) /\ net \in Seq(WireByte) /\ buf \in Seq(WireByte)
  BY DEF StreamInv, TcpTypeOK
<1>4. CASE Tcp!Length < Tcp!TcpHeaderLength
  <2>1. UNCHANGED <<buf, cur>>
    BY <1>4 DEF Tcp!Token
  <2>2. ~Fits(sent[j].size)
    BY <1>1, <1>4, FittingLength DEF TcpHeaderLength, Tcp!TcpHeaderLength
  <2>3. Tcp!OnlyLongPanics'
    BY <1>2, <2>2, SamePackage DEF Tcp!OnlyLongPanics
  <2>4. TcpTypeOK'
    BY <1>2, <2>1 DEF StreamInv, TcpTypeOK, WireByte, Tcp!Garbage
  <2>5. Headers(buf \o net)'
    BY <1>2, <2>1 DEF StreamInv, Headers, Written
  <2> QED
    BY <2>3, <2>4, <2>5 DEF StreamInv
<1>5. CASE ~(Tcp!Length < Tcp!TcpHeaderLength)
  <2> DEFINE n == Tcp!Length
             msg == SubSeq(buf, Tcp!TcpHeaderLength + 1, n)
             s == buf \o net
  <2>1. buf' = SubSeq(buf, n + 1, Len(buf)) /\ cur' = Tcp!Decode(msg) /\ panicked' = panicked
    BY <1>5 DEF Tcp!Token, Tcp!proc
  <2>2. n \in Int
    <3>1. GetPackageLength(sent[j].size) \in -(MaxInt16 + 1) .. MaxInt16 /\ MaxInt16 \in Nat
      BY <1>1, PackageLengthIsInt16, WordEven DEF MaxInt16
    <3> QED
      BY <1>1, <3>1
  <2>3. n \in 4 .. Len(buf) /\ Len(buf) \in Nat /\ Len(net) \in Nat
    BY <1>2, <1>3, <1>5, <2>2 DEF Tcp!TokenReady, Tcp!TcpHeaderLength
  <2> HIDE DEF n
  <2>4. msg \in Seq(WireByte)
    <3>1. \A i \in 5 .. n : buf[i] \in WireByte
      BY <1>3, <2>3
    <3>2. SubSeq(buf, 5, n) \in Seq(WireByte)
      BY <2>2, <3>1, SubSeqProperties
    <3> QED
      BY <3>2 DEF Tcp!TcpHeaderLength
  <2>5. buf' \in Seq(WireByte)
    <3>1. n + 1 \in Int /\ Len(buf) \in Int /\ \A i \in n + 1 .. Len(buf) : buf[i] \in WireByte
      BY <1>3, <2>3
    <3> QED
      BY <2>1, <3>1, SubSeqProperties
  <2>6. TcpTypeOK'
    <3>1. cur' \in Messages \cup {Tcp!Garbage}
      BY <2>1, <2>4, DecodeYields
    <3> QED
      BY <1>2, <2>5, <3>1 DEF StreamInv, TcpTypeOK, WireByte, Tcp!Garbage
  <2>7. s \in Seq(WireByte) /\ Len(s) = Len(buf) + Len(net) /\ (buf \o net)' = SubSeq(s, n + 1, Len(s))
    <3>1. n >= 4 /\ TcpTypeOK /\ net' = net /\ n = Tcp!Length
      BY <1>2, <2>3 DEF StreamInv, n
    <3> QED
      BY <1>2, <2>1, <2>2, <3>1, TokenRest DEF s
  <2>8. (buf \o net)' = SubSeq(s, n + 1, Len(s))
    BY <2>7
  <2> HIDE DEF s
  <2>9. Headers(SubSeq(s, n + 1, Len(s)))
    <3>1. n \in 0 .. Len(s)
      BY <2>3, <2>7
    <3> QED
      BY <2>7, <3>1, HeadersOfSuffix DEF StreamInv, s
  <2>10. Headers(buf \o net)'
    BY <1>2, <2>8, <2>9 DEF Headers, Written
  <2>11. Tcp!OnlyLongPanics'
    BY <1>2, <2>1 DEF StreamInv, Tcp!OnlyLongPanics, Tcp!Fits, Tcp!TcpHeaderLength, Tcp!MaxInt16, Tcp!Word
  <2> QED
    BY <2>6, <2>10, <2>11 DEF StreamInv
<1> QED
  BY <1>4, <1>5

(* The rest of the input is dropped: packets that were cut are not completed. *)
LEMMA EOFKeeps ==
    ASSUME StreamInv, Tcp!ScanEOF
    PROVE  StreamInv'
<1> DEFINE s == buf \o net
<1>1. conn = "eof" /\ net' = <<>> /\ UNCHANGED <<sent, buf, conn, cur, panicked>>
  BY DEF Tcp!ScanEOF, Tcp!hist, Tcp!proc
<1>2. net \in Seq(WireByte) /\ buf \in Seq(WireByte) /\ <<>> \in Seq(WireByte)
  BY DEF StreamInv, TcpTypeOK
<1>3. (buf \o net)' = buf
  BY <1>1, <1>2, ConcatEmptySeq
<1>4. /\ Len(s) = Len(buf) + Len(net) /\ s \in Seq(WireByte)
      /\ \A i \in 1 .. Len(buf) + Len(net) : s[i] = IF i <= Len(buf) THEN buf[i] ELSE net[i - Len(buf)]
  BY <1>2, ConcatProperties
<1>5. Len(buf) \in Nat /\ Len(net) \in Nat
  BY <1>2
<1>6. Headers(s)
  BY DEF StreamInv
<1> HIDE DEF s
<1>7. Headers(buf)
  <2> SUFFICES ASSUME NEW i \in 1 .. Len(buf), buf[i][1] = "v"
               PROVE  \/ conn # "open" /\ i + 3 > Len(buf)
                      \/ /\ i + 3 <= Len(buf)
                         /\ \E j \in DOMAIN sent : Written(buf[i + 2], buf[i + 3], sent[j].size)
    BY <1>2 DEF Headers
  <2>1. CASE i + 3 > Len(buf)
    BY <1>1, <2>1
  <2>2. CASE i + 3 <= Len(buf)
    <3>1. i \in DOMAIN s /\ s[i] = buf[i] /\ i + 3 <= Len(s)
      BY <1>4, <1>5, <2>2
    <3>2. i + 2 \in 1 .. Len(buf) /\ i + 3 \in 1 .. Len(buf)
      BY <1>5, <2>2
    <3>3. s[i + 2] = buf[i + 2] /\ s[i + 3] = buf[i + 3]
      BY <1>4, <1>5, <3>2
    <3>4. ~(i + 3 > Len(s))
      BY <1>4, <1>5, <3>1
    <3> QED
      BY <1>6, <2>2, <3>1, <3>3, <3>4 DEF Headers
  <2> QED
    BY <1>5, <2>1, <2>2
<1>8. Headers(buf \o net)'
  BY <1>1, <1>3, <1>7 DEF Headers, Written
<1>9. TcpTypeOK'
  BY <1>1, <1>2 DEF StreamInv, TcpTypeOK, WireByte, Tcp!Garbage
<1>10. Tcp!OnlyLongPanics'
  BY <1>1 DEF StreamInv, Tcp!OnlyLongPanics, Tcp!Fits, Tcp!TcpHeaderLength, Tcp!MaxInt16, Tcp!Word
<1> QED
  BY <1>8, <1>9, <1>10 DEF StreamInv

LEMMA StreamStep == StreamInv /\ [Next]_vars => StreamInv'
<1> SUFFICES ASSUME StreamInv, [Next]_vars PROVE StreamInv'
  OBVIOUS
<1> USE DEF Tcp!stream, Tcp!reader, Tcp!hist, Tcp!proc
<1>1. CASE UNCHANGED tcp
  BY <1>1, StreamKept DEF tcp
<1>2. CASE Tcp!Others
  <2>1. ASSUME Tcp!Close \/ Tcp!WriterCloses PROVE StreamInv'
    BY <2>1, StreamKept DEF Tcp!Close, Tcp!WriterCloses
  <2> QED
    BY <1>2, <2>1, SendKeeps DEF Tcp!Others
<1>3. CASE Tcp!Scan
  <2>1. ASSUME Tcp!ScanError PROVE StreamInv'
    BY <2>1, StreamKept DEF Tcp!ScanError
  <2>2. ASSUME NEW k \in 1 .. Tcp!MaxToken, Tcp!Read(k) PROVE StreamInv'
    <3>1. Tcp!MaxToken \in Int
      BY ByteAssumption DEF Tcp!MaxToken, Tcp!Word
    <3>2. k \in Nat
      BY <3>1
    <3> QED
      BY <2>2, <3>2, ReadKeeps
  <2> QED
    BY <1>3, <2>1, <2>2, TokenKeeps, EOFKeeps DEF Tcp!Scan
<1>4. CASE Tcp!Handle
  BY <1>4, StreamKept DEF Tcp!Handle, Tcp!Undecoded, Tcp!Reject, Tcp!ConnectRefused, Tcp!Connect,
     Tcp!ConnectFails, Tcp!CallFails, Tcp!Put, Tcp!RoomSend
<1>5. CASE Tcp!Clean
  BY <1>5, StreamKept DEF Tcp!Clean, Tcp!CleanupNothing, Tcp!DeleteChannel, Tcp!DisConnect,
     Tcp!DisConnectFails, Tcp!CallFails, Tcp!PanicEnds
<1> QED
  BY <1>1, <1>2, <1>3, <1>4, <1>5 DEF Next, LifeStep, ReadStep, PeerStep, Tcp!Reader, vars

(* In every reachable state the header of a packet stands wherever a packet begins, in the
   buffer of the scanner and on the wire. *)
THEOREM StreamCorrect == Spec => []StreamInv
<1>1. InitAll => StreamInv
  <2> SUFFICES ASSUME InitAll PROVE StreamInv
    OBVIOUS
  <2>1. TcpTypeOK
    BY DEF InitAll, Tcp!Init, TcpTypeOK
  <2>2. Headers(buf \o net)
    BY DEF InitAll, Tcp!Init, Headers
  <2> QED
    BY <2>1, <2>2 DEF StreamInv, InitAll, Tcp!Init, Tcp!OnlyLongPanics
<1> QED
  BY <1>1, StreamStep, PTL DEF Spec

(* Only a message that is too long for the length of its packet ends the process: however the
   bytes are cut, the lengths that are read are those that were written. *)
THEOREM OnlyLongMessagesPanic == Spec => []Tcp!OnlyLongPanics
<1>1. StreamInv => Tcp!OnlyLongPanics
  BY DEF StreamInv
<1> QED
  BY <1>1, StreamCorrect, PTL
-----------------------------------------------------------------------------
(***************************************************************************)
(* The messages handled are those that were sent                           *)
(***************************************************************************)

(* at[i] is the number of bytes of the first i packets of ms. *)
Offsets(ms, at) ==
    /\ at \in [0 .. Len(ms) -> Nat]
    /\ \A i \in 1 .. Len(ms) : at[i] = at[i - 1] + 4 + ms[i].size
    /\ \A i, k \in 0 .. Len(ms) : i <= k => at[i] <= at[k]

(* The bytes s are those of the packets of ms behind the first h: all of them on an open
   connection, else as many as the client has written. *)
Carries(s, ms, at, h, state) ==
    /\ Len(s) <= at[Len(ms)] - at[h]
    /\ state = "open" => Len(s) = at[Len(ms)] - at[h]
    /\ \A i \in h + 1 .. Len(ms) : \A j \in 1 .. 4 + ms[i].size :
          (at[i - 1] - at[h]) + j <= Len(s) => s[(at[i - 1] - at[h]) + j] = Tcp!Pack(ms[i])[j]

(* The reader is in step with the client: what is left starts with the packet after those of
   the messages handled. *)
Synced == \E at : Offsets(sent, at) /\ Carries(buf \o net, sent, at, Len(handled), conn)

(* Or it never finds a packet any more, since the one it has cut was longer than its length. *)
Lost ==
    \/ buf \o net = <<>> /\ conn # "open"
    \/ buf \o net # <<>> /\ (buf \o net)[1][1] # "v"

NoneEmpty == \A i \in DOMAIN sent : sent[i].size # 0

HandledInv ==
    /\ handled \in Seq(Messages) /\ Len(handled) <= Len(sent)
    /\ \A i \in DOMAIN handled : handled[i] = sent[i]
    /\ Synced \/ Lost

LEMMA SizesAreNat == \A ms \in Seq(Messages) : \A i \in 1 .. Len(ms) : ms[i] \in Messages /\ ms[i].size \in Nat
BY MessagesAssumption DEF Tcp!IsMessage

LEMMA WithinWhole ==
    ASSUME NEW a \in Nat, NEW b \in Nat, NEW c \in Nat, NEW d \in Nat, NEW z \in Nat, NEW l \in Nat, NEW e \in Nat,
           c = b + 4 + z, c <= d, a <= b, l = d - a, e >= 1, e <= 4 + z
    PROVE  (b - a) + e <= l /\ (b - a) + e \in 1 .. l
OBVIOUS

LEMMA RestEntries ==
    ASSUME NEW s \in Seq(WireByte), NEW k \in 0 .. Len(s)
    PROVE  \A i \in 1 .. Len(s) - k : SubSeq(s, k + 1, Len(s))[i] = s[k + i]
<1>1. /\ Len(SubSeq(s, k + 1, Len(s))) = Len(s) - k
      /\ \A i \in 1 .. Len(s) - k : SubSeq(s, k + 1, Len(s))[i] = s[i + k]
  OBVIOUS
<1>2. \A i \in 1 .. Len(s) - k : i + k = k + i
  OBVIOUS
<1> QED
  BY <1>1, <1>2

LEMMA Behind ==
    \A a, b \in Nat : \A j \in 1 .. b : a + j \in 1 .. a + b /\ ~(a + j <= a) /\ (a + j) - a = j
OBVIOUS

(* One more packet goes behind the others. *)
LEMMA OffsetsOfSend ==
    ASSUME NEW ms \in Seq(Messages), NEW at, Offsets(ms, at), NEW m \in Messages,
           NEW h \in 0 .. Len(ms), NEW s \in Seq(WireByte), Carries(s, ms, at, h, "open")
    PROVE  \E bt : Offsets(Append(ms, m), bt) /\ Carries(s \o Tcp!Pack(m), Append(ms, m), bt, h, "open")
<1> DEFINE n == Len(ms)
           ns == Append(ms, m)
           p == Tcp!Pack(m)
           t == s \o p
           bt == [i \in 0 .. n + 1 |-> IF i <= n THEN at[i] ELSE at[n] + 4 + m.size]
<1>1. m.size \in Nat
  BY MessagesAssumption DEF Tcp!IsMessage
<1>2. n \in Nat /\ Len(ns) = n + 1 /\ ns[n + 1] = m /\ \A i \in 1 .. n : ns[i] = ms[i]
  OBVIOUS
<1>3. /\ at \in [0 .. n -> Nat]
      /\ \A i \in 1 .. n : at[i] = at[i - 1] + 4 + ms[i].size
      /\ \A i, k \in 0 .. n : i <= k => at[i] <= at[k]
  BY DEF Offsets
<1>4. p \in Seq(WireByte) /\ Len(p) = 4 + m.size
  BY PackShape
<1> HIDE DEF p
<1>5. /\ Len(t) = Len(s) + Len(p) /\ Len(s) \in Nat
      /\ \A i \in 1 .. Len(s) + Len(p) : t[i] = IF i <= Len(s) THEN s[i] ELSE p[i - Len(s)]
  <2>1. /\ Len(t) = Len(s) + Len(p)
        /\ \A i \in 1 .. Len(s) + Len(p) : t[i] = IF i <= Len(s) THEN s[i] ELSE p[i - Len(s)]
    BY <1>4, ConcatProperties
  <2>2. Len(s) \in Nat
    OBVIOUS
  <2> HIDE DEF t
  <2> QED
    BY <2>1, <2>2
<1>14. h \in 0 .. n
  OBVIOUS
<1> HIDE DEF t, ns, n
<1>6. at[n] \in Nat /\ at[h] \in Nat /\ bt[n + 1] = at[n] + 4 + m.size /\ bt[h] = at[h]
  <2>1. n \in 0 .. n /\ n + 1 \in 0 .. n + 1 /\ ~(n + 1 <= n) /\ h \in 0 .. n + 1 /\ h <= n
    BY <1>2, <1>14
  <2>2. at[n] \in Nat /\ at[h] \in Nat
    BY <1>3, <1>14, <2>1
  <2> QED
    BY <2>1, <2>2
<1>7. \A i \in 0 .. n : bt[i] = at[i] /\ bt[i] \in Nat /\ at[i] <= at[n]
  BY <1>2, <1>3
<1>8. bt \in [0 .. n + 1 -> Nat]
  BY <1>1, <1>2, <1>3, SMTT(20)
<1> HIDE DEF bt
<1>9. Offsets(ns, bt)
  <2>1. ASSUME NEW i \in 1 .. n + 1 PROVE bt[i] = bt[i - 1] + 4 + ns[i].size
    <3>1. CASE i = n + 1
      <4>1. bt[i - 1] = at[n]
        BY <1>2, <1>7, <3>1
      <4> QED
        BY <1>2, <1>6, <3>1, <4>1
    <3>2. CASE i # n + 1
      <4>1. i \in 1 .. n /\ i - 1 \in 0 .. n /\ i \in 0 .. n
        BY <1>2, <3>2
      <4> QED
        BY <1>2, <1>3, <1>7, <4>1
    <3> QED
      BY <3>1, <3>2
  <2>2. ASSUME NEW i \in 0 .. n + 1, NEW k \in 0 .. n + 1, i <= k PROVE bt[i] <= bt[k]
    <3>1. CASE k <= n
      <4>1. i \in 0 .. n /\ k \in 0 .. n
        BY <1>2, <2>2, <3>1
      <4> QED
        BY <1>3, <1>7, <2>2, <4>1
    <3>2. CASE k = n + 1 /\ i <= n
      <4>1. i \in 0 .. n
        BY <1>2, <3>2
      <4> QED
        BY <1>1, <1>6, <1>7, <3>2, <4>1
    <3>3. CASE k = n + 1 /\ i = n + 1
      BY <1>1, <1>6, <3>3
    <3> QED
      BY <1>2, <3>1, <3>2, <3>3
  <2> QED
    BY <1>2, <1>8, <2>1, <2>2 DEF Offsets
<1>10. Len(s) = at[n] - at[h]
  BY DEF Carries, n
<1>11. Len(t) = bt[n + 1] - bt[h]
  <2>1. \A a, b, c \in Nat : (a - b) + (4 + c) = (a + 4 + c) - b
    OBVIOUS
  <2>2. Len(t) = (at[n] - at[h]) + (4 + m.size)
    BY <1>4, <1>5, <1>10
  <2>3. Len(t) = (at[n] + 4 + m.size) - at[h]
    BY <1>1, <1>6, <2>1, <2>2
  <2> QED
    BY <1>6, <2>3
<1>12. ASSUME NEW i \in h + 1 .. n + 1, NEW j \in 1 .. 4 + ns[i].size, (bt[i - 1] - bt[h]) + j <= Len(t)
       PROVE  t[(bt[i - 1] - bt[h]) + j] = Tcp!Pack(ns[i])[j]
  <2>1. CASE i = n + 1
    <3>1. ns[i] = m /\ bt[i - 1] = at[n]
      BY <1>2, <1>7, <2>1
    <3>2. (bt[i - 1] - bt[h]) + j = Len(s) + j /\ j \in 1 .. Len(p)
      BY <1>1, <1>4, <1>6, <1>10, <3>1
    <3>3. Len(s) + j \in 1 .. Len(s) + Len(p) /\ ~(Len(s) + j <= Len(s)) /\ (Len(s) + j) - Len(s) = j
      <4>1. Len(p) \in Nat /\ Len(s) \in Nat
        BY <1>1, <1>4, <1>5
      <4> QED
        BY <3>2, <4>1, Behind
    <3>4. t[Len(s) + j] = p[j]
      BY <1>5, <3>3
    <3> QED
      BY <3>1, <3>2, <3>4 DEF p
  <2>2. CASE i # n + 1
    <3>1. i \in h + 1 .. n /\ i \in 1 .. n /\ i - 1 \in 0 .. n /\ i \in 0 .. n /\ h \in 0 .. n /\ h <= i - 1
      BY <1>2, <2>2 DEF n
    <3>2. ns[i] = ms[i] /\ bt[i - 1] = at[i - 1] /\ at[i] = at[i - 1] + 4 + ms[i].size /\ at[i] <= at[n]
      BY <1>2, <1>3, <1>7, <3>1
    <3>3. ms[i].size \in Nat
      BY <3>1, SizesAreNat DEF n
    <3>4. at[i] \in Nat /\ at[i - 1] \in Nat /\ at[h] <= at[i - 1]
      BY <1>3, <3>1
    <3>5. j \in 1 .. 4 + ms[i].size
      BY <3>2
    <3> DEFINE x == (at[i - 1] - at[h]) + j
    <3>6. x <= Len(s) /\ x \in 1 .. Len(s)
      <4>1. j \in Nat /\ j >= 1 /\ j <= 4 + ms[i].size
        BY <3>3, <3>5
      <4>2. at[i] <= at[n] /\ at[i] = at[i - 1] + 4 + ms[i].size
        BY <3>2
      <4>3. at[h] \in Nat /\ at[n] \in Nat /\ Len(s) \in Nat
        BY <1>5, <1>6
      <4> QED
        BY <1>10, <3>3, <3>4, <4>1, <4>2, <4>3, WithinWhole, Zenon
    <3>7. s[x] = Tcp!Pack(ms[i])[j]
      BY <3>1, <3>5, <3>6 DEF Carries, n
    <3> HIDE DEF x
    <3>8. x \in 1 .. Len(s) + Len(p) /\ x <= Len(s)
      BY <1>1, <1>4, <1>5, <3>6, SMTT(20)
    <3>9. t[x] = s[x]
      BY <1>5, <3>8
    <3> QED
      BY <1>6, <3>2, <3>7, <3>9 DEF x
  <2> QED
    BY <2>1, <2>2
<1>13. Carries(t, ns, bt, h, "open")
  <2>1. bt[h] \in Nat /\ Len(t) <= bt[n + 1] - bt[h]
    BY <1>5, <1>4, <1>1, <1>6, <1>11, SMTT(20)
  <2> QED
    BY <1>2, <1>11, <1>12, <2>1 DEF Carries
<1> QED
  BY <1>9, <1>13 DEF p, t, ns

(* The client stops writing before its end. *)
LEMMA CarriesLess ==
    ASSUME NEW ms \in Seq(Messages), NEW at, Offsets(ms, at), NEW h \in 0 .. Len(ms),
           NEW s, NEW r, NEW state, NEW state2, Carries(s, ms, at, h, state), state2 # "open",
           Len(r) \in Nat, Len(s) \in Nat, Len(r) <= Len(s), \A i \in 1 .. Len(r) : r[i] = s[i]
    PROVE  Carries(r, ms, at, h, state2)
<1>1. /\ at[Len(ms)] \in Nat /\ at[h] \in Nat /\ Len(ms) \in Nat
      /\ \A i \in h + 1 .. Len(ms) : at[i - 1] \in Nat /\ at[h] <= at[i - 1]
  <2>1. Len(ms) \in Nat /\ \A i \in h + 1 .. Len(ms) : i - 1 \in 0 .. Len(ms) /\ h <= i - 1
    OBVIOUS
  <2>2. at \in [0 .. Len(ms) -> Nat] /\ \A i, k \in 0 .. Len(ms) : i <= k => at[i] <= at[k]
    BY DEF Offsets
  <2> QED
    BY <2>1, <2>2
<1>2. Len(r) <= at[Len(ms)] - at[h]
  BY <1>1 DEF Carries
<1>3. ASSUME NEW i \in h + 1 .. Len(ms), NEW j \in 1 .. 4 + ms[i].size, (at[i - 1] - at[h]) + j <= Len(r)
      PROVE  r[(at[i - 1] - at[h]) + j] = Tcp!Pack(ms[i])[j]
  <2>1. j \in Nat /\ j >= 1
    <3>1. i \in 1 .. Len(ms)
      BY <1>1
    <3>2. ms[i].size \in Nat
      BY <3>1, SizesAreNat
    <3> QED
      BY <3>2
  <2>2. (at[i - 1] - at[h]) + j \in 1 .. Len(r) /\ (at[i - 1] - at[h]) + j <= Len(s)
    BY <1>1, <1>3, <2>1, SMTT(20)
  <2> QED
    BY <2>2 DEF Carries
<1> QED
  BY <1>2, <1>3 DEF Carries

LEMMA Regroup == \A x, z \in Nat : x + 4 + z = x + (4 + z)
OBVIOUS

(* The next packet is taken off as a whole. *)
LEMMA CarriesRest ==
    ASSUME NEW ms \in Seq(Messages), NEW at, Offsets(ms, at), NEW h \in 0 .. Len(ms), h < Len(ms),
           NEW s \in Seq(WireByte), NEW state, Carries(s, ms, at, h, state),
           NEW n \in Nat, n = 4 + ms[h + 1].size, n <= Len(s)
    PROVE  Carries(SubSeq(s, n + 1, Len(s)), ms, at, h + 1, state)
<1> DEFINE r == SubSeq(s, n + 1, Len(s))
<1>1. /\ Len(r) = Len(s) - n /\ Len(s) \in Nat
      /\ \A i \in 1 .. Len(s) - n : r[i] = s[n + i]
  <2>1. Len(r) = Len(s) - n /\ Len(s) \in Nat
    BY SMTT(20)
  <2>2. \A i \in 1 .. Len(s) - n : r[i] = s[n + i]
    <3>1. n \in 0 .. Len(s)
      OBVIOUS
    <3> QED
      BY <3>1, RestEntries
  <2> QED
    BY <2>1, <2>2
<1> HIDE DEF r
<1>2. h \in Nat /\ Len(ms) \in Nat /\ h + 1 \in 1 .. Len(ms) /\ h + 1 \in 0 .. Len(ms)
  OBVIOUS
<1>3. /\ at \in [0 .. Len(ms) -> Nat]
      /\ at[h + 1] = at[h] + n
      /\ \A i, k \in 0 .. Len(ms) : i <= k => at[i] <= at[k]
  <2>1. at[h + 1] = at[(h + 1) - 1] + 4 + ms[h + 1].size /\ (h + 1) - 1 = h
    BY <1>2 DEF Offsets
  <2>2. /\ at \in [0 .. Len(ms) -> Nat]
        /\ \A i, k \in 0 .. Len(ms) : i <= k => at[i] <= at[k]
    BY DEF Offsets
  <2>3. at[h] \in Nat /\ ms[h + 1].size \in Nat
    BY <1>2, <2>2, SizesAreNat
  <2>4. at[h + 1] = at[h] + n
    <3>1. at[(h + 1) - 1] = at[h]
      BY <2>1
    <3>2. at[h + 1] = at[h] + 4 + ms[h + 1].size
      BY <2>1, <3>1
    <3>3. PICK x \in Nat : x = at[h]
      BY <2>3
    <3>4. PICK z \in Nat : z = ms[h + 1].size
      BY <2>3
    <3>5. at[h + 1] = x + 4 + z /\ n = 4 + z
      BY <3>2, <3>3, <3>4
    <3>6. x + 4 + z = x + (4 + z)
      BY Regroup
    <3> QED
      BY ONLY <3>3, <3>5, <3>6
  <2> QED
    BY <2>2, <2>4
<1>4. at[h] \in Nat /\ at[h + 1] \in Nat /\ at[Len(ms)] \in Nat
  BY <1>2, <1>3, SMTT(20)
<1>5. Len(r) <= at[Len(ms)] - at[h + 1] /\ (state = "open" => Len(r) = at[Len(ms)] - at[h + 1])
  <2>1. Len(s) <= at[Len(ms)] - at[h] /\ (state = "open" => Len(s) = at[Len(ms)] - at[h])
    BY DEF Carries
  <2>2. Len(r) <= at[Len(ms)] - at[h + 1]
    BY <1>1, <1>3, <1>4, <2>1, SMTT(20)
  <2>3. state = "open" => Len(r) = at[Len(ms)] - at[h + 1]
    BY <1>1, <1>3, <1>4, <2>1
  <2> QED
    BY <2>2, <2>3
<1>6. ASSUME NEW i \in h + 2 .. Len(ms), NEW j \in 1 .. 4 + ms[i].size, (at[i - 1] - at[h + 1]) + j <= Len(r)
      PROVE  r[(at[i - 1] - at[h + 1]) + j] = Tcp!Pack(ms[i])[j]
  <2>1. i \in 1 .. Len(ms) /\ i - 1 \in 0 .. Len(ms) /\ h + 1 <= i - 1 /\ i \in h + 1 .. Len(ms)
    BY <1>2
  <2>2. at[i - 1] \in Nat /\ at[h + 1] <= at[i - 1]
    BY <1>2, <1>3, <2>1
  <2>3. j \in Nat /\ j >= 1
    <3>1. ms[i].size \in Nat
      BY <2>1, SizesAreNat
    <3> QED
      BY <3>1
  <2> DEFINE x == (at[i - 1] - at[h + 1]) + j
  <2>4. x \in 1 .. Len(s) - n /\ n + x = (at[i - 1] - at[h]) + j /\ n + x <= Len(s)
    <3>1. at[h + 1] = at[h] + n /\ x <= Len(s) - n
      BY <1>1, <1>3, <1>6
    <3>2. Len(s) \in Nat /\ n \in Nat
      BY <1>1
    <3>3. x >= 1 /\ x \in Int
      BY <1>4, <2>2, <2>3, SMTT(20)
    <3>4. n + x = (at[i - 1] - at[h]) + j
      <4>1. x = (at[i - 1] - (at[h] + n)) + j
        BY <3>1
      <4>2. PICK a \in Nat : a = at[h]
        BY <1>4
      <4>3. PICK b \in Nat : b = at[i - 1]
        BY <2>2
      <4>4. n + ((b - (a + n)) + j) = (b - a) + j
        <5>1. j \in Nat /\ n \in Nat
          BY <2>3
        <5> QED
          BY ONLY <5>1, a \in Nat, b \in Nat
      <4> QED
        BY <4>1, <4>2, <4>3, <4>4, Zenon
    <3> HIDE DEF x
    <3>5. x \in 1 .. Len(s) - n /\ n + x <= Len(s)
      BY <3>1, <3>2, <3>3
    <3> QED
      BY <3>4, <3>5
  <2>5. s[(at[i - 1] - at[h]) + j] = Tcp!Pack(ms[i])[j]
    BY <2>1, <2>4 DEF Carries
  <2>6. r[x] = s[n + x]
    <3> HIDE DEF x
    <3> QED
      BY <1>1, <2>4
  <2> QED
    BY <2>4, <2>5, <2>6
<1>7. (h + 1) + 1 = h + 2
  BY <1>2
<1> QED
  BY <1>5, <1>6, <1>7 DEF Carries, r

(* The start of the bytes is that of the next packet. *)
LEMMA CarriesNext ==
    ASSUME NEW ms \in Seq(Messages), NEW at, Offsets(ms, at), NEW h \in 0 .. Len(ms),
           NEW s \in Seq(WireByte), s # <<>>, NEW state, Carries(s, ms, at, h, state)
    PROVE  /\ h < Len(ms) /\ ms[h + 1] \in Messages /\ ms[h + 1].size \in Nat
           /\ \A j \in 1 .. 4 + ms[h + 1].size : j <= Len(s) => s[j] = Tcp!Pack(ms[h + 1])[j]
           /\ state = "open" => 4 + ms[h + 1].size <= Len(s)
<1>1. Len(ms) \in Nat /\ h \in Nat /\ Len(s) \in Nat /\ Len(s) > 0
  OBVIOUS
<1>2. /\ at \in [0 .. Len(ms) -> Nat]
      /\ \A i \in 1 .. Len(ms) : at[i] = at[i - 1] + 4 + ms[i].size
      /\ \A i, k \in 0 .. Len(ms) : i <= k => at[i] <= at[k]
  BY DEF Offsets
<1>3. Len(s) <= at[Len(ms)] - at[h] /\ (state = "open" => Len(s) = at[Len(ms)] - at[h])
  BY DEF Carries
<1>4. h < Len(ms)
  <2> SUFFICES ASSUME h = Len(ms) PROVE FALSE
    BY <1>1
  <2>1. at[h] \in Nat
    BY <1>1, <1>2
  <2> QED
    BY <1>1, <1>3, <2>1
<1>5. h + 1 \in 1 .. Len(ms) /\ h + 1 \in h + 1 .. Len(ms) /\ (h + 1) - 1 = h /\ h + 1 \in 0 .. Len(ms)
  BY <1>1, <1>4
<1>6. ms[h + 1] \in Messages /\ ms[h + 1].size \in Nat
  BY <1>5, SizesAreNat
<1>7. at[h + 1] = at[h] + 4 + ms[h + 1].size /\ at[h] \in Nat /\ at[h + 1] <= at[Len(ms)] /\ at[Len(ms)] \in Nat
  <2>1. Len(ms) \in 0 .. Len(ms) /\ h + 1 <= Len(ms)
    BY <1>1, <1>4
  <2> QED
    BY <1>2, <1>5, <2>1
<1>8. ASSUME NEW j \in 1 .. 4 + ms[h + 1].size, j <= Len(s) PROVE s[j] = Tcp!Pack(ms[h + 1])[j]
  <2>1. j \in Nat /\ (at[(h + 1) - 1] - at[h]) + j = j
    BY <1>5, <1>6, <1>7
  <2>2. (at[(h + 1) - 1] - at[h]) + j <= Len(s) => s[(at[(h + 1) - 1] - at[h]) + j] = Tcp!Pack(ms[h + 1])[j]
    BY <1>5 DEF Carries
  <2> QED
    BY <1>8, <2>1, <2>2
<1>9. state = "open" => 4 + ms[h + 1].size <= Len(s)
  BY <1>3, <1>6, <1>7, SMTT(20)
<1> QED
  BY <1>4, <1>6, <1>8, <1>9

LEMMA HandledKept ==
    ASSUME StreamInv, HandledInv, UNCHANGED <<sent, net, buf, handled>>, conn' \in {conn, "eof", "closed"}
    PROVE  HandledInv'
<1>1. Lost => Lost'
  BY DEF Lost
<1>2. ASSUME Synced PROVE Synced'
  <2> PICK at : Offsets(sent, at) /\ Carries(buf \o net, sent, at, Len(handled), conn)
    BY <1>2 DEF Synced
  <2>1. CASE conn' = conn
    BY <2>1 DEF Synced
  <2>2. CASE conn' # conn
    <3>1. /\ conn' # "open" /\ sent \in Seq(Messages) /\ Len(handled) \in 0 .. Len(sent)
          /\ Len(buf \o net) \in Nat
      <4>1. handled \in Seq(Messages) /\ sent \in Seq(Messages) /\ Len(handled) <= Len(sent)
        BY DEF HandledInv, StreamInv, TcpTypeOK
      <4>2. buf \o net \in Seq(WireByte)
        BY ConcatProperties DEF StreamInv, TcpTypeOK
      <4> QED
        BY <2>2, <4>1, <4>2
    <3>2. Carries(buf \o net, sent, at, Len(handled), conn')
      BY <3>1, CarriesLess
    <3> QED
      BY <3>2 DEF Synced
  <2> QED
    BY <2>1, <2>2
<1> QED
  BY <1>1, <1>2 DEF HandledInv

LEMMA ReadHandled ==
    ASSUME StreamInv, HandledInv, NEW k \in Nat, Tcp!Read(k)
    PROVE  HandledInv'
<1>1. (buf \o net)' = buf \o net
  BY ReadMoves DEF StreamInv
<1>2. UNCHANGED <<sent, handled, conn>>
  BY DEF Tcp!Read, Tcp!reader, Tcp!hist, Tcp!proc
<1> QED
  BY <1>1, <1>2 DEF HandledInv, Synced, Lost

LEMMA SendHandled ==
    ASSUME StreamInv, HandledInv, NEW m \in Messages, Tcp!Send(m)
    PROVE  HandledInv'
<1> DEFINE s == buf \o net
           p == Tcp!Pack(m)
<1>1. /\ conn = "open" /\ conn' = conn /\ handled' = handled
      /\ sent' = Append(sent, m) /\ net' = net \o p /\ buf' = buf
  BY DEF Tcp!Send, Tcp!reader, Tcp!hist, Tcp!proc
<1>2. p \in Seq(WireByte) /\ Len(p) >= 4
  BY PackShape
<1>3. /\ sent \in Seq(Messages) /\ net \in Seq(WireByte) /\ buf \in Seq(WireByte) /\ handled \in Seq(Messages)
      /\ Len(handled) <= Len(sent) /\ \A i \in DOMAIN handled : handled[i] = sent[i]
  BY DEF StreamInv, TcpTypeOK, HandledInv
<1>4. s \in Seq(WireByte) /\ Len(handled) \in 0 .. Len(sent)
  BY <1>3, ConcatProperties
<1>5. (buf \o net)' = s \o p
  <2>1. (buf \o net) \o p = buf \o (net \o p)
    BY <1>2, <1>3, WireAssociative
  <2> QED
    BY <1>1, <2>1, Zenon
<1> HIDE DEF p
<1>6. ASSUME Synced PROVE Synced'
  <2> PICK at : Offsets(sent, at) /\ Carries(s, sent, at, Len(handled), "open")
    BY <1>1, <1>6 DEF Synced
  <2>1. \E bt : Offsets(Append(sent, m), bt) /\ Carries(s \o Tcp!Pack(m), Append(sent, m), bt, Len(handled), "open")
    BY <1>3, <1>4, OffsetsOfSend
  <2> QED
    BY <1>1, <1>5, <2>1 DEF Synced, p
<1>7. ASSUME Lost PROVE Lost'
  <2>1. s # <<>> /\ s[1][1] # "v"
    BY <1>1, <1>7 DEF Lost
  <2>2. 1 \in 1 .. Len(s) /\ 1 \in 1 .. Len(s) + Len(p) /\ Len(s) + Len(p) > 0
    <3>1. Len(s) \in Nat /\ Len(p) \in Nat /\ Len(s) > 0
      <4> HIDE DEF s
      <4> QED
        BY <1>2, <1>4, <2>1
    <3> QED
      BY <3>1
  <2>3. (s \o p)[1] = s[1] /\ Len(s \o p) > 0
    <3> HIDE DEF s
    <3>1. /\ Len(s \o p) = Len(s) + Len(p)
          /\ \A i \in 1 .. Len(s) + Len(p) : (s \o p)[i] = IF i <= Len(s) THEN s[i] ELSE p[i - Len(s)]
      BY <1>2, <1>4, ConcatProperties
    <3> QED
      BY <2>2, <3>1
  <2>4. s \o p # <<>>
    BY <2>3
  <2> QED
    BY <1>5, <2>1, <2>3, <2>4 DEF Lost
<1>8. Len(handled') <= Len(sent') /\ \A i \in DOMAIN handled' : handled'[i] = sent'[i]
  <2>1. Len(sent') = Len(sent) + 1 /\ \A i \in 1 .. Len(sent) : sent'[i] = sent[i]
    BY <1>1, <1>3, AppendProperties
  <2>2. DOMAIN handled = 1 .. Len(handled) /\ Len(handled) \in Nat /\ Len(sent) \in Nat
    BY <1>3
  <2> QED
    BY <1>1, <1>3, <2>1, <2>2
<1> QED
  BY <1>1, <1>3, <1>6, <1>7, <1>8 DEF HandledInv

LEMMA EOFHandled ==
    ASSUME StreamInv, HandledInv, Tcp!ScanEOF
    PROVE  HandledInv'
<1> DEFINE s == buf \o net
<1>1. conn = "eof" /\ net' = <<>> /\ UNCHANGED <<sent, buf, conn, handled>>
  BY DEF Tcp!ScanEOF, Tcp!hist, Tcp!proc
<1>2. /\ net \in Seq(WireByte) /\ buf \in Seq(WireByte) /\ sent \in Seq(Messages) /\ handled \in Seq(Messages)
      /\ Len(handled) <= Len(sent)
  BY DEF StreamInv, TcpTypeOK, HandledInv
<1>3. (buf \o net)' = buf
  BY <1>1, <1>2, ConcatEmptySeq
<1>4. /\ s \in Seq(WireByte) /\ Len(s) = Len(buf) + Len(net)
      /\ \A i \in 1 .. Len(buf) + Len(net) : s[i] = IF i <= Len(buf) THEN buf[i] ELSE net[i - Len(buf)]
  BY <1>2, ConcatProperties
<1>5. /\ Len(buf) \in Nat /\ Len(net) \in Nat /\ Len(buf) <= Len(s) /\ Len(s) \in Nat
      /\ Len(handled) \in 0 .. Len(sent)
  BY <1>2, <1>4
<1>6. \A i \in 1 .. Len(buf) : buf[i] = s[i]
  <2> HIDE DEF s
  <2>1. \A i \in 1 .. Len(buf) : i \in 1 .. Len(buf) + Len(net) /\ i <= Len(buf)
    BY <1>5
  <2> QED
    BY <1>4, <2>1
<1>7. ASSUME Synced PROVE Synced'
  <2> PICK at : Offsets(sent, at) /\ Carries(s, sent, at, Len(handled), conn)
    BY <1>7 DEF Synced
  <2>1. Carries(buf, sent, at, Len(handled), "eof")
    <3> HIDE DEF s
    <3> QED
      BY <1>2, <1>5, <1>6, CarriesLess
  <2> QED
    BY <1>1, <1>3, <2>1 DEF Synced
<1>8. ASSUME Lost PROVE Lost'
  <2>1. CASE buf = <<>>
    BY <1>1, <1>3, <2>1 DEF Lost
  <2>2. CASE buf # <<>>
    <3>1. 1 \in 1 .. Len(buf)
      BY <1>2, <2>2
    <3>2. s[1] = buf[1] /\ s # <<>>
      <4>1. s[1] = buf[1]
        BY <1>6, <3>1
      <4>2. Len(s) > 0
        BY <1>5, <3>1
      <4> QED
        BY <4>1, <4>2
    <3> QED
      BY <1>3, <1>8, <2>2, <3>2 DEF Lost
  <2> QED
    BY <2>1, <2>2
<1> QED
  BY <1>1, <1>7, <1>8 DEF HandledInv

(* Of a message that fits the token is the whole packet; of a longer one it ends inside the
   message, which cannot be decoded then, and the scanner stays where no packet begins. *)
LEMMA TokenHandled ==
    ASSUME StreamInv, HandledInv, NoneEmpty, Tcp!Token
    PROVE  HandledInv'
<1> DEFINE s == buf \o net
           h == Len(handled)
           m == sent[h + 1]
           n == Tcp!Length
<1>1. Tcp!TokenReady /\ UNCHANGED <<sent, net, conn>>
  BY DEF Tcp!Token
<1>2. /\ net \in Seq(WireByte) /\ buf \in Seq(WireByte) /\ sent \in Seq(Messages) /\ handled \in Seq(Messages)
      /\ Len(handled) <= Len(sent) /\ TcpTypeOK
  BY DEF StreamInv, TcpTypeOK, HandledInv
<1>3. h \in 0 .. Len(sent) /\ h \in Nat /\ Len(sent) \in Nat /\ Len(buf) \in Nat /\ Len(net) \in Nat
  BY <1>2
<1>4. Len(buf) > 4 /\ buf[1][1] = "v"
  BY <1>1 DEF Tcp!TokenReady, Tcp!TcpHeaderLength
<1>5. /\ s \in Seq(WireByte) /\ Len(s) = Len(buf) + Len(net)
      /\ \A i \in 1 .. Len(buf) : s[i] = buf[i]
  <2>1. /\ s \in Seq(WireByte) /\ Len(s) = Len(buf) + Len(net)
        /\ \A i \in 1 .. Len(buf) + Len(net) : s[i] = IF i <= Len(buf) THEN buf[i] ELSE net[i - Len(buf)]
    BY <1>2, ConcatProperties
  <2>2. \A i \in 1 .. Len(buf) : i \in 1 .. Len(buf) + Len(net) /\ i <= Len(buf)
    BY <1>3
  <2> HIDE DEF s
  <2> QED
    BY <2>1, <2>2
<1> HIDE DEF s
<1>6. s # <<>> /\ s[1][1] = "v"
  <2>1. 1 \in 1 .. Len(buf) /\ Len(s) > 0
    BY <1>3, <1>4, <1>5
  <2> QED
    BY <1>4, <1>5, <2>1
<1>7. PICK at : Offsets(sent, at) /\ Carries(s, sent, at, h, conn)
  BY <1>6 DEF HandledInv, Synced, Lost, s
<1>8. /\ h < Len(sent) /\ m \in Messages /\ m.size \in Nat
      /\ \A j \in 1 .. 4 + m.size : j <= Len(s) => s[j] = Tcp!Pack(m)[j]
      /\ conn = "open" => 4 + m.size <= Len(s)
  BY <1>2, <1>3, <1>5, <1>6, <1>7, CarriesNext
<1>9. m.size # 0
  <2>1. h + 1 \in DOMAIN sent
    BY <1>2, <1>3, <1>8
  <2> QED
    BY <2>1 DEF NoneEmpty
<1> HIDE DEF m
<1>10. \A j \in 1 .. 4 + m.size : j <= Len(buf) => buf[j] = Tcp!Pack(m)[j]
  <2> SUFFICES ASSUME NEW j \in 1 .. 4 + m.size, j <= Len(buf) PROVE buf[j] = Tcp!Pack(m)[j]
    OBVIOUS
  <2>1. j \in 1 .. Len(buf) /\ j <= Len(s)
    BY <1>3, <1>5, <1>8
  <2> QED
    BY <1>5, <1>8, <2>1
<1>11. n = GetPackageLength(m.size)
  <2> DEFINE x == GetPackageLength(m.size)
  <2>1. GetInt16(PutInt16(x)[1], PutInt16(x)[2]) = x
    BY <1>8, PackageLengthIsInt16, LengthReadBack
  <2>2. buf[3] = Tcp!Pack(m)[3] /\ buf[4] = Tcp!Pack(m)[4]
    <3>1. 3 \in 1 .. 4 + m.size /\ 4 \in 1 .. 4 + m.size /\ 3 <= Len(buf) /\ 4 <= Len(buf)
      BY <1>3, <1>4, <1>8
    <3> QED
      BY <1>10, <3>1
  <2>3. Written(Tcp!Pack(m)[3], Tcp!Pack(m)[4], m.size)
    BY <1>8, PackShape
  <2>4. buf[3] = <<"length", PutInt16(x)[1]>> /\ buf[4] = <<"length", PutInt16(x)[2]>>
    BY <2>2, <2>3 DEF Written
  <2> HIDE DEF x
  <2>5. n = x
    BY <2>1, <2>4, SamePackage DEF Tcp!Length
  <2> QED
    BY <2>5 DEF x
<1>12. n \in Int /\ n <= MaxInt16 /\ MaxInt16 \in Nat
  <2>1. GetPackageLength(m.size) \in -(MaxInt16 + 1) .. MaxInt16 /\ MaxInt16 \in Nat
    BY <1>8, PackageLengthIsInt16, WordEven DEF MaxInt16
  <2> HIDE DEF n
  <2> QED
    BY <1>11, <2>1
<1>13. CASE n < 4
  <2>1. UNCHANGED <<buf, handled>>
    BY <1>13 DEF Tcp!Token, Tcp!TcpHeaderLength
  <2> QED
    BY <1>1, <2>1, HandledKept
<1>14. CASE ~(n < 4)
  <2> DEFINE msg == SubSeq(buf, 5, n)
             r == SubSeq(s, n + 1, Len(s))
  <2>1. /\ buf' = SubSeq(buf, n + 1, Len(buf))
        /\ handled' = IF Tcp!Decode(msg) = Tcp!Garbage THEN handled ELSE Append(handled, Tcp!Decode(msg))
    BY <1>14 DEF Tcp!Token, Tcp!TcpHeaderLength
  <2>2. n \in 4 .. Len(buf) /\ (buf \o net)' = r
    <3>1. n >= 4
      BY <1>12, <1>14
    <3> QED
      BY <1>1, <1>2, <1>12, <2>1, <3>1, TokenRest DEF s
  <2> HIDE DEF n
  <2>3. n <= 4 + m.size /\ (Fits(m.size) => n = 4 + m.size) /\ (~Fits(m.size) => n < 4 + m.size)
    <3>1. CASE Fits(m.size)
      BY <1>8, <1>11, <1>12, <3>1, FittingLength DEF TcpHeaderLength
    <3>2. CASE ~Fits(m.size)
      BY <1>8, <1>12, <3>2 DEF Fits, TcpHeaderLength
    <3> QED
      BY <3>1, <3>2
  <2>4. Len(msg) = n - 4 /\ msg \in Seq(WireByte) /\ \A i \in 1 .. n - 4 : msg[i] = <<"msg", m>>
    <3>1. \A i \in 5 .. n : buf[i] = <<"msg", m>> /\ buf[i] \in WireByte
      <4> SUFFICES ASSUME NEW i \in 5 .. n PROVE buf[i] = <<"msg", m>> /\ buf[i] \in WireByte
        OBVIOUS
      <4>1. i \in 1 .. 4 + m.size /\ i \in 5 .. 4 + m.size /\ i <= Len(buf) /\ i \in 1 .. Len(buf)
        BY <1>3, <1>8, <2>2, <2>3
      <4>2. Tcp!Pack(m)[i] = <<"msg", m>>
        BY <1>8, <4>1, PackShape
      <4> QED
        BY <1>2, <1>10, <4>1, <4>2
    <3>2. n \in Int /\ 5 \in Int
      BY <1>12
    <3>3. /\ msg \in Seq(WireByte)
          /\ Len(msg) = IF 5 <= n THEN n - 5 + 1 ELSE 0
          /\ \A i \in 1 .. n - 5 + 1 : msg[i] = buf[5 + i - 1]
      <4> HIDE DEF msg
      <4>1. \A i \in 5 .. n : buf[i] \in WireByte
        BY <3>1
      <4> QED
        BY <3>2, <4>1, SubSeqProperties DEF msg
    <3> HIDE DEF msg
    <3>4. Len(msg) = n - 4
      BY <2>2, <3>3
    <3>5. ASSUME NEW i \in 1 .. n - 4 PROVE msg[i] = <<"msg", m>>
      <4>1. i \in 1 .. n - 5 + 1 /\ 5 + i - 1 \in 5 .. n
        BY <3>2
      <4> QED
        BY <3>1, <3>3, <4>1
    <3> QED
      BY <3>3, <3>4, <3>5
  <2> HIDE DEF msg
  <2>5. CASE Fits(m.size)
    <3>1. n = 4 + m.size /\ n \in Nat /\ n <= Len(s)
      BY <1>3, <1>5, <1>8, <2>2, <2>3, <2>5
    <3>2. Tcp!Decode(msg) = m
      <4>1. Len(msg) = m.size /\ \A i \in 1 .. m.size : msg[i] = <<"msg", m>>
        BY <1>8, <2>4, <3>1
      <4>2. DOMAIN msg = 1 .. m.size /\ 1 \in 1 .. m.size
        BY <1>8, <1>9, <2>4, <4>1
      <4>3. msg # <<>> /\ msg[1] = <<"msg", m>> /\ \A i \in DOMAIN msg : msg[i] = msg[1]
        BY <4>1, <4>2
      <4> QED
        BY <4>1, <4>3 DEF Tcp!Decode
    <3>3. m # Tcp!Garbage
      BY <1>9 DEF Tcp!Garbage
    <3>4. handled' = Append(handled, m)
      BY <2>1, <3>2, <3>3
    <3>5. /\ handled' \in Seq(Messages) /\ Len(handled') = h + 1 /\ handled'[h + 1] = m
          /\ \A i \in 1 .. h : handled'[i] = handled[i]
      BY <1>2, <1>8, <3>4, AppendProperties
    <3>6. Carries(r, sent, at, h + 1, conn)
      <4>1. n = 4 + sent[h + 1].size
        BY <3>1 DEF m
      <4> HIDE DEF h
      <4> QED
        BY <1>2, <1>3, <1>5, <1>7, <1>8, <3>1, <4>1, CarriesRest
    <3>7. Synced'
      <4>1. Carries(buf' \o net', sent', at, Len(handled'), conn') /\ Offsets(sent', at)
        BY <1>1, <1>7, <2>2, <3>5, <3>6
      <4> QED
        BY <4>1 DEF Synced
    <3>8. \A i \in DOMAIN handled' : handled'[i] = sent'[i]
      <4>1. \A i \in 1 .. h : handled[i] = sent[i]
        BY <1>2 DEF HandledInv
      <4>2. DOMAIN handled' = 1 .. h + 1
        BY <3>5
      <4>3. \A i \in 1 .. h + 1 : i \in 1 .. h \/ i = h + 1
        BY <1>3
      <4> QED
        BY <1>1, <3>5, <4>1, <4>2, <4>3 DEF m
    <3>9. Len(handled') <= Len(sent')
      BY <1>1, <1>3, <1>8, <3>5
    <3> QED
      BY <3>5, <3>7, <3>8, <3>9 DEF HandledInv
  <2>6. CASE ~Fits(m.size)
    <3>1. n < 4 + m.size
      BY <2>3, <2>6
    <3>2. Tcp!Decode(msg) = Tcp!Garbage
      <4>1. CASE msg = <<>>
        BY <4>1 DEF Tcp!Decode
      <4>2. CASE msg # <<>>
        <5>1. msg[1] = <<"msg", m>> /\ Len(msg) # m.size
          <6>1. 1 \in 1 .. n - 4
            BY <1>12, <2>4, <4>2
          <6>2. n - 4 # m.size
            BY <1>8, <1>12, <3>1
          <6> QED
            BY <2>4, <6>1, <6>2
        <5>2. msg[1][2] = m
          BY <5>1
        <5>3. ~(Len(msg) = msg[1][2].size)
          BY <5>1, <5>2
        <5> QED
          BY <5>3 DEF Tcp!Decode
      <4> QED
        BY <4>1, <4>2
    <3>3. handled' = handled
      BY <2>1, <3>2
    <3>4. Lost'
      <4>1. CASE Len(s) = n
        <5>1. conn # "open"
          BY <1>8, <1>12, <3>1, <4>1
        <5>2. r = <<>>
          BY <1>5, <1>12, <4>1
        <5> QED
          BY <1>1, <2>2, <5>1, <5>2 DEF Lost
      <4>2. CASE Len(s) # n
        <5>1. n \in 0 .. Len(s) /\ n + 1 <= Len(s) /\ 1 \in 1 .. Len(s) - n /\ n + 1 \in 1 .. 4 + m.size
              /\ n + 1 \in 5 .. 4 + m.size
          BY <1>3, <1>5, <1>8, <2>2, <3>1, <4>2
        <5>2. r[1] = s[n + 1]
          BY <1>5, <5>1, RestEntries
        <5>3. s[n + 1] = Tcp!Pack(m)[n + 1] /\ Tcp!Pack(m)[n + 1] = <<"msg", m>>
          BY <1>8, <5>1, PackShape
        <5>4. r # <<>>
          <6>1. Len(r) = Len(s) - n
            BY <1>5, <5>1
          <6> HIDE DEF r
          <6> QED
            BY <1>5, <5>1, <6>1
        <5>5. r[1][1] # "v"
          <6>1. r[1] = <<"msg", m>>
            BY <5>2, <5>3
          <6> HIDE DEF r
          <6> QED
            BY <6>1
        <5> QED
          BY <2>2, <5>4, <5>5 DEF Lost
      <4> QED
        BY <4>1, <4>2
    <3> QED
      BY <1>1, <3>3, <3>4 DEF HandledInv
  <2> QED
    BY <2>5, <2>6
<1> QED
  BY <1>13, <1>14

LEMMA HandledStep == StreamInv /\ (NoneEmpty => HandledInv) /\ [Next]_vars => (NoneEmpty => HandledInv)'
<1> SUFFICES ASSUME StreamInv, NoneEmpty => HandledInv, [Next]_vars, NoneEmpty' PROVE HandledInv'
  OBVIOUS
<1> USE DEF Tcp!stream, Tcp!reader, Tcp!hist, Tcp!proc
<1>1. sent' = sent \/ \E m \in Messages : Tcp!Send(m)
  BY DEF Next, LifeStep, ReadStep, PeerStep, Tcp!Reader, tcp, vars, Tcp!Others, Tcp!Close, Tcp!WriterCloses,
     Tcp!Scan, Tcp!Read, Tcp!Token, Tcp!ScanEOF, Tcp!ScanError, Tcp!Handle, Tcp!Undecoded, Tcp!Reject,
     Tcp!ConnectRefused, Tcp!Connect, Tcp!ConnectFails, Tcp!CallFails, Tcp!Put, Tcp!RoomSend, Tcp!Clean,
     Tcp!CleanupNothing, Tcp!DeleteChannel, Tcp!DisConnect, Tcp!DisConnectFails, Tcp!PanicEnds
<1>2. NoneEmpty
  <2>1. CASE sent' = sent
    BY <2>1 DEF NoneEmpty
  <2>2. ASSUME NEW m \in Messages, Tcp!Send(m) PROVE NoneEmpty
    <3>1. sent' = Append(sent, m) /\ sent \in Seq(Messages)
      BY <2>2 DEF Tcp!Send, StreamInv, TcpTypeOK
    <3>2. \A j \in DOMAIN sent : j \in DOMAIN sent' /\ sent'[j] = sent[j]
      BY <3>1, AppendProperties
    <3> QED
      BY <3>2 DEF NoneEmpty
  <2> QED
    BY <1>1, <2>1, <2>2
<1>3. HandledInv
  BY <1>2
<1>4. CASE UNCHANGED tcp
  BY <1>3, <1>4, HandledKept DEF tcp
<1>5. CASE Tcp!Others
  BY <1>3, <1>5, HandledKept, SendHandled DEF Tcp!Others, Tcp!Close, Tcp!WriterCloses
<1>6. CASE Tcp!Scan
  <2>1. ASSUME NEW k \in 1 .. Tcp!MaxToken, Tcp!Read(k) PROVE HandledInv'
    <3>1. Tcp!MaxToken \in Int
      BY ByteAssumption DEF Tcp!MaxToken, Tcp!Word
    <3>2. k \in Nat
      BY <3>1
    <3> QED
      BY <1>3, <2>1, <3>2, ReadHandled
  <2>2. ASSUME Tcp!ScanError PROVE HandledInv'
    BY <1>3, <2>2, HandledKept DEF Tcp!ScanError
  <2> QED
    BY <1>2, <1>3, <1>6, <2>1, <2>2, TokenHandled, EOFHandled DEF Tcp!Scan
<1>7. CASE Tcp!Handle
  BY <1>3, <1>7, HandledKept DEF Tcp!Handle, Tcp!Undecoded, Tcp!Reject, Tcp!ConnectRefused, Tcp!Connect,
     Tcp!ConnectFails, Tcp!CallFails, Tcp!Put, Tcp!RoomSend
<1>8. CASE Tcp!Clean
  BY <1>3, <1>8, HandledKept DEF Tcp!Clean, Tcp!CleanupNothing, Tcp!DeleteChannel, Tcp!DisConnect,
     Tcp!DisConnectFails, Tcp!CallFails, Tcp!PanicEnds
<1> QED
  BY <1>4, <1>5, <1>6, <1>7, <1>8 DEF Next, LifeStep, ReadStep, PeerStep, Tcp!Reader, vars

(* However TCP cuts the bytes and whatever comes after a message that was too long: what is
   handled is what was sent, in order and without a gap, and only a too long message ends the
   process.  The scanner is at the start of the next packet until it has cut a packet short;
   from then on what it has in front of it never looks like one. *)
THEOREM MessagesInStep == Spec => []InStep
<1>1. InitAll => HandledInv
  <2> SUFFICES ASSUME InitAll PROVE HandledInv
    OBVIOUS
  <2>1. sent = <<>> /\ handled = <<>> /\ buf = <<>> /\ net = <<>>
    BY DEF InitAll, Tcp!Init
  <2> DEFINE at == [i \in 0 .. 0 |-> 0]
  <2>2. Offsets(<<>>, at)
    BY DEF Offsets
  <2>3. Carries(<<>> \o <<>>, <<>>, at, 0, conn)
    BY DEF Carries
  <2>4. Synced
    <3> HIDE DEF at
    <3>1. Len(handled) = 0
      BY <2>1
    <3> QED
      BY <2>1, <2>2, <2>3, <3>1 DEF Synced
  <2> QED
    BY <2>1, <2>4 DEF HandledInv
<1>2. (NoneEmpty => HandledInv) /\ StreamInv => InStep
  <2> SUFFICES ASSUME HandledInv PROVE Tcp!InOrder
    BY DEF InStep, Tcp!InStep, NoneEmpty, StreamInv
  <2>1. handled \in Seq(Messages) /\ Len(handled) <= Len(sent) /\ \A i \in DOMAIN handled : handled[i] = sent[i]
    BY DEF HandledInv
  <2> QED
    BY <2>1 DEF Tcp!InOrder
<1> QED
  BY <1>1, <1>2, StreamCorrect, HandledStep, PTL DEF Spec
-----------------------------------------------------------------------------
(***************************************************************************)
(* Logic is told that the user has left                                    *)
(***************************************************************************)

MessageRooms == {m.room : m \in Messages} \ {NoRoom}

(* The Channel has the room of the last connect request that logic has executed, from Put to
   DisConnect. *)
JoinInv ==
    /\ pc \in {"scan", "handle", "put", "cleanup", "disconnect", "done"}
    /\ joined \in Seq(MessageRooms)
    /\ pc \in {"scan", "handle", "cleanup", "disconnect"} =>
          ch = IF joined = <<>> THEN NoRoom ELSE joined[Len(joined)]
    /\ pc = "put" => joined # <<>> /\ cur.room = joined[Len(joined)]
    /\ pc = "disconnect" => ch # NoRoom
    /\ pc # "done" => left = <<>>
    /\ LeavesRoom

LEMMA JoinKept ==
    ASSUME JoinInv, UNCHANGED <<pc, joined, cur, ch, left>>
    PROVE  JoinInv'
BY DEF JoinInv, LeavesRoom, Tcp!LeavesRoom, MessageRooms

(* Each step keeps the room of the Channel that of the last Connect. *)
LEMMA JoinStep == StreamInv /\ JoinInv /\ [Next]_vars => JoinInv'
<1> SUFFICES ASSUME StreamInv, JoinInv, [Next]_vars PROVE JoinInv'
  OBVIOUS
<1> USE DEF Tcp!stream, Tcp!reader, Tcp!hist, Tcp!proc
<1>1. CASE UNCHANGED tcp
  BY <1>1, JoinKept DEF tcp
<1>2. CASE Tcp!Others
  BY <1>2, JoinKept DEF Tcp!Others, Tcp!Close, Tcp!WriterCloses, Tcp!Send
<1>3. ASSUME UNCHANGED <<joined, ch, left>>, pc \in {"scan", "handle"}, pc' \in {"scan", "handle", "cleanup"}
      PROVE  JoinInv'
  BY <1>3 DEF JoinInv, LeavesRoom, Tcp!LeavesRoom, MessageRooms
<1>4. CASE Tcp!Scan
  <2>1. ASSUME NEW k \in 1 .. Tcp!MaxToken, Tcp!Read(k) PROVE JoinInv'
    BY <2>1, JoinKept DEF Tcp!Read
  <2>2. ASSUME Tcp!Token PROVE JoinInv'
    BY <2>2, <1>3 DEF Tcp!Token
  <2>3. ASSUME Tcp!ScanEOF \/ Tcp!ScanError PROVE JoinInv'
    BY <2>3, <1>3 DEF Tcp!ScanEOF, Tcp!ScanError, Tcp!NextRound
  <2> QED
    BY <1>4, <2>1, <2>2, <2>3 DEF Tcp!Scan
<1>5. CASE Tcp!Handle
  <2>1. ASSUME Tcp!Undecoded \/ Tcp!Reject \/ Tcp!ConnectRefused \/ Tcp!RoomSend PROVE JoinInv'
    BY <2>1, <1>3 DEF Tcp!Undecoded, Tcp!NextRound, Tcp!Reject, Tcp!ConnectRefused, Tcp!RoomSend
  <2>2. ASSUME Tcp!ConnectFails PROVE JoinInv'
    BY <2>2, JoinKept DEF Tcp!ConnectFails, Tcp!CallFails
  <2>3. ASSUME Tcp!Connect PROVE JoinInv'
    <3>1. cur.room \in MessageRooms
      BY <2>3, MessagesAssumption
         DEF StreamInv, TcpTypeOK, Tcp!Connect, Tcp!Garbage, Tcp!IsMessage, MessageRooms
    <3>2. /\ pc = "handle" /\ pc' = "put" /\ joined' = Append(joined, cur.room) /\ UNCHANGED <<cur, ch, left>>
      BY <2>3 DEF Tcp!Connect
    <3>3. joined \in Seq(MessageRooms)
      BY DEF JoinInv
    <3>4. /\ joined' \in Seq(MessageRooms) /\ joined' # <<>> /\ joined'[Len(joined')] = cur.room
      BY <3>1, <3>2, <3>3, AppendProperties
    <3> QED
      BY <3>2, <3>4 DEF JoinInv, LeavesRoom, Tcp!LeavesRoom, MessageRooms
  <2>4. ASSUME Tcp!Put PROVE JoinInv'
    BY <2>4 DEF Tcp!Put, JoinInv, LeavesRoom, Tcp!LeavesRoom, MessageRooms
  <2> QED
    BY <1>5, <2>1, <2>2, <2>3, <2>4 DEF Tcp!Handle
<1>6. CASE Tcp!Clean
  <2>1. ASSUME Tcp!CleanupNothing PROVE JoinInv'
    <3>1. /\ pc = "cleanup" /\ ch = NoRoom /\ pc' = "done" /\ UNCHANGED <<joined, cur, ch, left>>
      BY <2>1 DEF Tcp!CleanupNothing
    <3>2. joined = <<>>
      <4>1. joined # <<>> => joined[Len(joined)] \in MessageRooms
        BY DEF JoinInv
      <4> QED
        BY <3>1, <4>1 DEF JoinInv, MessageRooms
    <3> QED
      BY <3>1, <3>2 DEF JoinInv, LeavesRoom, Tcp!LeavesRoom, MessageRooms
  <2>2. ASSUME Tcp!DeleteChannel PROVE JoinInv'
    BY <2>2 DEF Tcp!DeleteChannel, JoinInv, LeavesRoom, Tcp!LeavesRoom, MessageRooms
  <2>3. ASSUME Tcp!DisConnect PROVE JoinInv'
    <3>1. /\ pc = "disconnect" /\ pc' = "done" /\ left' = Append(left, ch) /\ UNCHANGED <<joined, cur, ch>>
      BY <2>3 DEF Tcp!DisConnect
    <3>2. joined # <<>> /\ joined \in Seq(MessageRooms) /\ ch = joined[Len(joined)] /\ left = <<>>
      BY <3>1 DEF JoinInv
    <3>3. left' = <<ch>>
      BY <3>1, <3>2
    <3>4. Len(joined) <= 1 => joined = <<ch>>
      BY <3>2
    <3> QED
      BY <3>1, <3>2, <3>3, <3>4 DEF JoinInv, LeavesRoom, Tcp!LeavesRoom, MessageRooms
  <2>4. ASSUME Tcp!DisConnectFails \/ Tcp!PanicEnds PROVE JoinInv'
    BY <2>4, JoinKept DEF Tcp!DisConnectFails, Tcp!CallFails, Tcp!PanicEnds
  <2> QED
    BY <1>6, <2>1, <2>2, <2>3, <2>4 DEF Tcp!Clean
<1> QED
  BY <1>1, <1>2, <1>4, <1>5, <1>6 DEF Next, LifeStep, ReadStep, PeerStep, Tcp!Reader, vars

(* Whichever return or panic ends the goroutine, and whatever it has read before, logic is told that the
   user has left the room it was told of, unless there were several. *)
THEOREM RoomIsLeft == Spec => []LeavesRoom
<1>1. InitAll => JoinInv
  BY DEF InitAll, Tcp!Init, JoinInv, LeavesRoom, Tcp!LeavesRoom
<1>2. JoinInv => LeavesRoom
  BY DEF JoinInv
<1> QED
  BY <1>1, <1>2, StreamCorrect, JoinStep, PTL DEF Spec

-----------------------------------------------------------------------------
(***************************************************************************)
(* What is served is ready                                                 *)
(***************************************************************************)

(* What the main goroutine has made by each point of its start, and that nothing is served
   before that. *)
LifeInv ==
    /\ module \in Modules
    /\ run \in {"init", "redis", "client", "server", "rpcServer", "listen", "notify", "notified",
                "wait", "serving", "shutdown"}
    /\ run = "redis" => module = "logic"
    /\ run = "client" => module # "logic" /\ "RpcLogicObj" \in ready
    /\ run = "server" => module \in Connect /\ {"RpcLogicObj", "logicRpcClient"} \subseteq ready
    /\ run \in {"init", "redis", "client", "server"} =>
          listener = "none" /\ \A a \in Addresses : rpc[a] = "none"
    /\ run \notin {"init", "redis", "client", "server"} => Needs[module] \subseteq ready
    /\ rpc \in [Addresses -> {"none", "starting", "listed", "serving", "deaf"}]

LEMMA LifeStepKeeps == LifeInv /\ Life => LifeInv'
<1> SUFFICES ASSUME LifeInv, Life PROVE LifeInv'
  OBVIOUS
<1> USE DEF LifeInv, Modules, Connect
<1>1. ASSUME InitPackages PROVE LifeInv'
  BY <1>1 DEF InitPackages
<1>2. ASSUME InitPublishRedisClient PROVE LifeInv'
  BY <1>2 DEF InitPublishRedisClient, Needs
<1>3. ASSUME InitLogicRpcClient PROVE LifeInv'
  BY <1>3 DEF InitLogicRpcClient
<1>4. ASSUME MakeServer PROVE LifeInv'
  BY <1>4 DEF MakeServer, Needs
<1>5. ASSUME InitRpcServer PROVE LifeInv'
  BY <1>5 DEF InitRpcServer, Needs
<1>6. ASSUME InitTcpServer \/ InitWebsocket PROVE LifeInv'
  BY <1>6 DEF InitTcpServer, InitWebsocket, End, Needs
<1>7. ASSUME RunApi PROVE LifeInv'
  BY <1>7 DEF RunApi, Needs
<1>8. ASSUME Notify \/ Receive PROVE LifeInv'
  BY <1>8 DEF Notify, Receive, Needs
<1>9. ASSUME ListenAndServe PROVE LifeInv'
  BY <1>9 DEF ListenAndServe, Needs
<1>10. ASSUME NEW a \in Addresses, RpcServer(a) PROVE LifeInv'
  BY <1>10 DEF RpcServer, RegisterName, Serve, Needs
<1>11. ASSUME Signal \/ Shutdown \/ ShutdownTimeout PROVE LifeInv'
  BY <1>11 DEF Signal, Shutdown, ShutdownTimeout, End, Needs
<1>12. ASSUME NEW q \in Requests, Accept(q) \/ Answer(q) PROVE LifeInv'
  BY <1>12 DEF Accept, Answer, Needs
<1> QED
  BY <1>1, <1>2, <1>3, <1>4, <1>5, <1>6, <1>7, <1>8, <1>9, <1>10, <1>11, <1>12 DEF Life, Starts

(* A process is never found in etcd, and never accepts a connection or a request, before it has
   made all that it uses to serve them. *)
THEOREM ReadyWhenServed == Spec => []ServesReady
<1>1. InitAll => LifeInv
  BY DEF InitAll, Init, LifeInv
<1>2. LifeInv /\ [Next]_vars => LifeInv'
  <2> SUFFICES ASSUME LifeInv, [Next]_vars PROVE LifeInv'
    OBVIOUS
  <2>1. CASE UNCHANGED <<module, run, ready, rpc, listener>>
    BY <2>1 DEF LifeInv, Modules, Connect, Needs
  <2>2. CASE Life
    BY <2>2, LifeStepKeeps
  <2> QED
    BY <2>1, <2>2 DEF Next, LifeStep, ReadStep, PeerStep, life, vars
<1>3. LifeInv => ServesReady
  BY DEF LifeInv, ServesReady
<1> QED
  BY <1>1, <1>2, <1>3, PTL DEF Spec

-----------------------------------------------------------------------------
(* What the process does to its connection is what TcpReader allows: a step of the process
   leaves the connection alone or ends with the process. *)
THEOREM ConnectionIsTcpReader == Spec => ReadsAsTcpReader
<1>1. InitAll => Tcp!Init
  BY DEF InitAll, Init, Tcp!Init
<1>2. [Next]_vars => [Tcp!Next]_(Tcp!vars)
  <2> SUFFICES ASSUME [Next]_vars PROVE Tcp!Next \/ UNCHANGED Tcp!vars
    OBVIOUS
  <2> USE DEF Tcp!vars, Tcp!stream, Tcp!reader, Tcp!hist, Tcp!proc, tcp
  <2>1. CASE LifeStep
    <3>1. CASE ended' = "no"
      BY <2>1, <3>1 DEF LifeStep, Life
    <3>2. CASE ended' # "no"
      BY <2>1, <3>2 DEF LifeStep, Life, Tcp!Next, Tcp!Die
    <3> QED
      BY <3>1, <3>2
  <2>2. CASE ReadStep \/ PeerStep
    BY <2>2 DEF ReadStep, PeerStep, Tcp!Next
  <2>3. CASE UNCHANGED vars
    BY <2>3 DEF vars, life
  <2> QED
    BY <2>1, <2>2, <2>3 DEF Next
<1> QED
  BY <1>1, <1>2, PTL DEF Spec, ReadsAsTcpReader, Tcp!Spec
=============================================================================
