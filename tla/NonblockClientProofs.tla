------------------------ MODULE NonblockClientProofs ------------------------
(***************************************************************************)
(* Safety of NonblockClient for every buffer size, every connection and    *)
(* pipe capacity, and every number of bytes; then, that each direction of  *)
(* it implements HalfRelay.                                                *)
(***************************************************************************)
EXTENDS NonblockClient, Integers, TLAPS

(* A window of a buffer holds what the buffer holds there. *)
LEMMA WindowElems ==
  ASSUME NEW buf, NEW o \in Nat, NEW i \in Nat, o <= i
  PROVE  /\ Len(Window(buf, o, i)) = i - o
         /\ \A k \in 1..(i - o) : Window(buf, o, i)[k] = buf[o + k]
  BY DEF Window

(* A window of a buffer of bytes is a sequence of bytes. *)
LEMMA WindowSeq ==
  ASSUME NEW S, NEW buf, NEW o \in Nat, NEW i \in Nat, o <= i,
         \A j \in (o + 1)..i : buf[j] \in S
  PROVE  Window(buf, o, i) \in Seq(S)
  BY DEF Window

(* n bytes, at most as many as two bounds allow. *)
LEMMA MinBound ==
  ASSUME NEW a \in Int, NEW b \in Int, NEW n \in 1..Min2(a, b)
  PROVE  n \in Nat /\ n >= 1 /\ n <= a /\ n <= b
  BY DEF Min2

(* read() into a buffer leaves it a buffer of bytes. *)
LEMMA StoredType ==
  ASSUME NEW S, NEW buf \in [1..MAXLINE -> S], NEW p \in Nat, NEW bytes \in Seq(S)
  PROVE  Stored(buf, p, bytes) \in [1..MAXLINE -> S]
  <1>1. \A j \in 1..MAXLINE : j > p /\ j <= p + Len(bytes) => bytes[j - p] \in S
    BY SizesAssumption DEF SizesAssumption
  <1> QED BY <1>1 DEF Stored

-----------------------------------------------------------------------------
(* Types. *)

LEMMA InitType == Init => TypeOK
  <1> SUFFICES ASSUME Init PROVE TypeOK
    OBVIOUS
  <1>1. to \in [1..MAXLINE -> Bytes] /\ fr \in [1..MAXLINE -> Bytes]
    BY SizesAssumption DEF SizesAssumption, Init, Bytes
  <1>2. /\ sent \in Seq(Bytes) /\ echoed \in Seq(Bytes) /\ out \in Seq(Bytes)
        /\ Len(sent) = 0 /\ Len(echoed) = 0 /\ Len(out) = 0
    BY DEF Init
  <1>3. /\ toiptr \in 0..MAXLINE /\ tooptr \in 0..toiptr
        /\ friptr \in 0..MAXLINE /\ froptr \in 0..friptr
        /\ typed \in 0..NBytes /\ taken \in 0..typed
        /\ srvGot = 0 /\ got = 0 /\ drained = 0 /\ shutdowns \in Nat
    BY SizesAssumption DEF SizesAssumption, Init
  <1>4. /\ pc = "select" /\ rset = {} /\ wset = {}
        /\ stdineof \in BOOLEAN /\ stdinClosed \in BOOLEAN
        /\ srvClosed \in BOOLEAN /\ srvDied \in BOOLEAN /\ reset \in BOOLEAN
        /\ faulty \subseteq Faults
    BY DEF Init
  <1> QED BY <1>1, <1>2, <1>3, <1>4 DEF TypeOK

LEMMA ReadStdinType == TypeOK /\ ReadStdin => TypeOK'
  <1> SUFFICES ASSUME TypeOK, ReadStdin PROVE TypeOK'
    OBVIOUS
  <1> USE SizesAssumption DEF SizesAssumption
  <1>1. CASE "stdin" \in rset /\ StdinData
    <2>1. PICK n \in 1..Min2(MAXLINE - toiptr, typed - taken) :
            /\ to' = Stored(to, toiptr, [k \in 1..n |-> taken + k])
            /\ toiptr' = toiptr + n
            /\ taken' = taken + n
      BY <1>1 DEF StdinData
    <2>2. n \in Nat /\ n <= MAXLINE - toiptr /\ n <= typed - taken
      BY <2>1 DEF Min2, TypeOK
    <2>3. [k \in 1..n |-> taken + k] \in Seq(Bytes)
      BY <2>2 DEF TypeOK, Bytes
    <2>4. to' \in [1..MAXLINE -> Bytes]
      <3>1. toiptr \in Nat /\ to \in [1..MAXLINE -> Bytes]
        BY DEF TypeOK
      <3> QED BY <2>1, <2>3, <3>1, StoredType
    <2> QED
      BY <1>1, <2>1, <2>2, <2>4, SMTT(60)
      DEF TypeOK, ReadStdin, StdinData, frVars, userVars, srvVars
  <1>2. CASE "stdin" \in rset /\ StdinEof
    BY <1>2 DEF TypeOK, ReadStdin, StdinEof, CallShutdown, toVars, frVars, userVars, srvVars
  <1>3. CASE "stdin" \notin rset
    BY <1>3 DEF TypeOK, ReadStdin, toVars, frVars, userVars, srvVars
  <1>4. CASE "stdin" \in rset /\ StdinError
    BY <1>4 DEF TypeOK, ReadStdin, StdinError, toVars, frVars, userVars, srvVars
  <1> QED BY <1>1, <1>2, <1>3, <1>4 DEF ReadStdin

LEMMA ReadSockType == TypeOK /\ ReadSock => TypeOK'
  <1> SUFFICES ASSUME TypeOK, ReadSock PROVE TypeOK'
    OBVIOUS
  <1> USE SizesAssumption DEF SizesAssumption
  <1>1. CASE "sock" \in rset /\ SockData
    <2>1. PICK n \in 1..Min2(MAXLINE - friptr, Len(echoed) - got) :
            /\ fr' = Stored(fr, friptr, Window(echoed, got, got + n))
            /\ friptr' = friptr + n
            /\ got' = got + n
      BY <1>1 DEF SockData
    <2>2. n \in Nat /\ n <= MAXLINE - friptr /\ n <= Len(echoed) - got
      BY <2>1 DEF Min2, TypeOK
    <2>3. Window(echoed, got, got + n) \in Seq(Bytes)
      <3>1. \A j \in (got + 1)..(got + n) : echoed[j] \in Bytes
        BY <2>2 DEF TypeOK
      <3>2. got \in Nat
        BY <2>2 DEF TypeOK
      <3> QED BY <2>2, <3>1, <3>2, WindowSeq
    <2>4. fr' \in [1..MAXLINE -> Bytes]
      <3>1. friptr \in Nat /\ fr \in [1..MAXLINE -> Bytes]
        BY DEF TypeOK
      <3> QED BY <2>1, <2>3, <3>1, StoredType
    <2> QED
      BY <1>1, <2>1, <2>2, <2>4
      DEF TypeOK, ReadSock, SockData, toVars, userVars, srvVars
  <1>2. CASE "sock" \in rset /\ (SockEof \/ SockError)
    BY <1>2 DEF TypeOK, ReadSock, SockEof, SockError, toVars, frVars, userVars, srvVars
  <1>3. CASE "sock" \notin rset
    BY <1>3 DEF TypeOK, ReadSock, toVars, frVars, userVars, srvVars
  <1> QED BY <1>1, <1>2, <1>3 DEF ReadSock

LEMMA WriteStdoutType == TypeOK /\ WriteStdout => TypeOK'
  <1> SUFFICES ASSUME TypeOK, WriteStdout PROVE TypeOK'
    OBVIOUS
  <1> USE SizesAssumption DEF SizesAssumption
  <1>0. \/ StdoutWritten /\ pc' = "sockwrite"
        \/ UNCHANGED <<froptr, friptr, out>> /\ pc' \in {"sockwrite", "failed"}
    BY DEF WriteStdout
  <1>1. CASE StdoutWritten /\ pc' = "sockwrite"
    <2>1. PICK n \in 1..Min2(friptr - froptr, PipeBuf - (Len(out) - drained)) :
            /\ out' = out \o Window(fr, froptr, froptr + n)
            /\ IF froptr + n = friptr THEN froptr' = 0 /\ friptr' = 0
                                      ELSE froptr' = froptr + n /\ UNCHANGED friptr
      BY <1>1 DEF StdoutWritten
    <2>2. n \in Nat /\ n <= friptr - froptr
      BY <2>1 DEF Min2, TypeOK
    <2>3. Window(fr, froptr, froptr + n) \in Seq(Bytes)
      <3>1. \A j \in (froptr + 1)..(froptr + n) : fr[j] \in Bytes
        BY <2>2 DEF TypeOK
      <3>2. froptr \in Nat
        BY <2>2 DEF TypeOK
      <3> QED BY <2>2, <3>1, <3>2, WindowSeq
    <2>4. out' \in Seq(Bytes) /\ Len(out') >= Len(out)
      BY <2>1, <2>3 DEF TypeOK
    <2>5. friptr' \in 0..MAXLINE /\ froptr' \in 0..friptr'
      <3>1. \/ friptr' = 0 /\ froptr' = 0
            \/ friptr' = friptr /\ froptr' = froptr + n
        BY <2>1
      <3>2. friptr \in 0..MAXLINE /\ froptr \in 0..friptr /\ MAXLINE \in Nat
        BY DEF TypeOK
      <3> QED BY <2>2, <3>1, <3>2
    <2> QED
      BY <1>1, <2>4, <2>5 DEF TypeOK, WriteStdout, toVars, sets, userVars, srvVars
  <1>2. CASE UNCHANGED <<froptr, friptr, out>> /\ pc' \in {"sockwrite", "failed"}
    BY <1>2 DEF TypeOK, WriteStdout, toVars, sets, userVars, srvVars
  <1> QED BY <1>0, <1>1, <1>2

LEMMA WriteSockType == TypeOK /\ WriteSock => TypeOK'
  <1> SUFFICES ASSUME TypeOK, WriteSock PROVE TypeOK'
    OBVIOUS
  <1> USE SizesAssumption DEF SizesAssumption
  <1>1. CASE SockWritten
    <2>1. PICK n \in 1..Min2(toiptr - tooptr, SndBuf - (Len(sent) - srvGot)) :
            /\ sent' = sent \o Window(to, tooptr, tooptr + n)
            /\ IF tooptr + n = toiptr
                 THEN /\ tooptr' = 0 /\ toiptr' = 0
                      /\ IF stdineof THEN CallShutdown("select")
                                     ELSE pc' = "select" /\ UNCHANGED shutdowns
                 ELSE /\ tooptr' = tooptr + n
                      /\ pc' = "select"
                      /\ UNCHANGED <<toiptr, shutdowns>>
      BY <1>1 DEF SockWritten
    <2>2. n \in Nat /\ n <= toiptr - tooptr
      BY <2>1 DEF Min2, TypeOK
    <2>3. Window(to, tooptr, tooptr + n) \in Seq(Bytes)
      <3>1. \A j \in (tooptr + 1)..(tooptr + n) : to[j] \in Bytes
        BY <2>2 DEF TypeOK
      <3>2. tooptr \in Nat
        BY <2>2 DEF TypeOK
      <3> QED BY <2>2, <3>1, <3>2, WindowSeq
    <2>4. sent' \in Seq(Bytes) /\ Len(sent') >= Len(sent)
      BY <2>1, <2>3 DEF TypeOK
    <2>5. toiptr' \in 0..MAXLINE /\ tooptr' \in 0..toiptr'
      <3>1. \/ toiptr' = 0 /\ tooptr' = 0
            \/ toiptr' = toiptr /\ tooptr' = tooptr + n
        BY <2>1
      <3>2. toiptr \in 0..MAXLINE /\ tooptr \in 0..toiptr /\ MAXLINE \in Nat
        BY DEF TypeOK
      <3> QED BY <2>2, <3>1, <3>2
    <2>6. shutdowns' \in Nat /\ pc' \in {"select", "failed"}
      <3>1. CallShutdown("select") \/ (pc' = "select" /\ UNCHANGED shutdowns)
        BY <2>1
      <3> QED BY <3>1 DEF TypeOK, CallShutdown
    <2> QED
      BY <2>4, <2>5, <2>6, SMTT(60) DEF TypeOK, WriteSock, frVars, sets, userVars, srvVars
  <1>2. CASE pc' \in {"select", "failed"} /\ UNCHANGED <<toiptr, tooptr, sent, shutdowns>>
    BY <1>2 DEF TypeOK, WriteSock, frVars, sets, userVars, srvVars
  <1> QED BY <1>1, <1>2 DEF WriteSock

LEMMA SelectType == TypeOK /\ Select => TypeOK'
  BY DEF TypeOK, Select, WantRead, WantWrite, toVars, frVars, userVars, srvVars

(* The server's echo, the one environment step that builds a sequence. *)
LEMMA ServerEchoType == TypeOK /\ ServerEcho => TypeOK'
  <1> SUFFICES ASSUME TypeOK, ServerEcho PROVE TypeOK'
    OBVIOUS
  <1> USE SizesAssumption DEF SizesAssumption
  <1>1. PICK n \in 1..Min2(Len(sent) - srvGot, RcvBuf - (Len(echoed) - got)) :
          /\ echoed' = echoed \o Window(sent, srvGot, srvGot + n)
          /\ srvGot' = srvGot + n
    BY DEF ServerEcho
  <1>2. n \in Nat /\ n <= Len(sent) - srvGot
    BY <1>1 DEF Min2, TypeOK
  <1>3. Window(sent, srvGot, srvGot + n) \in Seq(Bytes)
    <2>1. \A j \in (srvGot + 1)..(srvGot + n) : sent[j] \in Bytes
      BY <1>2 DEF TypeOK
    <2>2. srvGot \in Nat
      BY <1>2 DEF TypeOK
    <2> QED BY <1>2, <2>1, <2>2, WindowSeq
  <1>4. echoed' \in Seq(Bytes) /\ Len(echoed') >= Len(echoed)
    BY <1>1, <1>3 DEF TypeOK
  <1> QED
    BY <1>1, <1>2, <1>4, SMTT(60)
    DEF TypeOK, ServerEcho, clientVars, toVars, frVars, sets, userVars

LEMMA EnvironmentType ==
  TypeOK /\ (Type \/ CloseStdin \/ ServerClose \/ ServerDie \/ Reset \/ SomethingBreaks \/ Drain) => TypeOK'
  <1> SUFFICES ASSUME TypeOK,
                      Type \/ CloseStdin \/ ServerClose \/ ServerDie \/ Reset \/ SomethingBreaks \/ Drain
               PROVE  TypeOK'
    OBVIOUS
  <1> USE SizesAssumption
      DEF SizesAssumption, TypeOK, clientVars, toVars, frVars, sets, userVars, srvVars
  <1>1. CASE Type
    BY <1>1 DEF Type
  <1>4. CASE CloseStdin
    BY <1>4 DEF CloseStdin
  <1>2. CASE ServerClose
    BY <1>2 DEF ServerClose
  <1>3. CASE ServerDie
    BY <1>3 DEF ServerDie
  <1>5. CASE Reset
    BY <1>5 DEF Reset
  <1>6. CASE Drain
    BY <1>6 DEF Drain
  <1>7. CASE SomethingBreaks
    BY <1>7 DEF SomethingBreaks, Break
  <1> QED BY <1>1, <1>2, <1>3, <1>4, <1>5, <1>6, <1>7

LEMMA NextType == TypeOK /\ [Next]_vars => TypeOK'
  <1> SUFFICES ASSUME TypeOK, [Next]_vars PROVE TypeOK'
    OBVIOUS
  <1>1. CASE UNCHANGED vars
    BY <1>1 DEF TypeOK, vars, toVars, frVars, sets, userVars, srvVars
  <1> QED
    BY <1>1, SelectType, ReadStdinType, ReadSockType, WriteStdoutType, WriteSockType,
       ServerEchoType, EnvironmentType
    DEF Next, Client

(* Every reachable state is well typed, and the positions of each buffer    *)
(* stay in order and within the buffer.                                     *)
THEOREM TypeCorrect == Spec => []TypeOK
  BY InitType, NextType, PTL DEF Spec

-----------------------------------------------------------------------------
(* Contents: which byte each place of the buffers and of the streams holds. *)

LEMMA Concat ==
  ASSUME NEW S, NEW s \in Seq(S), NEW t \in Seq(S)
  PROVE  /\ s \o t \in Seq(S)
         /\ Len(s \o t) = Len(s) + Len(t)
         /\ \A k \in 1..Len(s) : (s \o t)[k] = s[k]
         /\ \A k \in (Len(s) + 1)..(Len(s) + Len(t)) : (s \o t)[k] = t[k - Len(s)]
  OBVIOUS

UpBytes ==
  /\ Len(sent) + (toiptr - tooptr) = taken
  /\ \A k \in 1..Len(sent) : sent[k] = k
  /\ \A j \in (tooptr + 1)..toiptr : to[j] = Len(sent) + (j - tooptr)

DownBytes ==
  /\ Len(out) + (friptr - froptr) = got
  /\ \A k \in 1..Len(out) : out[k] = echoed[k]
  /\ \A j \in (froptr + 1)..friptr : fr[j] = echoed[Len(out) + (j - froptr)]

LEMMA InitBytes == Init => UpBytes /\ DownBytes
  BY DEF Init, UpBytes, DownBytes

LEMMA ReadStdinBytes == TypeOK /\ UpBytes /\ ReadStdin => UpBytes'
  <1> SUFFICES ASSUME TypeOK, UpBytes, ReadStdin PROVE UpBytes'
    OBVIOUS
  <1>t. /\ MAXLINE \in Nat /\ toiptr \in Nat /\ tooptr \in Nat /\ taken \in Nat
        /\ tooptr <= toiptr /\ toiptr <= MAXLINE
        /\ sent \in Seq(Bytes) /\ Len(sent) \in Nat
    BY SizesAssumption DEF SizesAssumption, TypeOK
  <1>1. CASE "stdin" \in rset /\ StdinData
    <2>1. PICK n \in 1..Min2(MAXLINE - toiptr, typed - taken) :
            /\ to' = Stored(to, toiptr, [k \in 1..n |-> taken + k])
            /\ toiptr' = toiptr + n
            /\ taken' = taken + n
      BY <1>1 DEF StdinData
    <2>2. n \in Nat /\ n <= MAXLINE - toiptr
      BY <2>1, SizesAssumption DEF SizesAssumption, Min2, TypeOK
    <2>3. sent' = sent /\ tooptr' = tooptr
      BY <1>1 DEF ReadStdin, StdinData
    <2>4. Len([k \in 1..n |-> taken + k]) = n
      BY <2>2
    <2>5. \A j \in 1..MAXLINE :
            to'[j] = IF j > toiptr /\ j <= toiptr + n THEN taken + (j - toiptr) ELSE to[j]
      BY <2>1, <2>2, <2>4 DEF Stored, TypeOK
    <2>6. \A j \in (tooptr' + 1)..toiptr' : to'[j] = Len(sent') + (j - tooptr')
      <3> SUFFICES ASSUME NEW j \in (tooptr + 1)..(toiptr + n)
                   PROVE  to'[j] = Len(sent) + (j - tooptr)
        BY <2>1, <2>3
      <3>1. j \in 1..MAXLINE
        BY <1>t, <2>2
      <3>2. CASE j <= toiptr
        BY <1>t, <2>5, <3>1, <3>2 DEF UpBytes
      <3>3. CASE j > toiptr
        <4>1. taken + (j - toiptr) = Len(sent) + (j - tooptr)
          BY <1>t, <3>1 DEF UpBytes
        <4> QED BY <2>5, <3>1, <3>3, <4>1
      <3> QED BY <1>t, <3>1, <3>2, <3>3
    <2> QED BY <1>t, <2>1, <2>2, <2>3, <2>6 DEF UpBytes
  <1>2. CASE UNCHANGED <<toVars, taken>>
    BY <1>2 DEF ReadStdin, UpBytes, toVars
  <1> QED BY <1>1, <1>2 DEF ReadStdin, StdinEof, StdinError

LEMMA WriteSockBytes == TypeOK /\ UpBytes /\ WriteSock => UpBytes'
  <1> SUFFICES ASSUME TypeOK, UpBytes, WriteSock PROVE UpBytes'
    OBVIOUS
  <1>t. /\ MAXLINE \in Nat /\ toiptr \in Nat /\ tooptr \in Nat /\ taken \in Nat
        /\ tooptr <= toiptr /\ toiptr <= MAXLINE
        /\ sent \in Seq(Bytes) /\ Len(sent) \in Nat
    BY SizesAssumption DEF SizesAssumption, TypeOK
  <1>0. to' = to /\ taken' = taken
    BY DEF WriteSock
  <1>1. CASE SockWritten
    <2>1. PICK n \in 1..Min2(toiptr - tooptr, SndBuf - (Len(sent) - srvGot)) :
            /\ sent' = sent \o Window(to, tooptr, tooptr + n)
            /\ IF tooptr + n = toiptr THEN tooptr' = 0 /\ toiptr' = 0
                                      ELSE tooptr' = tooptr + n /\ toiptr' = toiptr
      BY <1>1 DEF SockWritten
    <2>2. n \in Nat /\ n <= toiptr - tooptr
      BY <2>1, SizesAssumption DEF SizesAssumption, Min2, TypeOK
    <2>3. /\ Window(to, tooptr, tooptr + n) \in Seq(Bytes)
          /\ Len(Window(to, tooptr, tooptr + n)) = n
          /\ \A k \in 1..n : Window(to, tooptr, tooptr + n)[k] = to[tooptr + k]
      <3>1. \A j \in (tooptr + 1)..(tooptr + n) : to[j] \in Bytes
        BY <1>t, <2>2 DEF TypeOK
      <3>2. tooptr + n \in Nat /\ tooptr <= tooptr + n /\ (tooptr + n) - tooptr = n
        BY <1>t, <2>2
      <3>3. Window(to, tooptr, tooptr + n) \in Seq(Bytes)
        BY <1>t, <3>1, <3>2, WindowSeq
      <3>4. /\ Len(Window(to, tooptr, tooptr + n)) = (tooptr + n) - tooptr
            /\ \A k \in 1..((tooptr + n) - tooptr) : Window(to, tooptr, tooptr + n)[k] = to[tooptr + k]
        BY <1>t, <3>2, WindowElems
      <3> QED BY <3>2, <3>3, <3>4
    <2>4. sent \in Seq(Bytes) /\ Len(sent) \in Nat
      BY DEF TypeOK
    <2>5. /\ Len(sent') = Len(sent) + n
          /\ \A k \in 1..Len(sent) : sent'[k] = sent[k]
          /\ \A k \in (Len(sent) + 1)..(Len(sent) + n) : sent'[k] = to[tooptr + (k - Len(sent))]
      <3> DEFINE W == Window(to, tooptr, tooptr + n)
      <3>1. /\ sent' = sent \o W /\ sent \in Seq(Bytes) /\ W \in Seq(Bytes)
            /\ Len(sent) \in Nat /\ Len(W) = n
            /\ \A k \in 1..n : W[k] = to[tooptr + k]
        BY <2>1, <2>3, <2>4
      <3> HIDE DEF W
      <3>2. /\ Len(sent') = Len(sent) + n
            /\ \A k \in 1..Len(sent) : sent'[k] = sent[k]
            /\ \A k \in (Len(sent) + 1)..(Len(sent) + n) : sent'[k] = W[k - Len(sent)]
        <4>1. /\ Len(sent \o W) = Len(sent) + Len(W)
              /\ \A k \in 1..Len(sent) : (sent \o W)[k] = sent[k]
              /\ \A k \in (Len(sent) + 1)..(Len(sent) + Len(W)) : (sent \o W)[k] = W[k - Len(sent)]
          <5>1. sent \in Seq(Bytes) /\ W \in Seq(Bytes)
            BY <3>1
          <5> QED BY <5>1, Concat
        <4>2. sent' = sent \o W /\ Len(W) = n
          BY <3>1
        <4> QED BY <4>1, <4>2, Zenon
      <3>3. ASSUME NEW k \in (Len(sent) + 1)..(Len(sent) + n)
            PROVE  sent'[k] = to[tooptr + (k - Len(sent))]
        <4>1. k - Len(sent) \in 1..n
          BY <2>2, <2>4
        <4> QED BY <3>1, <3>2, <4>1
      <3> QED BY <3>2, <3>3
    <2>6. \A k \in 1..Len(sent') : sent'[k] = k
      <3> SUFFICES ASSUME NEW k \in 1..Len(sent') PROVE sent'[k] = k
        OBVIOUS
      <3>1. CASE k <= Len(sent)
        BY <2>4, <2>5, <3>1 DEF UpBytes
      <3>2. CASE k > Len(sent)
        <4>1. tooptr + (k - Len(sent)) \in (tooptr + 1)..toiptr
          BY <1>t, <2>2, <2>5, <3>2
        <4>2. sent'[k] = to[tooptr + (k - Len(sent))]
          BY <2>4, <2>5, <3>2
        <4>3. Len(sent) + ((tooptr + (k - Len(sent))) - tooptr) = k
          BY <1>t, <2>2, <2>5
        <4> QED BY <1>t, <4>1, <4>2, <4>3 DEF UpBytes
      <3> QED BY <2>4, <2>5, <3>1, <3>2
    <2>7. \A j \in (tooptr' + 1)..toiptr' : to'[j] = Len(sent') + (j - tooptr')
      <3>1. CASE tooptr + n = toiptr
        BY <2>1, <3>1
      <3>2. CASE tooptr + n # toiptr
        <4> SUFFICES ASSUME NEW j \in (tooptr + n + 1)..toiptr
                     PROVE  to[j] = Len(sent) + n + (j - (tooptr + n))
          BY <1>0, <2>1, <2>5, <3>2
        <4>1. /\ j \in (tooptr + 1)..toiptr
              /\ Len(sent) + n + (j - (tooptr + n)) = Len(sent) + (j - tooptr)
          BY <1>t, <2>2
        <4> QED BY <4>1 DEF UpBytes
      <3> QED BY <3>1, <3>2
    <2>8. Len(sent') + (toiptr' - tooptr') = taken'
      <3>1. Len(sent) + (toiptr - tooptr) = taken
        BY DEF UpBytes
      <3>2. Len(sent') = Len(sent) + n
        BY <2>5
      <3>3. toiptr' - tooptr' = (toiptr - tooptr) - n
        BY <1>t, <2>1, <2>2
      <3>4. taken' = taken
        BY <1>0
      <3> QED BY <1>t, <2>2, <3>1, <3>2, <3>3, <3>4
    <2> QED BY <2>6, <2>7, <2>8 DEF UpBytes
  <1>2. CASE UNCHANGED <<toiptr, tooptr, sent>>
    BY <1>0, <1>2 DEF UpBytes
  <1> QED BY <1>1, <1>2 DEF WriteSock

LEMMA ReadSockBytes == TypeOK /\ DownBytes /\ ReadSock => DownBytes'
  <1> SUFFICES ASSUME TypeOK, DownBytes, ReadSock PROVE DownBytes'
    OBVIOUS
  <1>t. /\ MAXLINE \in Nat /\ friptr \in Nat /\ froptr \in Nat /\ got \in Nat
        /\ froptr <= friptr /\ friptr <= MAXLINE
        /\ out \in Seq(Bytes) /\ Len(out) \in Nat
    BY SizesAssumption DEF SizesAssumption, TypeOK
  <1>0. out' = out /\ echoed' = echoed
    BY DEF ReadSock, srvVars
  <1>1. CASE "sock" \in rset /\ SockData
    <2>1. PICK n \in 1..Min2(MAXLINE - friptr, Len(echoed) - got) :
            /\ fr' = Stored(fr, friptr, Window(echoed, got, got + n))
            /\ friptr' = friptr + n
            /\ got' = got + n
      BY <1>1 DEF SockData
    <2>2. n \in Nat /\ n <= MAXLINE - friptr /\ n <= Len(echoed) - got
      BY <2>1, SizesAssumption DEF SizesAssumption, Min2, TypeOK
    <2>3. froptr' = froptr
      BY <1>1 DEF ReadSock, SockData
    <2>4. /\ Len(Window(echoed, got, got + n)) = n
          /\ \A k \in 1..n : Window(echoed, got, got + n)[k] = echoed[got + k]
      <3>1. got + n \in Nat /\ got <= got + n /\ (got + n) - got = n
        BY <1>t, <2>2
      <3>2. /\ Len(Window(echoed, got, got + n)) = (got + n) - got
            /\ \A k \in 1..((got + n) - got) : Window(echoed, got, got + n)[k] = echoed[got + k]
        BY <1>t, <3>1, WindowElems
      <3> QED BY <3>1, <3>2
    <2>5. \A j \in 1..MAXLINE :
            fr'[j] = IF j > friptr /\ j <= friptr + n THEN echoed[got + (j - friptr)] ELSE fr[j]
      <3> SUFFICES ASSUME NEW j \in 1..MAXLINE
                   PROVE  fr'[j] = IF j > friptr /\ j <= friptr + n
                                     THEN echoed[got + (j - friptr)] ELSE fr[j]
        OBVIOUS
      <3>1. fr'[j] = IF j > friptr /\ j <= friptr + n
                       THEN Window(echoed, got, got + n)[j - friptr] ELSE fr[j]
        BY <2>1, <2>4 DEF Stored
      <3>2. j > friptr /\ j <= friptr + n => j - friptr \in 1..n
        BY <1>t, <2>2
      <3> QED BY <2>4, <3>1, <3>2
    <2>6. \A j \in (froptr' + 1)..friptr' : fr'[j] = echoed'[Len(out') + (j - froptr')]
      <3> SUFFICES ASSUME NEW j \in (froptr + 1)..(friptr + n)
                   PROVE  fr'[j] = echoed[Len(out) + (j - froptr)]
        BY <1>0, <2>1, <2>3
      <3>1. j \in 1..MAXLINE /\ Len(out) \in Nat
        BY <1>t, <2>2 DEF TypeOK
      <3>2. CASE j <= friptr
        <4>1. fr'[j] = fr[j]
          BY ONLY <1>t, <2>5, <3>1, <3>2
        <4>2. j \in (froptr + 1)..friptr
          BY <1>t, <2>2, <3>2
        <4>3. \A i \in (froptr + 1)..friptr : fr[i] = echoed[Len(out) + (i - froptr)]
          BY DEF DownBytes
        <4> QED BY ONLY <4>1, <4>2, <4>3
      <3>3. CASE j > friptr
        <4>1. got + (j - friptr) = Len(out) + (j - froptr)
          BY <1>t, <3>1 DEF DownBytes
        <4> QED BY <2>5, <3>1, <3>3, <4>1
      <3> QED BY <1>t, <2>2, <3>1, <3>2, <3>3
    <2>7. Len(out') + (friptr' - froptr') = got'
      <3>1. Len(out) + (friptr - froptr) = got
        BY DEF DownBytes
      <3>2. friptr' - froptr' = (friptr - froptr) + n
        BY <1>t, <2>1, <2>2, <2>3
      <3>3. got' = got + n /\ out' = out
        BY <1>0, <2>1
      <3> QED BY <1>t, <2>2, <3>1, <3>2, <3>3
    <2>8. \A k \in 1..Len(out') : out'[k] = echoed'[k]
      BY <1>0 DEF DownBytes
    <2> QED BY <2>6, <2>7, <2>8 DEF DownBytes
  <1>2. CASE UNCHANGED <<frVars, got>>
    BY <1>0, <1>2 DEF DownBytes, frVars
  <1> QED BY <1>1, <1>2 DEF ReadSock, SockEof, SockError

LEMMA WriteStdoutBytes == TypeOK /\ DownBytes /\ WriteStdout => DownBytes'
  <1> SUFFICES ASSUME TypeOK, DownBytes, WriteStdout PROVE DownBytes'
    OBVIOUS
  <1>t. /\ MAXLINE \in Nat /\ friptr \in Nat /\ froptr \in Nat /\ got \in Nat
        /\ froptr <= friptr /\ friptr <= MAXLINE
        /\ out \in Seq(Bytes) /\ Len(out) \in Nat
    BY SizesAssumption DEF SizesAssumption, TypeOK
  <1>0. fr' = fr /\ got' = got /\ echoed' = echoed
    BY DEF WriteStdout, srvVars
  <1>1. CASE StdoutWritten
    <2>1. PICK n \in 1..Min2(friptr - froptr, PipeBuf - (Len(out) - drained)) :
            /\ out' = out \o Window(fr, froptr, froptr + n)
            /\ IF froptr + n = friptr THEN froptr' = 0 /\ friptr' = 0
                                      ELSE froptr' = froptr + n /\ friptr' = friptr
      BY <1>1 DEF StdoutWritten
    <2>2. n \in Nat /\ n <= friptr - froptr
      BY <2>1, SizesAssumption DEF SizesAssumption, Min2, TypeOK
    <2>3. /\ Window(fr, froptr, froptr + n) \in Seq(Bytes)
          /\ Len(Window(fr, froptr, froptr + n)) = n
          /\ \A k \in 1..n : Window(fr, froptr, froptr + n)[k] = fr[froptr + k]
      <3>1. \A j \in (froptr + 1)..(froptr + n) : fr[j] \in Bytes
        BY <1>t, <2>2 DEF TypeOK
      <3>2. froptr + n \in Nat /\ froptr <= froptr + n /\ (froptr + n) - froptr = n
        BY <1>t, <2>2
      <3>3. Window(fr, froptr, froptr + n) \in Seq(Bytes)
        BY <1>t, <3>1, <3>2, WindowSeq
      <3>4. /\ Len(Window(fr, froptr, froptr + n)) = (froptr + n) - froptr
            /\ \A k \in 1..((froptr + n) - froptr) : Window(fr, froptr, froptr + n)[k] = fr[froptr + k]
        BY <1>t, <3>2, WindowElems
      <3> QED BY <3>2, <3>3, <3>4
    <2>4. out \in Seq(Bytes) /\ Len(out) \in Nat
      BY DEF TypeOK
    <2>5. /\ Len(out') = Len(out) + n
          /\ \A k \in 1..Len(out) : out'[k] = out[k]
          /\ \A k \in (Len(out) + 1)..(Len(out) + n) : out'[k] = fr[froptr + (k - Len(out))]
      <3> DEFINE W == Window(fr, froptr, froptr + n)
      <3>1. /\ out' = out \o W /\ out \in Seq(Bytes) /\ W \in Seq(Bytes)
            /\ Len(out) \in Nat /\ Len(W) = n
            /\ \A k \in 1..n : W[k] = fr[froptr + k]
        BY <2>1, <2>3, <2>4
      <3> HIDE DEF W
      <3>2. /\ Len(out') = Len(out) + n
            /\ \A k \in 1..Len(out) : out'[k] = out[k]
            /\ \A k \in (Len(out) + 1)..(Len(out) + n) : out'[k] = W[k - Len(out)]
        <4>1. /\ Len(out \o W) = Len(out) + Len(W)
              /\ \A k \in 1..Len(out) : (out \o W)[k] = out[k]
              /\ \A k \in (Len(out) + 1)..(Len(out) + Len(W)) : (out \o W)[k] = W[k - Len(out)]
          <5>1. out \in Seq(Bytes) /\ W \in Seq(Bytes)
            BY <3>1
          <5> QED BY <5>1, Concat
        <4>2. out' = out \o W /\ Len(W) = n
          BY <3>1
        <4> QED BY <4>1, <4>2, Zenon
      <3>3. ASSUME NEW k \in (Len(out) + 1)..(Len(out) + n)
            PROVE  out'[k] = fr[froptr + (k - Len(out))]
        <4>1. k - Len(out) \in 1..n
          BY <2>2, <2>4
        <4> QED BY <3>1, <3>2, <4>1
      <3> QED BY <3>2, <3>3
    <2>6. \A k \in 1..Len(out') : out'[k] = echoed[k]
      <3> SUFFICES ASSUME NEW k \in 1..Len(out') PROVE out'[k] = echoed[k]
        OBVIOUS
      <3>1. CASE k <= Len(out)
        BY <2>4, <2>5, <3>1 DEF DownBytes
      <3>2. CASE k > Len(out)
        <4>1. froptr + (k - Len(out)) \in (froptr + 1)..friptr
          BY <1>t, <2>2, <2>5, <3>2
        <4>2. out'[k] = fr[froptr + (k - Len(out))]
          BY <2>4, <2>5, <3>2
        <4>3. Len(out) + ((froptr + (k - Len(out))) - froptr) = k
          BY <1>t, <2>2, <2>5
        <4> QED BY <4>1, <4>2, <4>3 DEF DownBytes
      <3> QED BY <2>4, <2>5, <3>1, <3>2
    <2>7. \A j \in (froptr' + 1)..friptr' : fr'[j] = echoed'[Len(out') + (j - froptr')]
      <3>1. CASE froptr + n = friptr
        BY <2>1, <3>1
      <3>2. CASE froptr + n # friptr
        <4> SUFFICES ASSUME NEW j \in (froptr + n + 1)..friptr
                     PROVE  fr[j] = echoed[Len(out) + n + (j - (froptr + n))]
          BY <1>0, <2>1, <2>5, <3>2
        <4>1. /\ j \in (froptr + 1)..friptr
              /\ Len(out) + n + (j - (froptr + n)) = Len(out) + (j - froptr)
          BY <1>t, <2>2
        <4> QED BY <4>1 DEF DownBytes
      <3> QED BY <3>1, <3>2
    <2>8. Len(out') + (friptr' - froptr') = got'
      <3>1. Len(out) + (friptr - froptr) = got
        BY DEF DownBytes
      <3>2. Len(out') = Len(out) + n
        BY <2>5
      <3>3. friptr' - froptr' = (friptr - froptr) - n
        BY <1>t, <2>1, <2>2
      <3>4. got' = got
        BY <1>0
      <3> QED BY <1>t, <2>2, <3>1, <3>2, <3>3, <3>4
    <2> QED BY <1>0, <2>6, <2>7, <2>8 DEF DownBytes
  <1>2. CASE UNCHANGED <<froptr, friptr, out>>
    BY <1>0, <1>2 DEF DownBytes
  <1> QED BY <1>1, <1>2 DEF WriteStdout

(* The server appends: what it has written stays. *)
LEMMA ServerEchoBytes == TypeOK /\ DownBytes /\ ServerEcho => DownBytes'
  <1> SUFFICES ASSUME TypeOK, DownBytes, ServerEcho PROVE DownBytes'
    OBVIOUS
  <1>t. /\ friptr \in Nat /\ froptr \in Nat /\ got \in Nat /\ froptr <= friptr
        /\ Len(out) \in Nat /\ echoed \in Seq(Bytes) /\ Len(echoed) \in Nat
        /\ got <= Len(echoed)
    BY SizesAssumption DEF SizesAssumption, TypeOK
  <1>0. UNCHANGED <<fr, friptr, froptr, got, out>>
    BY DEF ServerEcho, clientVars, frVars
  <1>1. PICK n \in 1..Min2(Len(sent) - srvGot, RcvBuf - (Len(echoed) - got)) :
          echoed' = echoed \o Window(sent, srvGot, srvGot + n)
    BY DEF ServerEcho
  <1>2. n \in Nat /\ n <= Len(sent) - srvGot
    BY <1>1, SizesAssumption DEF SizesAssumption, Min2, TypeOK
  <1>3. Window(sent, srvGot, srvGot + n) \in Seq(Bytes)
    <2>1. \A j \in (srvGot + 1)..(srvGot + n) : sent[j] \in Bytes
      BY <1>2 DEF TypeOK
    <2>2. srvGot \in Nat /\ srvGot + n \in Nat /\ srvGot <= srvGot + n
      BY <1>2 DEF TypeOK
    <2> QED BY <2>1, <2>2, WindowSeq
  <1>4. \A k \in 1..Len(echoed) : echoed'[k] = echoed[k]
    BY <1>1, <1>3, <1>t, Concat
  <1>5. Len(out) + (friptr - froptr) = got
    BY DEF DownBytes
  <1>6. \A k \in 1..Len(out) : out[k] = echoed'[k]
    BY <1>t, <1>4, <1>5 DEF DownBytes
  <1>7. ASSUME NEW j \in (froptr + 1)..friptr
        PROVE  fr[j] = echoed'[Len(out) + (j - froptr)]
    <2>1. Len(out) + (j - froptr) \in 1..Len(echoed)
      BY <1>t, <1>5
    <2> QED BY <1>4, <2>1 DEF DownBytes
  <1> QED BY <1>0, <1>5, <1>6, <1>7 DEF DownBytes

LEMMA NextBytes ==
  TypeOK /\ UpBytes /\ DownBytes /\ [Next]_vars => UpBytes' /\ DownBytes'
  <1> SUFFICES ASSUME TypeOK, UpBytes, DownBytes, [Next]_vars
               PROVE  UpBytes' /\ DownBytes'
    OBVIOUS
  <1>1. CASE ReadStdin
    <2>1. UNCHANGED <<fr, friptr, froptr, got, out, echoed>>
      BY <1>1 DEF ReadStdin, frVars, srvVars
    <2> QED BY <1>1, <2>1, ReadStdinBytes DEF DownBytes
  <1>2. CASE ReadSock
    <2>1. UNCHANGED <<to, toiptr, tooptr, sent, taken>>
      BY <1>2 DEF ReadSock, toVars
    <2> QED BY <1>2, <2>1, ReadSockBytes DEF UpBytes
  <1>3. CASE WriteStdout
    <2>1. UNCHANGED <<to, toiptr, tooptr, sent, taken>>
      BY <1>3 DEF WriteStdout, toVars
    <2> QED BY <1>3, <2>1, WriteStdoutBytes DEF UpBytes
  <1>4. CASE WriteSock
    <2>1. UNCHANGED <<fr, friptr, froptr, got, out, echoed>>
      BY <1>4 DEF WriteSock, frVars, srvVars
    <2> QED BY <1>4, <2>1, WriteSockBytes DEF DownBytes
  <1>5. CASE ServerEcho
    <2>1. UNCHANGED <<to, toiptr, tooptr, sent, taken>>
      BY <1>5 DEF ServerEcho, clientVars, toVars
    <2> QED BY <1>5, <2>1, ServerEchoBytes DEF UpBytes
  <1>6. CASE UNCHANGED <<toVars, frVars, sent, taken, got, out, echoed>>
    BY <1>6 DEF UpBytes, DownBytes, toVars, frVars
  <1>7. ASSUME Select \/ Type \/ CloseStdin \/ ServerClose \/ ServerDie \/ Reset \/ SomethingBreaks \/ Drain
               \/ UNCHANGED vars
        PROVE  UNCHANGED <<toVars, frVars, sent, taken, got, out, echoed>>
    BY <1>7 DEF Select, Type, CloseStdin, ServerClose, ServerDie, Reset, SomethingBreaks, Break, Drain, vars,
                clientVars, srvVars
  <1> QED
    BY <1>1, <1>2, <1>3, <1>4, <1>5, <1>6, <1>7 DEF Next, Client

-----------------------------------------------------------------------------
(* Control: what the process is about to do, and what its peer has done. *)

(* An emptied buffer has started over. *)
EmptyAtStart ==
  /\ tooptr = toiptr => toiptr = 0
  /\ froptr = friptr => friptr = 0

(* What select was asked for still holds when the read is made. *)
Asked ==
  /\ pc = "stdin" /\ "stdin" \in rset =>
       ~stdineof /\ toiptr < MAXLINE /\ (taken < typed \/ stdinClosed \/ "stdin" \in faulty)
  /\ pc \in {"stdin", "sockread"} /\ "sock" \in rset => friptr < MAXLINE

HalfClose ==
  /\ stdineof => stdinClosed /\ taken = typed
  /\ shutdowns <= 1
  /\ shutdowns = 1 <=> stdineof /\ tooptr = toiptr

Peer ==
  /\ Len(echoed) = srvGot
  /\ srvDied => srvClosed
  /\ reset => srvDied \/ faulty # {}
  /\ srvClosed /\ ~srvDied => shutdowns = 1 /\ srvGot = Len(sent)

Exit ==
  /\ pc = "failed" => srvDied \/ faulty # {}
  /\ pc = "done" => srvClosed /\ (~srvDied => stdineof /\ got = Len(echoed))

Control == EmptyAtStart /\ Asked /\ HalfClose /\ Peer /\ Exit

LEMMA InitControl == Init => Control
  <1> SUFFICES ASSUME Init PROVE Control
    OBVIOUS
  <1>1. Len(echoed) = 0
    BY DEF Init
  <1> QED BY <1>1 DEF Init, Control, EmptyAtStart, Asked, HalfClose, Peer, Exit

LEMMA SelectControl == TypeOK /\ Control /\ Select => Control'
  <1> SUFFICES ASSUME TypeOK, Control, Select PROVE Control'
    OBVIOUS
  <1> USE DEF Select, toVars, frVars, userVars, srvVars
  <1>1. EmptyAtStart' /\ HalfClose' /\ Peer'
    BY DEF Control, EmptyAtStart, HalfClose, Peer
  <1>2. Asked'
    BY DEF Asked, WantRead, StdinReadable, StdinFails
  <1>3. Exit'
    BY DEF Exit
  <1> QED BY <1>1, <1>2, <1>3 DEF Control

LEMMA ReadStdinControl == TypeOK /\ Control /\ ReadStdin => Control'
  <1> SUFFICES ASSUME TypeOK, Control, ReadStdin PROVE Control'
    OBVIOUS
  <1>0. /\ pc = "stdin" /\ UNCHANGED <<fr, friptr, froptr, rset, typed, stdinClosed, sent, got>>
        /\ UNCHANGED <<srvGot, echoed, srvClosed, srvDied, reset, faulty>>
    BY DEF ReadStdin, frVars, userVars, srvVars
  <1>t. /\ toiptr \in Nat /\ tooptr \in Nat /\ tooptr <= toiptr /\ MAXLINE \in Nat
        /\ shutdowns \in Nat /\ taken \in Nat /\ typed \in Nat
    BY SizesAssumption DEF SizesAssumption, TypeOK
  <1>1. CASE "stdin" \in rset /\ StdinData
    <2>1. PICK n \in 1..Min2(MAXLINE - toiptr, typed - taken) : toiptr' = toiptr + n
      BY <1>1 DEF StdinData
    <2>2. n \in Nat /\ n >= 1
      BY <2>1, <1>t DEF Min2
    <2>3. tooptr' = tooptr /\ stdineof' = stdineof /\ shutdowns' = shutdowns /\ pc' = "sockread"
      BY <1>1 DEF StdinData
    <2>4. ~stdineof
      BY <1>0, <1>1 DEF Control, Asked
    <2>5. EmptyAtStart' /\ HalfClose'
      BY <1>0, <1>t, <2>1, <2>2, <2>3, <2>4 DEF Control, EmptyAtStart, HalfClose
    <2>6. Asked' /\ Exit'
      BY <1>0, <2>3 DEF Control, Asked, Exit
    <2>7. Peer'
      BY <1>0, <2>3 DEF Control, Peer
    <2> QED BY <2>5, <2>6, <2>7 DEF Control
  <1>2. CASE "stdin" \in rset /\ StdinEof
    <2>1. stdineof' = TRUE /\ UNCHANGED <<toiptr, tooptr, taken>>
      BY <1>2 DEF StdinEof, toVars
    <2>2. ~stdineof /\ taken = typed /\ stdinClosed /\ shutdowns = 0
      <3>1. ~stdineof /\ toiptr < MAXLINE
        BY <1>0, <1>2 DEF Control, Asked
      <3> QED BY <1>2, <1>t, <3>1 DEF Control, HalfClose, StdinEof
    <2>3. CASE tooptr = toiptr
      <3>1. shutdowns' = 1 /\ pc' = IF reset THEN "failed" ELSE "sockread"
        BY <1>2, <2>2, <2>3 DEF StdinEof, CallShutdown
      <3>2. EmptyAtStart' /\ HalfClose'
        BY <1>0, <1>t, <2>1, <2>2, <2>3, <3>1 DEF Control, EmptyAtStart, HalfClose
      <3>3. Asked' /\ Exit' /\ Peer'
        BY <1>0, <2>2, <3>1 DEF Control, Asked, Exit, Peer
      <3> QED BY <3>2, <3>3 DEF Control
    <2>4. CASE tooptr # toiptr
      <3>1. shutdowns' = shutdowns /\ pc' = "sockread"
        BY <1>2, <2>4 DEF StdinEof
      <3>2. EmptyAtStart' /\ HalfClose'
        BY <1>0, <1>t, <2>1, <2>2, <2>4, <3>1 DEF Control, EmptyAtStart, HalfClose
      <3>3. Asked' /\ Exit' /\ Peer'
        BY <1>0, <2>2, <3>1 DEF Control, Asked, Exit, Peer
      <3> QED BY <3>2, <3>3 DEF Control
    <2> QED BY <2>3, <2>4
  <1>3. CASE "stdin" \notin rset
    <2>1. pc' = "sockread" /\ UNCHANGED <<toiptr, tooptr, stdineof, shutdowns, taken>>
      BY <1>3 DEF ReadStdin, toVars
    <2> QED BY <1>0, <2>1 DEF Control, EmptyAtStart, Asked, HalfClose, Peer, Exit
  <1>4. CASE "stdin" \in rset /\ StdinError
    <2>1. /\ pc' = "failed" /\ faulty # {}
          /\ UNCHANGED <<toiptr, tooptr, stdineof, shutdowns, taken>>
      BY <1>4 DEF StdinError, StdinFails, toVars
    <2> QED BY <1>0, <2>1 DEF Control, EmptyAtStart, Asked, HalfClose, Peer, Exit
  <1> QED BY <1>1, <1>2, <1>3, <1>4 DEF ReadStdin

LEMMA ReadSockControl == TypeOK /\ Control /\ ReadSock => Control'
  <1> SUFFICES ASSUME TypeOK, Control, ReadSock PROVE Control'
    OBVIOUS
  <1>0. /\ pc = "sockread"
        /\ UNCHANGED <<toiptr, tooptr, stdineof, rset, shutdowns, typed, stdinClosed, taken, sent>>
        /\ UNCHANGED <<srvGot, echoed, srvClosed, srvDied, reset, faulty>>
    BY DEF ReadSock, toVars, userVars, srvVars
  <1>t. /\ friptr \in Nat /\ froptr \in Nat /\ froptr <= friptr /\ MAXLINE \in Nat
        /\ got \in Nat /\ Len(echoed) \in Nat
    BY SizesAssumption DEF SizesAssumption, TypeOK
  <1>1. HalfClose' /\ Peer'
    BY <1>0 DEF Control, HalfClose, Peer
  <1>2. CASE "sock" \in rset /\ SockData
    <2>1. PICK n \in 1..Min2(MAXLINE - friptr, Len(echoed) - got) : friptr' = friptr + n
      BY <1>2 DEF SockData
    <2>2. n \in Nat /\ n >= 1
      BY <2>1, <1>t DEF Min2
    <2>3. froptr' = froptr /\ pc' = "stdout"
      BY <1>2 DEF SockData
    <2>4. EmptyAtStart'
      BY <1>0, <1>t, <2>1, <2>2, <2>3 DEF Control, EmptyAtStart
    <2>5. Asked' /\ Exit'
      BY <2>3 DEF Asked, Exit
    <2> QED BY <1>1, <2>4, <2>5 DEF Control
  <1>3. CASE "sock" \in rset /\ SockEof
    <2>1. UNCHANGED <<friptr, froptr, got>> /\ pc' = (IF stdineof THEN "done" ELSE "failed")
      BY <1>3 DEF SockEof, frVars
    <2>2. got = Len(echoed) /\ srvClosed
      BY <1>0, <1>3, <1>t DEF Control, Asked, SockEof
    <2>3. ~stdineof => srvDied
      BY <2>2 DEF Control, HalfClose, Peer
    <2>4. EmptyAtStart' /\ Asked'
      BY <1>0, <2>1 DEF Control, EmptyAtStart, Asked
    <2>5. Exit'
      BY <1>0, <2>1, <2>2, <2>3 DEF Exit
    <2> QED BY <1>1, <2>4, <2>5 DEF Control
  <1>4. CASE "sock" \in rset /\ SockError
    <2>1. UNCHANGED <<friptr, froptr, got>> /\ pc' = "failed" /\ (srvDied \/ faulty # {})
      BY <1>4 DEF SockError, frVars, Control, Peer
    <2> QED BY <1>0, <1>1, <2>1 DEF Control, EmptyAtStart, Asked, Exit
  <1>5. CASE "sock" \notin rset
    <2>1. UNCHANGED <<friptr, froptr, got>> /\ pc' = "stdout"
      BY <1>5 DEF ReadSock, frVars
    <2> QED BY <1>0, <1>1, <2>1 DEF Control, EmptyAtStart, Asked, Exit
  <1> QED BY <1>2, <1>3, <1>4, <1>5 DEF ReadSock

LEMMA WriteStdoutControl == TypeOK /\ Control /\ WriteStdout => Control'
  <1> SUFFICES ASSUME TypeOK, Control, WriteStdout PROVE Control'
    OBVIOUS
  <1>0. /\ pc = "stdout" /\ (pc' = "sockwrite" \/ (pc' = "failed" /\ faulty # {}))
        /\ UNCHANGED <<toiptr, tooptr, stdineof, rset, shutdowns, typed, stdinClosed, taken, sent, got>>
        /\ UNCHANGED <<srvGot, echoed, srvClosed, srvDied, reset, faulty>>
    BY DEF WriteStdout, StdoutFails, toVars, sets, userVars, srvVars
  <1>t. friptr \in Nat /\ froptr \in Nat /\ froptr <= friptr
    BY SizesAssumption DEF SizesAssumption, TypeOK
  <1>1. HalfClose' /\ Peer' /\ Exit' /\ Asked'
    BY <1>0 DEF Control, HalfClose, Peer, Exit, Asked
  <1>2. CASE StdoutWritten
    <2>1. PICK n \in 1..Min2(friptr - froptr, PipeBuf - (Len(out) - drained)) :
            IF froptr + n = friptr THEN froptr' = 0 /\ friptr' = 0
                                   ELSE froptr' = froptr + n /\ friptr' = friptr
      BY <1>2 DEF StdoutWritten
    <2>2. EmptyAtStart'
      BY <1>0, <2>1 DEF Control, EmptyAtStart
    <2> QED BY <1>1, <2>2 DEF Control
  <1>3. CASE UNCHANGED <<froptr, friptr, out>>
    BY <1>0, <1>1, <1>3 DEF Control, EmptyAtStart
  <1> QED BY <1>2, <1>3 DEF WriteStdout

LEMMA WriteSockControl == TypeOK /\ Control /\ WriteSock => Control'
  <1> SUFFICES ASSUME TypeOK, Control, WriteSock PROVE Control'
    OBVIOUS
  <1>0. /\ pc = "sockwrite"
        /\ UNCHANGED <<friptr, froptr, stdineof, rset, typed, stdinClosed, taken, got>>
        /\ UNCHANGED <<srvGot, echoed, srvClosed, srvDied, reset, faulty>>
    BY DEF WriteSock, frVars, sets, userVars, srvVars
  <1>t. toiptr \in Nat /\ tooptr \in Nat /\ tooptr <= toiptr /\ shutdowns \in Nat
    BY SizesAssumption DEF SizesAssumption, TypeOK
  <1>1. CASE toiptr > tooptr /\ ~reset /\ SockWritten
    <2>1. PICK n \in 1..Min2(toiptr - tooptr, SndBuf - (Len(sent) - srvGot)) :
            IF tooptr + n = toiptr
              THEN /\ tooptr' = 0 /\ toiptr' = 0
                   /\ IF stdineof THEN CallShutdown("select")
                                  ELSE pc' = "select" /\ UNCHANGED shutdowns
              ELSE /\ tooptr' = tooptr + n
                   /\ pc' = "select"
                   /\ UNCHANGED <<toiptr, shutdowns>>
      BY <1>1 DEF SockWritten
    <2>2. n \in Nat /\ n >= 1 /\ tooptr + n \in Nat
      BY <1>t, <2>1 DEF Min2
    <2>3. shutdowns = 0 /\ tooptr # toiptr
      BY <1>1, <1>t DEF Control, HalfClose
    <2>4. pc' = "select"
      BY <1>1, <2>1 DEF CallShutdown
    <2>5. HalfClose'
      <3>1. CASE tooptr + n = toiptr /\ stdineof
        <4>1. tooptr' = 0 /\ toiptr' = 0 /\ shutdowns' = 1
          BY <2>1, <2>3, <3>1 DEF CallShutdown
        <4> QED BY <1>0, <3>1, <4>1 DEF Control, HalfClose
      <3>2. CASE tooptr + n = toiptr /\ ~stdineof
        <4>1. shutdowns' = 0
          BY <2>1, <2>3, <3>2
        <4> QED BY <1>0, <3>2, <4>1 DEF HalfClose
      <3>3. CASE tooptr + n # toiptr
        <4>1. shutdowns' = 0 /\ tooptr' # toiptr'
          BY <2>1, <2>3, <3>3
        <4> QED BY <1>0, <4>1 DEF Control, HalfClose
      <3> QED BY <3>1, <3>2, <3>3
    <2>6. EmptyAtStart'
      BY <1>0, <2>1 DEF Control, EmptyAtStart
    <2>7. Peer'
      BY <1>0, <2>3 DEF Control, Peer
    <2> QED BY <1>0, <2>4, <2>5, <2>6, <2>7 DEF Control, Asked, Exit
  <1>2. CASE UNCHANGED <<toiptr, tooptr, sent, shutdowns>>
    <2>1. pc' = "select" \/ (pc' = "failed" /\ reset)
      BY <1>t, <1>2 DEF WriteSock, SockWritten
    <2> QED BY <1>0, <1>2, <2>1 DEF Control, EmptyAtStart, Asked, HalfClose, Peer, Exit
  <1> QED BY <1>1, <1>2 DEF WriteSock

(* A step of the server, the user or the reader of standard output. *)
LEMMA ServerEchoControl == TypeOK /\ Control /\ ServerEcho => Control'
  <1> SUFFICES ASSUME TypeOK, Control, ServerEcho PROVE Control'
    OBVIOUS
  <1>0. /\ ~srvClosed
        /\ UNCHANGED <<pc, toiptr, tooptr, friptr, froptr, stdineof, rset, shutdowns>>
        /\ UNCHANGED <<typed, stdinClosed, taken, sent, got, srvClosed, srvDied, reset, faulty>>
    BY DEF ServerEcho, clientVars, toVars, frVars, sets, userVars
  <1>1. PICK n \in 1..Min2(Len(sent) - srvGot, RcvBuf - (Len(echoed) - got)) :
          /\ echoed' = echoed \o Window(sent, srvGot, srvGot + n)
          /\ srvGot' = srvGot + n
    BY DEF ServerEcho
  <1>2. n \in Nat /\ n <= Len(sent) - srvGot /\ srvGot \in Nat
    BY <1>1, SizesAssumption DEF SizesAssumption, Min2, TypeOK
  <1>3. Len(echoed') = Len(echoed) + n
    <2>1. \A j \in (srvGot + 1)..(srvGot + n) : sent[j] \in Bytes
      BY <1>2 DEF TypeOK
    <2>2. srvGot + n \in Nat /\ srvGot <= srvGot + n /\ (srvGot + n) - srvGot = n
      BY <1>2
    <2>3. /\ Window(sent, srvGot, srvGot + n) \in Seq(Bytes)
          /\ Len(Window(sent, srvGot, srvGot + n)) = (srvGot + n) - srvGot
      BY <1>2, <2>1, <2>2, WindowSeq, WindowElems
    <2>4. echoed \in Seq(Bytes)
      BY DEF TypeOK
    <2> QED BY <1>1, <2>2, <2>3, <2>4, Concat
  <1>4. Peer'
    BY <1>0, <1>1, <1>3 DEF Control, Peer
  <1>5. EmptyAtStart' /\ Asked' /\ HalfClose' /\ Exit'
    BY <1>0 DEF Control, EmptyAtStart, Asked, HalfClose, Exit
  <1> QED BY <1>4, <1>5 DEF Control

LEMMA EnvironmentControl ==
  TypeOK /\ Control /\ (Type \/ CloseStdin \/ ServerClose \/ ServerDie \/ Reset \/ SomethingBreaks \/ Drain)
    => Control'
  <1> SUFFICES ASSUME TypeOK, Control,
                      Type \/ CloseStdin \/ ServerClose \/ ServerDie \/ Reset \/ SomethingBreaks \/ Drain
               PROVE  Control'
    OBVIOUS
  <1>t. taken \in Nat /\ typed \in Nat /\ taken <= typed /\ shutdowns \in Nat
    BY SizesAssumption DEF SizesAssumption, TypeOK
  <1> USE DEF Control, EmptyAtStart, Asked, HalfClose, Peer, Exit, clientVars, toVars,
              frVars, sets, userVars, srvVars
  <1>1. CASE Type
    BY <1>t, <1>1 DEF Type
  <1>2. CASE CloseStdin
    BY <1>2 DEF CloseStdin
  <1>3. CASE ServerClose
    BY <1>t, <1>3 DEF ServerClose
  <1>4. CASE ServerDie
    BY <1>4 DEF ServerDie
  <1>5. CASE Reset
    BY <1>5 DEF Reset
  <1>6. CASE Drain
    BY <1>6 DEF Drain
  <1>7. CASE SomethingBreaks
    BY <1>7 DEF SomethingBreaks, Break
  <1> QED BY <1>1, <1>2, <1>3, <1>4, <1>5, <1>6, <1>7

LEMMA NextControl == TypeOK /\ Control /\ [Next]_vars => Control'
  <1> SUFFICES ASSUME TypeOK, Control, [Next]_vars PROVE Control'
    OBVIOUS
  <1>1. CASE UNCHANGED vars
    BY <1>1 DEF Control, EmptyAtStart, Asked, HalfClose, Peer, Exit, vars, toVars, frVars,
                sets, userVars, srvVars
  <1> QED
    BY <1>1, SelectControl, ReadStdinControl, ReadSockControl, WriteStdoutControl,
       WriteSockControl, ServerEchoControl, EnvironmentControl
    DEF Next, Client

-----------------------------------------------------------------------------
(* The inductive invariant, and the theorems. *)

IInv == TypeOK /\ UpBytes /\ DownBytes /\ Control

LEMMA Inductive == Spec => []IInv
  <1>1. Init => IInv
    BY InitType, InitBytes, InitControl DEF IInv
  <1>2. IInv /\ [Next]_vars => IInv'
    BY NextType, NextBytes, NextControl DEF IInv
  <1> QED BY <1>1, <1>2, PTL DEF Spec

LEMMA SameSequence ==
  ASSUME NEW S, NEW s \in Seq(S), NEW t \in Seq(S), Len(s) = Len(t),
         \A k \in 1..Len(s) : s[k] = t[k]
  PROVE  s = t
  OBVIOUS

(* A stream followed by what waits in its buffer. *)
Follows(stream, buf, o, i, whole) ==
  /\ stream \in Seq(Bytes) /\ whole \in Seq(Bytes)
  /\ o \in Nat /\ i \in Nat /\ o <= i
  /\ Len(whole) = Len(stream) + (i - o)
  /\ \A k \in 1..Len(stream) : stream[k] = whole[k]
  /\ \A j \in (o + 1)..i : buf[j] \in Bytes /\ buf[j] = whole[Len(stream) + (j - o)]

LEMMA StreamAndBuffer ==
  ASSUME NEW stream, NEW buf, NEW o, NEW i, NEW whole, Follows(stream, buf, o, i, whole)
  PROVE  stream \o Window(buf, o, i) = whole
  <1> USE DEF Follows
  <1> DEFINE W == Window(buf, o, i)
  <1>1. W \in Seq(Bytes) /\ Len(W) = i - o /\ \A k \in 1..(i - o) : W[k] = buf[o + k]
    BY WindowSeq, WindowElems
  <1> HIDE DEF W
  <1>2. /\ stream \o W \in Seq(Bytes)
        /\ Len(stream \o W) = Len(stream) + Len(W)
        /\ \A k \in 1..Len(stream) : (stream \o W)[k] = stream[k]
        /\ \A k \in (Len(stream) + 1)..(Len(stream) + Len(W)) : (stream \o W)[k] = W[k - Len(stream)]
    BY <1>1, Concat
  <1>3. ASSUME NEW k \in 1..Len(stream \o W)
        PROVE  (stream \o W)[k] = whole[k]
    <2>0. Len(stream) \in Nat
      OBVIOUS
    <2>1. CASE k <= Len(stream)
      BY <1>2, <2>0, <2>1
    <2>2. CASE k > Len(stream)
      <3>1. k - Len(stream) \in 1..(i - o)
        BY <1>1, <1>2, <2>0, <2>2
      <3>2. (stream \o W)[k] = buf[o + (k - Len(stream))]
        BY <1>1, <1>2, <2>0, <2>2, <3>1
      <3>3. /\ o + (k - Len(stream)) \in (o + 1)..i
            /\ Len(stream) + ((o + (k - Len(stream))) - o) = k
        BY <2>0, <3>1
      <3> QED BY <3>2, <3>3
    <2> QED BY <1>1, <1>2, <2>0, <2>1, <2>2
  <1>4. stream \o W = whole
    BY <1>1, <1>2, <1>3, SameSequence
  <1> QED BY <1>4 DEF W

(* No byte is lost, repeated or reordered on its way through either buffer: *)
(* what was read is what was written followed by what the buffer holds.     *)
THEOREM BytesInOrder == Spec => []InOrder
  <1>1. ASSUME IInv PROVE InOrder
    <2>t. /\ toiptr \in Nat /\ tooptr \in Nat /\ tooptr <= toiptr /\ toiptr <= MAXLINE
          /\ friptr \in Nat /\ froptr \in Nat /\ froptr <= friptr /\ friptr <= MAXLINE
          /\ taken \in Nat /\ taken <= NBytes /\ got \in Nat /\ got <= Len(echoed)
          /\ sent \in Seq(Bytes) /\ out \in Seq(Bytes) /\ echoed \in Seq(Bytes)
          /\ Len(sent) \in Nat /\ Len(out) \in Nat /\ Len(echoed) \in Nat
      BY <1>1, SizesAssumption DEF SizesAssumption, IInv, TypeOK
    <2>1. sent \o Window(to, tooptr, toiptr) = [k \in 1..taken |-> k]
      <3> DEFINE whole == [k \in 1..taken |-> k]
      <3>1. \A k \in 1..taken : k \in Bytes
        BY <2>t, SizesAssumption DEF SizesAssumption, Bytes
      <3>2. whole \in Seq(Bytes) /\ Len(whole) = taken /\ \A k \in 1..taken : whole[k] = k
        BY <2>t, <3>1
      <3> HIDE DEF whole
      <3>3. Len(whole) = Len(sent) + (toiptr - tooptr)
        BY <1>1, <3>2 DEF IInv, UpBytes
      <3>4. \A k \in 1..Len(sent) : sent[k] = whole[k]
        BY <1>1, <2>t, <3>2, <3>3 DEF IInv, UpBytes
      <3>5. ASSUME NEW j \in (tooptr + 1)..toiptr
            PROVE  to[j] = whole[Len(sent) + (j - tooptr)]
        <4>1. Len(sent) + (j - tooptr) \in 1..taken
          BY <2>t, <3>2, <3>3
        <4>2. to[j] = Len(sent) + (j - tooptr)
          BY <1>1 DEF IInv, UpBytes
        <4> QED BY <3>2, <4>1, <4>2
      <3>6. \A j \in (tooptr + 1)..toiptr : to[j] \in Bytes
        BY <1>1, <2>t, SizesAssumption DEF SizesAssumption, IInv, TypeOK
      <3>7. sent \o Window(to, tooptr, toiptr) = whole
        <4>1. Follows(sent, to, tooptr, toiptr, whole)
          BY <2>t, <3>2, <3>3, <3>4, <3>5, <3>6 DEF Follows
        <4> QED BY <4>1, StreamAndBuffer
      <3> QED BY <3>7 DEF whole
    <2>2. out \o Window(fr, froptr, friptr) = Window(echoed, 0, got)
      <3> DEFINE whole == Window(echoed, 0, got)
      <3>1. \A k \in 1..(got - 0) : echoed[0 + k] \in Bytes
        BY <2>t
      <3>2. /\ whole \in Seq(Bytes) /\ Len(whole) = got
            /\ \A k \in 1..got : whole[k] = echoed[0 + k]
        BY <2>t, <3>1 DEF Window
      <3> HIDE DEF whole
      <3>3. Len(whole) = got /\ \A k \in 1..got : whole[k] = echoed[k]
        BY <2>t, <3>2
      <3>4. Len(whole) = Len(out) + (friptr - froptr)
        BY <1>1, <3>3 DEF IInv, DownBytes
      <3>5. \A k \in 1..Len(out) : out[k] = whole[k]
        BY <1>1, <2>t, <3>3, <3>4 DEF IInv, DownBytes
      <3>6. ASSUME NEW j \in (froptr + 1)..friptr
            PROVE  fr[j] = whole[Len(out) + (j - froptr)]
        <4>1. Len(out) + (j - froptr) \in 1..got
          BY <2>t, <3>3, <3>4
        <4>2. fr[j] = echoed[Len(out) + (j - froptr)]
          BY <1>1 DEF IInv, DownBytes
        <4> QED BY <3>3, <4>1, <4>2
      <3>7. \A j \in (froptr + 1)..friptr : fr[j] \in Bytes
        BY <1>1, <2>t, SizesAssumption DEF SizesAssumption, IInv, TypeOK
      <3>8. out \o Window(fr, froptr, friptr) = whole
        <4>1. Follows(out, fr, froptr, friptr, whole)
          BY <2>t, <3>2, <3>4, <3>5, <3>6, <3>7 DEF Follows
        <4> QED BY <4>1, StreamAndBuffer
      <3> QED BY <3>8 DEF whole
    <2> QED BY <2>1, <2>2 DEF InOrder
  <1> QED BY <1>1, Inductive, PTL

(* The two Shutdown calls of the loop never both run, never run while to[]  *)
(* holds a byte, and one of them has run once the input has ended and to[]  *)
(* is empty.                                                                *)
THEOREM FinExactlyOnce == Spec => []HalfCloseOnce
  <1>1. ASSUME IInv PROVE HalfCloseOnce
    <2>1. Len(sent) \in Nat /\ toiptr \in Nat /\ tooptr \in Nat
      BY <1>1, SizesAssumption DEF SizesAssumption, IInv, TypeOK
    <2> QED BY <1>1, <2>1 DEF IInv, Control, HalfClose, UpBytes, HalfCloseOnce
  <1> QED BY <1>1, Inductive, PTL

(* The process never blocks in select for good: a buffer that is full has a *)
(* byte to write, because an emptied buffer starts over.                    *)
THEOREM SelectAlwaysHasWork == Spec => []SelectHasWork
  <1>1. ASSUME IInv PROVE SelectHasWork
    <2>1. friptr \in Nat /\ friptr <= MAXLINE /\ MAXLINE > 0 /\ MAXLINE \in Nat
      BY <1>1, SizesAssumption DEF SizesAssumption, IInv, TypeOK
    <2>2. friptr < MAXLINE \/ froptr # friptr
      BY <1>1, <2>1 DEF IInv, Control, EmptyAtStart
    <2> QED BY <2>2 DEF SelectHasWork, WantRead, WantWrite
  <1> QED BY <1>1, Inductive, PTL

(* str_cli fails only after the server closed early; when it returns from a *)
(* server that did not, all that was typed went out and came back.          *)
THEOREM ExitsExplained == Spec => []ExitExplained
  <1>1. ASSUME IInv PROVE ExitExplained
    <2>1. Len(sent) \in Nat /\ toiptr \in Nat /\ tooptr \in Nat
      BY <1>1, SizesAssumption DEF SizesAssumption, IInv, TypeOK
    <2> QED
      BY <1>1, <2>1 DEF IInv, Control, HalfClose, Peer, Exit, UpBytes, ExitExplained
  <1> QED BY <1>1, Inductive, PTL

-----------------------------------------------------------------------------
(* Each direction of NonblockClient implements HalfRelay: the initial state *)
(* is one of the relay, and every step of the client and of its peers is a  *)
(* step of the relay or a stutter.  First, windows as queues.               *)

LEMMA WindowEmpty == \A buf : \A p \in Nat : Window(buf, p, p) = <<>>
  <1> SUFFICES ASSUME NEW buf, NEW p \in Nat PROVE Window(buf, p, p) = <<>>
    OBVIOUS
  <1>1. p - p = 0
    OBVIOUS
  <1> QED BY <1>1 DEF Window

(* The buffer new is old with bytes stored behind the window from o to i. *)
StoredBehind(S, old, new, o, i, n, bytes) ==
  /\ o \in Nat /\ i \in Nat /\ n \in Nat /\ o <= i
  /\ bytes \in Seq(S) /\ Len(bytes) = n
  /\ \A j \in (o + 1)..i : old[j] \in S /\ new[j] = old[j]
  /\ \A k \in 1..n : new[i + k] = bytes[k]

LEMMA WindowAppend ==
  ASSUME NEW S, NEW old, NEW new, NEW o, NEW i, NEW n, NEW bytes,
         StoredBehind(S, old, new, o, i, n, bytes)
  PROVE  Window(new, o, i + n) = Window(old, o, i) \o bytes
  <1> USE DEF StoredBehind
  <1>0. PICK m \in Nat : m = i + n
    OBVIOUS
  <1> DEFINE V == Window(old, o, i)
             W == Window(new, o, m)
  <1>1. V \in Seq(S) /\ Len(V) = i - o /\ \A k \in 1..(i - o) : V[k] = old[o + k]
    BY WindowSeq, WindowElems
  <1>2. o <= m /\ m - o = (i - o) + n /\ i - o \in Nat
    BY <1>0
  <1>3. ASSUME NEW j \in (o + 1)..m PROVE new[j] \in S
    <2>1. CASE j <= i
      BY <2>1
    <2>2. CASE j > i
      <3>1. j - i \in 1..n /\ i + (j - i) = j
        BY <1>0, <2>2
      <3> QED BY <3>1
    <2> QED BY <2>1, <2>2
  <1>4. W \in Seq(S)
    BY <1>0, <1>2, <1>3, WindowSeq
  <1>5. Len(W) = m - o /\ \A k \in 1..(m - o) : W[k] = new[o + k]
    BY <1>2 DEF Window
  <1> HIDE DEF V, W
  <1>6. /\ V \o bytes \in Seq(S)
        /\ Len(V \o bytes) = Len(V) + Len(bytes)
        /\ \A k \in 1..Len(V) : (V \o bytes)[k] = V[k]
        /\ \A k \in (Len(V) + 1)..(Len(V) + Len(bytes)) : (V \o bytes)[k] = bytes[k - Len(V)]
    <2>1. V \in Seq(S)
      BY <1>1
    <2> QED BY <2>1, Concat
  <1>7. ASSUME NEW k \in 1..Len(W) PROVE W[k] = (V \o bytes)[k]
    <2>1. CASE k <= i - o
      <3>1. k \in 1..(i - o) /\ o + k \in (o + 1)..i
        BY <1>2, <1>5, <2>1
      <3>2. W[k] = old[o + k]
        BY <1>2, <1>5, <3>1
      <3> QED BY <1>1, <1>6, <3>1, <3>2
    <2>2. CASE k > i - o
      <3>1. k - (i - o) \in 1..n /\ i + (k - (i - o)) = o + k
        BY <1>2, <1>5, <2>2
      <3>2. W[k] = bytes[k - (i - o)]
        BY <1>2, <1>5, <3>1
      <3>3. k \in (Len(V) + 1)..(Len(V) + n)
        BY <1>1, <1>2, <1>5, <2>2
      <3>4. (V \o bytes)[k] = bytes[k - Len(V)]
        BY <1>6, <3>3
      <3> QED BY <1>1, <3>2, <3>4
    <2>3. k <= i - o \/ k > i - o
      BY <1>2
    <2> QED BY <2>1, <2>2, <2>3, Zenon
  <1>8. W = V \o bytes
    BY <1>1, <1>2, <1>4, <1>5, <1>6, <1>7, SameSequence
  <1> QED BY <1>0, <1>8 DEF V, W

(* The buffer holds n elements of S or more from o to i. *)
Holds(S, buf, o, i, n) ==
  /\ o \in Nat /\ i \in Nat /\ n \in Nat /\ o + n <= i
  /\ \A j \in (o + 1)..i : buf[j] \in S

(* A write takes the front of a window and leaves the rest. *)
SplitAt(buf, o, i, n) ==
  /\ Window(buf, o, o + n) = SubSeq(Window(buf, o, i), 1, n)
  /\ Window(buf, o + n, i) = SubSeq(Window(buf, o, i), n + 1, Len(Window(buf, o, i)))

LEMMA WindowSplit ==
  ASSUME NEW S, NEW buf, NEW o, NEW i, NEW n, Holds(S, buf, o, i, n)
  PROVE  SplitAt(buf, o, i, n)
  <1> USE DEF Holds
  <1> DEFINE W == Window(buf, o, i)
  <1>1. Len(W) = i - o /\ \A k \in 1..(i - o) : W[k] = buf[o + k]
    BY DEF Window
  <1>2. W \in Seq(S)
    BY WindowSeq
  <1> HIDE DEF W
  <1>3. (o + n) - o = n /\ i - (o + n) = (i - o) - n /\ i - o \in Nat /\ n <= i - o
    OBVIOUS
  <1>4. SubSeq(W, 1, n) = [k \in 1..n |-> W[k]]
    BY <1>1, <1>2, <1>3
  <1>5. SubSeq(W, n + 1, Len(W)) = [k \in 1..((i - o) - n) |-> W[n + k]]
    BY <1>1, <1>2, <1>3
  <1>6. Window(buf, o, o + n) = [k \in 1..n |-> W[k]]
    BY <1>1, <1>3 DEF Window
  <1>7. Window(buf, o + n, i) = [k \in 1..((i - o) - n) |-> W[n + k]]
    <2>1. ASSUME NEW k \in 1..((i - o) - n) PROVE W[n + k] = buf[(o + n) + k]
      <3>1. n + k \in 1..(i - o) /\ o + (n + k) = (o + n) + k
        BY <1>3
      <3> QED BY <1>1, <3>1
    <2> QED BY <1>3, <2>1 DEF Window
  <1> QED BY <1>4, <1>5, <1>6, <1>7 DEF W, SplitAt

-----------------------------------------------------------------------------
(* Standard input to the socket. *)

LEMMA UpInitial == Init => Up!Init
  <1> SUFFICES ASSUME Init PROVE Up!Init
    OBVIOUS
  <1>1. Window(to, tooptr, toiptr) = <<>>
    BY WindowEmpty DEF Init
  <1> QED BY <1>1 DEF Up!Init, Init

LEMMA UpStutter ==
  UNCHANGED <<to, toiptr, tooptr, taken, sent, stdineof, shutdowns>> => UNCHANGED Up!vars
  BY DEF Up!vars, Window

(* What the step lemmas need of the positions and the buffer. *)
LEMMA UpTypes ==
  IInv => /\ MAXLINE \in Nat /\ toiptr \in Nat /\ tooptr \in Nat /\ taken \in Nat
          /\ tooptr <= toiptr /\ toiptr <= MAXLINE /\ shutdowns \in Nat
          /\ stdineof \in BOOLEAN
          /\ \A j \in (tooptr + 1)..toiptr : to[j] \in Bytes
          /\ Window(to, tooptr, toiptr) \in Seq(Bytes)
          /\ Len(Window(to, tooptr, toiptr)) = toiptr - tooptr
  <1> SUFFICES ASSUME IInv
               PROVE  /\ MAXLINE \in Nat /\ toiptr \in Nat /\ tooptr \in Nat /\ taken \in Nat
                      /\ tooptr <= toiptr /\ toiptr <= MAXLINE /\ shutdowns \in Nat
                      /\ stdineof \in BOOLEAN
                      /\ \A j \in (tooptr + 1)..toiptr : to[j] \in Bytes
                      /\ Window(to, tooptr, toiptr) \in Seq(Bytes)
                      /\ Len(Window(to, tooptr, toiptr)) = toiptr - tooptr
    OBVIOUS
  <1>1. /\ MAXLINE \in Nat /\ toiptr \in Nat /\ tooptr \in Nat /\ taken \in Nat
        /\ tooptr <= toiptr /\ toiptr <= MAXLINE /\ shutdowns \in Nat
        /\ stdineof \in BOOLEAN
    BY SizesAssumption DEF SizesAssumption, IInv, TypeOK
  <1>2. \A j \in (tooptr + 1)..toiptr : to[j] \in Bytes
    BY <1>1 DEF IInv, TypeOK
  <1> QED BY <1>1, <1>2, WindowSeq, WindowElems

(* A read that gives bytes is a Take. *)
LEMMA UpTake ==
  ASSUME IInv, ReadStdin, "stdin" \in rset, StdinData
  PROVE  Up!Take
  <1>1. PICK n \in 1..Min2(MAXLINE - toiptr, typed - taken) :
          /\ to' = Stored(to, toiptr, [k \in 1..n |-> taken + k])
          /\ toiptr' = toiptr + n
          /\ taken' = taken + n
    BY DEF StdinData
  <1>t. typed \in Nat /\ taken \in Nat /\ NBytes \in Nat /\ taken <= typed /\ typed <= NBytes
    BY SizesAssumption DEF SizesAssumption, IInv, TypeOK
  <1>2. n \in Nat /\ n >= 1 /\ n <= MAXLINE - toiptr /\ n <= typed - taken
    BY <1>1, <1>t, UpTypes, MinBound
  <1>3. ~stdineof
    BY DEF IInv, Control, Asked, ReadStdin
  <1>4. UNCHANGED <<tooptr, sent, stdineof, shutdowns>>
    BY DEF ReadStdin, StdinData
  <1> DEFINE bytes == [k \in 1..n |-> taken + k]
  <1>5. bytes \in Seq(Bytes) /\ Len(bytes) = n
    BY <1>t, <1>2 DEF Bytes
  <1>6. \A j \in (tooptr + 1)..toiptr : to'[j] = to[j]
    <2>1. ASSUME NEW j \in (tooptr + 1)..toiptr PROVE j \in 1..MAXLINE /\ ~(j > toiptr)
      BY UpTypes
    <2> QED BY <1>1, <2>1 DEF Stored
  <1>7. \A k \in 1..n : to'[toiptr + k] = bytes[k]
    <2>1. ASSUME NEW k \in 1..n
          PROVE  /\ toiptr + k \in 1..MAXLINE /\ toiptr + k > toiptr
                 /\ toiptr + k <= toiptr + n /\ (toiptr + k) - toiptr = k
      BY <1>2, UpTypes
    <2> QED BY <1>1, <1>5, <2>1 DEF Stored
  <1> HIDE DEF bytes
  <1>8. Window(to', tooptr, toiptr + n) = Window(to, tooptr, toiptr) \o bytes
    <2>1. /\ toiptr \in Nat /\ tooptr \in Nat /\ tooptr <= toiptr
          /\ \A j \in (tooptr + 1)..toiptr : to[j] \in Bytes /\ to'[j] = to[j]
      BY <1>6, UpTypes
    <2>2. StoredBehind(Bytes, to, to', tooptr, toiptr, n, bytes)
      BY <1>2, <1>5, <1>7, <2>1 DEF StoredBehind
    <2> QED BY <2>2, WindowAppend
  <1>9. n \in 1..(MAXLINE - Len(Window(to, tooptr, toiptr)))
    BY <1>2, UpTypes
  <1>10. Window(to, tooptr, toiptr)' = Window(to, tooptr, toiptr) \o [k \in 1..n |-> taken + k]
    BY <1>1, <1>4, <1>8 DEF bytes, Window
  <1> QED BY <1>1, <1>3, <1>4, <1>9, <1>10 DEF Up!Take

(* A read at the end of standard input is the EndOfSource. *)
LEMMA UpEof ==
  ASSUME IInv, ReadStdin, "stdin" \in rset, StdinEof
  PROVE  Up!EndOfSource
  <1>1. ~stdineof /\ shutdowns = 0
    BY UpTypes DEF IInv, Control, Asked, HalfClose, ReadStdin
  <1>2. UNCHANGED <<to, toiptr, tooptr, taken, sent>> /\ stdineof' = TRUE
    BY DEF ReadStdin, StdinEof, toVars
  <1>3. shutdowns' = IF tooptr = toiptr THEN 1 ELSE 0
    BY <1>1 DEF StdinEof, CallShutdown
  <1>4. Window(to, tooptr, toiptr) = <<>> <=> tooptr = toiptr
    BY UpTypes, WindowEmpty
  <1>5. (shutdowns > 0)' = (Window(to, tooptr, toiptr) = <<>>)
    BY <1>3, <1>4
  <1>6. UNCHANGED Window(to, tooptr, toiptr)
    BY <1>2 DEF Window
  <1> QED BY <1>1, <1>2, <1>5, <1>6 DEF Up!EndOfSource
(* A write that takes bytes is a Pass, followed by the FIN when it has taken *)
(* the last byte after the end of standard input.                           *)
LEMMA UpPass ==
  ASSUME IInv, WriteSock, SockWritten, toiptr > tooptr
  PROVE  Up!Pass
  <1>1. PICK n \in 1..Min2(toiptr - tooptr, SndBuf - (Len(sent) - srvGot)) :
          /\ sent' = sent \o Window(to, tooptr, tooptr + n)
          /\ IF tooptr + n = toiptr
               THEN /\ tooptr' = 0 /\ toiptr' = 0
                    /\ IF stdineof THEN CallShutdown("select")
                                   ELSE pc' = "select" /\ UNCHANGED shutdowns
               ELSE /\ tooptr' = tooptr + n
                    /\ pc' = "select"
                    /\ UNCHANGED <<toiptr, shutdowns>>
    BY DEF SockWritten
  <1>2. n \in Nat /\ n >= 1 /\ n <= toiptr - tooptr
    <2>1. SndBuf \in Int /\ Len(sent) \in Int /\ srvGot \in Int
      BY SizesAssumption DEF SizesAssumption, IInv, TypeOK
    <2>2. toiptr - tooptr \in Int /\ SndBuf - (Len(sent) - srvGot) \in Int
      BY <2>1, UpTypes
    <2> QED BY <1>1, <2>2, MinBound
  <1>3. UNCHANGED <<to, taken, stdineof>>
    BY DEF WriteSock
  <1>4. shutdowns = 0
    BY UpTypes DEF IInv, Control, HalfClose
  <1> DEFINE queue == Window(to, tooptr, toiptr)
             rest  == Window(to, tooptr + n, toiptr)
  <1>5. /\ Window(to, tooptr, tooptr + n) = SubSeq(queue, 1, n)
        /\ rest = SubSeq(queue, n + 1, Len(queue))
    <2>1. Holds(Bytes, to, tooptr, toiptr, n)
      BY <1>2, UpTypes DEF Holds
    <2>2. SplitAt(to, tooptr, toiptr, n)
      BY <2>1, WindowSplit
    <2> QED BY <2>2 DEF SplitAt
  <1>6. queue' = rest
    <2>1. CASE tooptr + n = toiptr
      <3>1. Window(to, 0, 0) = <<>> /\ Window(to, toiptr, toiptr) = <<>>
        BY UpTypes, WindowEmpty
      <3>2. queue' = Window(to, 0, 0)
        BY <1>1, <1>3, <2>1 DEF Window
      <3> QED BY <2>1, <3>1, <3>2
    <2>2. CASE tooptr + n # toiptr
      BY <1>1, <1>3, <2>2 DEF Window
    <2> QED BY <2>1, <2>2
  <1>7. rest = <<>> <=> tooptr + n = toiptr
    <2>1. CASE tooptr + n = toiptr
      <3>1. Window(to, toiptr, toiptr) = <<>>
        BY UpTypes, WindowEmpty
      <3> QED BY <2>1, <3>1
    <2>2. CASE tooptr + n # toiptr
      <3>1. toiptr - (tooptr + n) \in Nat /\ toiptr - (tooptr + n) > 0
        BY <1>2, <2>2, UpTypes
      <3>2. Len(rest) = toiptr - (tooptr + n)
        BY <3>1 DEF Window
      <3> QED BY <2>2, <3>1, <3>2
    <2> QED BY <2>1, <2>2
  <1>8. shutdowns' > 0 <=> stdineof /\ tooptr + n = toiptr
    BY <1>1, <1>4 DEF CallShutdown
  <1>9. (shutdowns > 0)' = (stdineof /\ queue' = <<>>)
    BY <1>6, <1>7, <1>8, UpTypes
  <1>10. n \in 1..Len(queue)
    BY <1>2, UpTypes
  <1>11. /\ sent' = sent \o SubSeq(queue, 1, n)
         /\ queue' = SubSeq(queue, n + 1, Len(queue))
    BY <1>1, <1>5, <1>6
  <1> QED BY <1>3, <1>9, <1>10, <1>11 DEF Up!Pass

LEMMA UpStep == IInv /\ [Next]_vars => [Up!Next]_(Up!vars)
  <1> SUFFICES ASSUME IInv, [Next]_vars
               PROVE  Up!Take \/ Up!EndOfSource \/ Up!Pass \/ UNCHANGED Up!vars
    BY DEF Up!Next
  <1>1. CASE ReadStdin
    <2>1. CASE "stdin" \notin rset
      BY <1>1, <2>1, UpStutter DEF ReadStdin, toVars
    <2>2. CASE StdinError
      BY <1>1, <2>2, UpStutter DEF ReadStdin, StdinError, toVars
    <2> QED BY <1>1, <2>1, <2>2, UpTake, UpEof DEF ReadStdin
  <1>2. CASE WriteSock
    <2>1. CASE UNCHANGED <<toiptr, tooptr, sent, shutdowns>>
      BY <1>2, <2>1, UpStutter DEF WriteSock
    <2>2. (SockWritten /\ toiptr > tooptr) \/ UNCHANGED <<toiptr, tooptr, sent, shutdowns>>
      BY <1>2 DEF WriteSock
    <2> QED BY <1>2, <2>1, <2>2, UpPass
  <1>3. CASE \/ Select \/ ReadSock \/ WriteStdout \/ ServerEcho \/ Type \/ CloseStdin
             \/ ServerClose \/ ServerDie \/ Reset \/ SomethingBreaks \/ Drain \/ UNCHANGED vars
    <2>1. UNCHANGED <<to, toiptr, tooptr, taken, sent, stdineof, shutdowns>>
      BY <1>3 DEF Select, ReadSock, WriteStdout, ServerEcho, Type, CloseStdin, ServerClose,
                  ServerDie, Reset, SomethingBreaks, Break, Drain, vars, clientVars, toVars
    <2> QED BY <2>1, UpStutter
  <1> QED BY <1>1, <1>2, <1>3 DEF Next, Client

(* Standard input to the socket is a relay: bytes are held in order, at     *)
(* most MAXLINE of them, and the socket is half-closed exactly when the     *)
(* last one has been written after the end of standard input.               *)
THEOREM UpImplementsRelay == Spec => UpRelay
  <1>1. Init => Up!Init
    BY UpInitial
  <1>2. IInv /\ [Next]_vars => [Up!Next]_(Up!vars)
    BY UpStep
  <1> QED BY <1>1, <1>2, Inductive, PTL DEF Spec, UpRelay, Up!Spec

-----------------------------------------------------------------------------
(* The socket to standard output.  That byte k of this stream is the number *)
(* k is the server's doing: it sends back what it has read.                 *)

EchoBytes ==
  /\ srvGot = Len(echoed)
  /\ \A k \in 1..Len(echoed) : echoed[k] = k

LEMMA ServerEchoEchoes == IInv /\ EchoBytes /\ ServerEcho => EchoBytes'
  <1> SUFFICES ASSUME IInv, EchoBytes, ServerEcho PROVE EchoBytes'
    OBVIOUS
  <1>t. /\ srvGot \in Nat /\ Len(sent) \in Nat /\ srvGot <= Len(sent)
        /\ sent \in Seq(Bytes) /\ echoed \in Seq(Bytes) /\ Len(echoed) \in Nat
        /\ RcvBuf \in Int /\ got \in Int
    BY SizesAssumption DEF SizesAssumption, IInv, TypeOK
  <1>1. PICK n \in 1..Min2(Len(sent) - srvGot, RcvBuf - (Len(echoed) - got)) :
          /\ echoed' = echoed \o Window(sent, srvGot, srvGot + n)
          /\ srvGot' = srvGot + n
    BY DEF ServerEcho
  <1>2. n \in Nat /\ n <= Len(sent) - srvGot
    <2>1. Len(sent) - srvGot \in Int /\ RcvBuf - (Len(echoed) - got) \in Int
      BY <1>t
    <2> QED BY <1>1, <2>1, MinBound
  <1> DEFINE W == Window(sent, srvGot, srvGot + n)
  <1>3. W \in Seq(Bytes)
    <2>1. \A j \in (srvGot + 1)..(srvGot + n) : sent[j] \in Bytes
      BY <1>t, <1>2
    <2>2. srvGot + n \in Nat /\ srvGot <= srvGot + n
      BY <1>t, <1>2
    <2> QED BY <1>t, <2>1, <2>2, WindowSeq
  <1>4. Len(W) = n /\ \A k \in 1..n : W[k] = srvGot + k
    <2>1. (srvGot + n) - srvGot = n
      BY <1>t, <1>2
    <2>2. ASSUME NEW k \in 1..n PROVE sent[srvGot + k] = srvGot + k
      <3>1. srvGot + k \in 1..Len(sent)
        BY <1>t, <1>2
      <3> QED BY <3>1 DEF IInv, UpBytes
    <2> QED BY <1>2, <2>1, <2>2 DEF Window
  <1> HIDE DEF W
  <1>5. /\ Len(echoed \o W) = Len(echoed) + Len(W)
        /\ \A k \in 1..Len(echoed) : (echoed \o W)[k] = echoed[k]
        /\ \A k \in (Len(echoed) + 1)..(Len(echoed) + Len(W)) :
             (echoed \o W)[k] = W[k - Len(echoed)]
    BY <1>t, <1>3, Concat
  <1>6. echoed' = echoed \o W
    BY <1>1 DEF W
  <1>7. srvGot' = Len(echoed')
    BY <1>1, <1>4, <1>5, <1>6 DEF EchoBytes
  <1>8. ASSUME NEW k \in 1..Len(echoed') PROVE echoed'[k] = k
    <2>1. CASE k <= Len(echoed)
      BY <1>t, <1>5, <1>6, <2>1 DEF EchoBytes
    <2>2. CASE k > Len(echoed)
      <3>1. k \in (Len(echoed) + 1)..(Len(echoed) + Len(W)) /\ k - Len(echoed) \in 1..n
        BY <1>t, <1>2, <1>4, <1>5, <1>6, <2>2
      <3>2. echoed'[k] = srvGot + (k - Len(echoed))
        BY <1>4, <1>5, <1>6, <3>1
      <3> QED BY <1>t, <3>1, <3>2 DEF EchoBytes
    <2>3. k <= Len(echoed) \/ k > Len(echoed)
      BY <1>t
    <2> QED BY <2>1, <2>2, <2>3
  <1> QED BY <1>7, <1>8 DEF EchoBytes

DownInv == IInv /\ EchoBytes

LEMMA DownInductive == Spec => []DownInv
  <1>1. Init => EchoBytes
    BY DEF Init, EchoBytes
  <1>2. IInv /\ EchoBytes /\ [Next]_vars => EchoBytes'
    <2> SUFFICES ASSUME IInv, EchoBytes, [Next]_vars PROVE EchoBytes'
      OBVIOUS
    <2>1. CASE ServerEcho
      BY <2>1, ServerEchoEchoes
    <2>2. CASE UNCHANGED <<srvGot, echoed>>
      BY <2>2 DEF EchoBytes
    <2>3. [Next]_vars => ServerEcho \/ UNCHANGED <<srvGot, echoed>>
      BY DEF Next, Client, Select, ReadStdin, ReadSock, WriteStdout, WriteSock, Type, CloseStdin,
             ServerClose, ServerDie, Reset, SomethingBreaks, Break, Drain, vars, srvVars
    <2> QED BY <2>1, <2>2, <2>3
  <1> QED BY <1>1, <1>2, Inductive, PTL DEF Spec, DownInv

LEMMA DownInitial == Init => Down!Init
  <1> SUFFICES ASSUME Init PROVE Down!Init
    OBVIOUS
  <1>1. Window(fr, froptr, friptr) = <<>>
    BY WindowEmpty DEF Init
  <1> QED BY <1>1 DEF Down!Init, Init

LEMMA DownStutter == UNCHANGED <<fr, friptr, froptr, got, out>> => UNCHANGED Down!vars
  BY DEF Down!vars, Window

DownTyped ==
  /\ MAXLINE \in Nat /\ friptr \in Nat /\ froptr \in Nat /\ got \in Nat
  /\ froptr <= friptr /\ friptr <= MAXLINE
  /\ \A j \in (froptr + 1)..friptr : fr[j] \in Bytes
  /\ Len(Window(fr, froptr, friptr)) = friptr - froptr

LEMMA DownTypes == IInv => DownTyped
  <1> SUFFICES ASSUME IInv PROVE DownTyped
    OBVIOUS
  <1>1. /\ MAXLINE \in Nat /\ friptr \in Nat /\ froptr \in Nat /\ got \in Nat
        /\ froptr <= friptr /\ friptr <= MAXLINE
    BY SizesAssumption DEF SizesAssumption, IInv, TypeOK
  <1>2. \A j \in (froptr + 1)..friptr : fr[j] \in Bytes
    BY <1>1 DEF IInv, TypeOK
  <1> QED BY <1>1, <1>2, WindowElems DEF DownTyped

(* A read that gives bytes is a Take. *)
LEMMA DownTake ==
  ASSUME IInv, EchoBytes, ReadSock, SockData
  PROVE  Down!Take
  <1>1. PICK n \in 1..Min2(MAXLINE - friptr, Len(echoed) - got) :
          /\ fr' = Stored(fr, friptr, Window(echoed, got, got + n))
          /\ friptr' = friptr + n
          /\ got' = got + n
    BY DEF SockData
  <1>t. /\ MAXLINE \in Nat /\ friptr \in Nat /\ froptr \in Nat /\ got \in Nat
        /\ froptr <= friptr /\ friptr <= MAXLINE /\ Len(echoed) \in Nat
        /\ echoed \in Seq(Bytes)
    BY DownTypes DEF DownTyped, IInv, TypeOK
  <1>2. n \in Nat /\ n >= 1 /\ n <= MAXLINE - friptr /\ n <= Len(echoed) - got
    <2>1. MAXLINE - friptr \in Int /\ Len(echoed) - got \in Int
      BY <1>t
    <2> QED BY <1>1, <2>1, MinBound
  <1>3. UNCHANGED <<froptr, out>>
    BY DEF ReadSock, SockData
  <1> DEFINE bytes == [k \in 1..n |-> got + k]
  <1>4. \A k \in 1..n : echoed[got + k] = got + k /\ got + k \in Bytes
    <2>1. ASSUME NEW k \in 1..n PROVE got + k \in 1..Len(echoed)
      BY <1>t, <1>2
    <2>2. ASSUME NEW k \in 1..n PROVE echoed[got + k] = got + k
      BY <2>1 DEF EchoBytes
    <2>3. ASSUME NEW k \in 1..n PROVE echoed[got + k] \in Bytes
      BY <1>t, <2>1
    <2> QED BY <2>2, <2>3
  <1>5. Window(echoed, got, got + n) = bytes
    <2>1. (got + n) - got = n
      BY <1>t, <1>2
    <2> QED BY <1>4, <2>1 DEF Window
  <1>6. bytes \in Seq(Bytes) /\ Len(bytes) = n
    BY <1>2, <1>4
  <1>7. \A j \in (froptr + 1)..friptr : fr[j] \in Bytes /\ fr'[j] = fr[j]
    <2>1. ASSUME NEW j \in (froptr + 1)..friptr PROVE j \in 1..MAXLINE /\ ~(j > friptr)
      BY <1>t
    <2>2. ASSUME NEW j \in (froptr + 1)..friptr PROVE fr'[j] = fr[j]
      BY <1>1, <2>1 DEF Stored
    <2> QED BY <2>2, DownTypes DEF DownTyped
  <1>8. \A k \in 1..n : fr'[friptr + k] = bytes[k]
    <2>1. ASSUME NEW k \in 1..n
          PROVE  /\ friptr + k \in 1..MAXLINE /\ friptr + k > friptr
                 /\ friptr + k <= friptr + n /\ (friptr + k) - friptr = k
      BY <1>t, <1>2
    <2>2. fr' = Stored(fr, friptr, bytes)
      BY <1>1, <1>5
    <2> HIDE DEF bytes
    <2> QED BY <1>6, <2>1, <2>2 DEF Stored
  <1> HIDE DEF bytes
  <1>9. Window(fr', froptr, friptr + n) = Window(fr, froptr, friptr) \o bytes
    <2>1. StoredBehind(Bytes, fr, fr', froptr, friptr, n, bytes)
      BY <1>t, <1>2, <1>6, <1>7, <1>8 DEF StoredBehind
    <2> QED BY <2>1, WindowAppend
  <1>10. n \in 1..(MAXLINE - Len(Window(fr, froptr, friptr)))
    BY <1>t, <1>2, DownTypes DEF DownTyped
  <1>11. Window(fr, froptr, friptr)' = Window(fr, froptr, friptr) \o [k \in 1..n |-> got + k]
    BY <1>1, <1>3, <1>9 DEF bytes, Window
  <1> QED BY <1>1, <1>3, <1>10, <1>11 DEF Down!Take

(* A write to standard output that takes bytes is a Pass. *)
LEMMA DownPass ==
  ASSUME IInv, WriteStdout, StdoutWritten
  PROVE  Down!Pass
  <1>1. PICK n \in 1..Min2(friptr - froptr, PipeBuf - (Len(out) - drained)) :
          /\ out' = out \o Window(fr, froptr, froptr + n)
          /\ IF froptr + n = friptr THEN froptr' = 0 /\ friptr' = 0
                                    ELSE froptr' = froptr + n /\ UNCHANGED friptr
    BY DEF StdoutWritten
  <1>t. /\ friptr \in Nat /\ froptr \in Nat /\ froptr <= friptr
        /\ Len(Window(fr, froptr, friptr)) = friptr - froptr
        /\ \A j \in (froptr + 1)..friptr : fr[j] \in Bytes
        /\ PipeBuf \in Int /\ Len(out) \in Int /\ drained \in Int
    BY DownTypes, SizesAssumption DEF DownTyped, SizesAssumption, IInv, TypeOK
  <1>2. n \in Nat /\ n >= 1 /\ n <= friptr - froptr
    <2>1. friptr - froptr \in Int /\ PipeBuf - (Len(out) - drained) \in Int
      BY <1>t
    <2> QED BY <1>1, <2>1, MinBound
  <1>3. UNCHANGED <<fr, got>>
    BY DEF WriteStdout
  <1> DEFINE queue == Window(fr, froptr, friptr)
             rest  == Window(fr, froptr + n, friptr)
  <1>4. /\ Window(fr, froptr, froptr + n) = SubSeq(queue, 1, n)
        /\ rest = SubSeq(queue, n + 1, Len(queue))
    <2>1. Holds(Bytes, fr, froptr, friptr, n)
      BY <1>t, <1>2 DEF Holds
    <2>2. SplitAt(fr, froptr, friptr, n)
      BY <2>1, WindowSplit
    <2> QED BY <2>2 DEF SplitAt
  <1>5. queue' = rest
    <2>1. CASE froptr + n = friptr
      <3>1. Window(fr, 0, 0) = <<>> /\ Window(fr, friptr, friptr) = <<>>
        BY <1>t, WindowEmpty
      <3>2. queue' = Window(fr, 0, 0)
        BY <1>1, <1>3, <2>1 DEF Window
      <3> QED BY <2>1, <3>1, <3>2
    <2>2. CASE froptr + n # friptr
      BY <1>1, <1>3, <2>2 DEF Window
    <2> QED BY <2>1, <2>2
  <1>6. n \in 1..Len(queue)
    BY <1>t, <1>2
  <1>7. out' = out \o SubSeq(queue, 1, n) /\ queue' = SubSeq(queue, n + 1, Len(queue))
    BY <1>1, <1>4, <1>5
  <1> QED BY <1>3, <1>6, <1>7 DEF Down!Pass

LEMMA DownStep == DownInv /\ [Next]_vars => [Down!Next]_(Down!vars)
  <1> SUFFICES ASSUME IInv, EchoBytes, [Next]_vars
               PROVE  Down!Take \/ Down!Pass \/ UNCHANGED Down!vars
    BY DEF Down!Next, DownInv
  <1>1. CASE ReadSock
    <2>1. CASE UNCHANGED <<frVars, got>>
      BY <1>1, <2>1, DownStutter DEF ReadSock, frVars
    <2>2. SockData \/ UNCHANGED <<frVars, got>>
      BY <1>1 DEF ReadSock, SockEof, SockError
    <2> QED BY <1>1, <2>1, <2>2, DownTake
  <1>2. CASE WriteStdout
    <2>1. CASE UNCHANGED <<froptr, friptr, out>>
      BY <1>2, <2>1, DownStutter DEF WriteStdout
    <2>2. StdoutWritten \/ UNCHANGED <<froptr, friptr, out>>
      BY <1>2 DEF WriteStdout
    <2> QED BY <1>2, <2>1, <2>2, DownPass
  <1>3. CASE \/ Select \/ ReadStdin \/ WriteSock \/ ServerEcho \/ Type \/ CloseStdin
             \/ ServerClose \/ ServerDie \/ Reset \/ SomethingBreaks \/ Drain \/ UNCHANGED vars
    <2>1. UNCHANGED <<fr, friptr, froptr, got, out>>
      BY <1>3 DEF Select, ReadStdin, WriteSock, ServerEcho, Type, CloseStdin, ServerClose,
                  ServerDie, Reset, SomethingBreaks, Break, Drain, vars, clientVars, frVars
    <2> QED BY <2>1, DownStutter
  <1> QED BY <1>1, <1>2, <1>3 DEF Next, Client

(* The socket to standard output is a relay: what the server has sent is    *)
(* held in order, at most MAXLINE bytes of it, and written in order.        *)
THEOREM DownImplementsRelay == Spec => DownRelay
  <1>1. Init => Down!Init
    BY DownInitial
  <1>2. DownInv /\ [Next]_vars => [Down!Next]_(Down!vars)
    BY DownStep
  <1> QED BY <1>1, <1>2, DownInductive, PTL DEF Spec, DownRelay, Down!Spec
=============================================================================
