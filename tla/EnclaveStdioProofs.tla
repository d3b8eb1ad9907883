------------------------- MODULE EnclaveStdioProofs -------------------------
(***************************************************************************)
(* Where AsInC says so, executed code reads the text as it is: whatever    *)
(* its length, the length of a chunk and the size of the io library's      *)
(* buffer, as long as a buffer holds whole chunks.                         *)
(***************************************************************************)
EXTENDS EnclaveStdio, TLAPS, SequenceTheorems

\* Whole chunks do not change a place in a chunk.
LEMMA Multiple ==
  ASSUME NEW n \in Nat, NEW j \in Nat, NEW C \in Nat, C > 0, n % C = 0
  PROVE  (n + j) % C = j % C
  <1>1. n = C * (n \div C) /\ n \div C \in Int
    OBVIOUS
  <1>2. j = C * (j \div C) + (j % C) /\ 0 <= j % C /\ j % C < C /\ j \div C \in Int
    OBVIOUS
  <1>3. /\ n + j = C * ((n + j) \div C) + ((n + j) % C)
        /\ 0 <= (n + j) % C /\ (n + j) % C < C /\ (n + j) \div C \in Int
    OBVIOUS
  <1>4. ASSUME NEW q \in Int, NEW p \in Int, NEW r \in Int, NEW t \in Int,
               C * q + r = C * p + t, 0 <= r, r < C, 0 <= t, t < C
        PROVE  r = t
    <2>1. C * (q - p) = t - r
      BY <1>4
    <2>2. q - p >= 1 => C * (q - p) >= C
      BY <1>4
    <2>3. q - p <= -1 => C * (q - p) <= -C
      BY <1>4
    <2>4. q = p
      BY <1>4, <2>1, <2>2, <2>3
    <2> QED BY <1>4, <2>4
  <1>5. C * ((n \div C) + (j \div C)) = C * (n \div C) + C * (j \div C) /\ (n \div C) + (j \div C) \in Int
    BY <1>1, <1>2
  <1>6. C * ((n \div C) + (j \div C)) + (j % C) = C * ((n + j) \div C) + ((n + j) % C)
    BY <1>1, <1>2, <1>3, <1>5
  <1>7. j % C \in Int /\ (n + j) % C \in Int
    OBVIOUS
  <1> QED BY <1>2, <1>3, <1>4, <1>5, <1>6, <1>7

-----------------------------------------------------------------------------
(***************************************************************************)
(* Where the code is in the text: it has read the first k characters, and  *)
(* the host's stream, or the shim's buffer, is at the same place.          *)
(***************************************************************************)
\* n characters of the text, after the first k.
From(k, n) == [i \in 1..n |-> k + i]

FileFits(k) ==
  /\ got = From(0, k) /\ stream = From(k, length - k)
  /\ encrypted /\ k < length => k % Chunk = 0
  /\ ended => k = length

BufferFits ==
  \/ counter = -1 /\ got = <<>>
  \/ \E k \in 1..length :
       got = From(0, k) /\ counter = k - 1 /\ getc_buffer = From(0, length)

\* The two parts of AsInC.
ByFile   == ~is_stdin /\ (~encrypted \/ used \subseteq {"all", "peek"})
ByBuffer == is_stdin /\ used \subseteq {"char"} /\ ~ended /\ length > 0

StdioInv ==
  /\ length \in Nat
  /\ ByFile => \E k \in 0..length : FileFits(k)
  /\ ByBuffer => BufferFits

LEMMA FromLen ==
  ASSUME NEW k \in Nat, NEW n \in Nat
  PROVE  /\ From(k, n) \in Seq(Nat) /\ Len(From(k, n)) = n
         /\ \A i \in 1..n : From(k, n)[i] = k + i
         /\ n = 0 => From(k, n) = <<>>
  BY DEF From

LEMMA FromCut ==
  ASSUME NEW k \in Nat, NEW n \in Nat, NEW m \in 0..n
  PROVE  SubSeq(From(k, n), 1, m) = From(k, m)
  BY FromLen DEF From

LEMMA FromAppend ==
  ASSUME NEW k \in Nat, NEW m \in Nat
  PROVE  From(0, k) \o From(k, m) = From(0, k + m)
  BY FromLen DEF From

LEMMA FromNext ==
  ASSUME NEW k \in Nat
  PROVE  Append(From(0, k), k + 1) = From(0, k + 1)
  BY FromLen DEF From

LEMMA FromTail ==
  ASSUME NEW k \in Nat, NEW n \in Nat, n > 0
  PROVE  Head(From(k, n)) = k + 1 /\ Tail(From(k, n)) = From(k + 1, n - 1) /\ From(k, n) # <<>>
  <1>1. PICK s : s = From(k, n)
    OBVIOUS
  <1>2. /\ s \in Seq(Nat) /\ Len(s) = n /\ \A i \in 1..n : s[i] = k + i
        /\ From(k + 1, n - 1) \in Seq(Nat) /\ Len(From(k + 1, n - 1)) = n - 1
        /\ \A i \in 1..(n - 1) : From(k + 1, n - 1)[i] = (k + 1) + i
    <2>1. PICK h \in Nat, t \in Nat : h = k + 1 /\ t = n - 1
      OBVIOUS
    <2>2. From(h, t) \in Seq(Nat) /\ Len(From(h, t)) = t /\ \A i \in 1..t : From(h, t)[i] = h + i
      BY FromLen
    <2> QED BY <1>1, <2>1, <2>2, FromLen
  <1>3. s # <<>>
    BY <1>2
  <1>4. Tail(s) \in Seq(Nat) /\ Len(Tail(s)) = n - 1 /\ \A i \in 1..(n - 1) : Tail(s)[i] = s[i + 1]
    <2>1. Tail(s) \in Seq(Nat) /\ Len(Tail(s)) = Len(s) - 1 /\ \A i \in 1..Len(Tail(s)) : Tail(s)[i] = s[i + 1]
      BY <1>2, <1>3, HeadTailProperties
    <2> QED BY <1>2, <2>1
  <1>5. \A i \in 1..(n - 1) : Tail(s)[i] = From(k + 1, n - 1)[i]
    BY <1>2, <1>4
  <1>6. Tail(s) = From(k + 1, n - 1)
    BY <1>2, <1>4, <1>5, SeqEqual
  <1>7. Head(s) = k + 1
    BY <1>2, <1>3
  <1> QED BY <1>1, <1>3, <1>6, <1>7

\* A read that starts with a chunk is decrypted as it was encrypted.
LEMMA PlainFits ==
  ASSUME NEW k \in Nat, NEW m \in Nat, encrypted => k % Chunk = 0 \/ m = 0
  PROVE  Plain(From(k, m)) = From(k, m)
  <1>1. CASE ~encrypted
    BY <1>1 DEF Plain
  <1>2. CASE encrypted
    <2>1. Chunk \in Nat /\ Chunk > 0
      BY StdioAssumption
    <2>2. ASSUME NEW j \in 1..m PROVE (From(k, m)[j] - 1) % Chunk = (j - 1) % Chunk
      <3>1. j - 1 \in Nat /\ k % Chunk = 0 /\ From(k, m)[j] - 1 = k + (j - 1)
        <4>1. From(k, m)[j] = k + j
          BY FromLen
        <4> QED BY <1>2, <4>1
      <3>2. (k + (j - 1)) % Chunk = (j - 1) % Chunk
        BY <2>1, <3>1, Multiple
      <3> QED BY <3>1, <3>2
    <2>3. DecryptChunks(From(k, m)) = [j \in 1..m |-> From(k, m)[j]]
      BY <2>2, FromLen DEF DecryptChunks
    <2>4. DecryptChunks(From(k, m)) = From(k, m)
      BY <2>3, FromLen DEF From
    <2> QED BY <1>2, <2>4 DEF Plain
  <1> QED BY <1>1, <1>2

LEMMA TextIsFrom ==
  ASSUME length \in Nat
  PROVE  Text = From(0, length) /\ \A k \in 0..length : SubSeq(Text, 1, k) = From(0, k)
  <1>1. Text = From(0, length)
    BY DEF Text, From
  <1> QED BY <1>1, FromCut

\* One fread moves the code and the host's stream by as many characters.
LEMMA FreadFits ==
  ASSUME length \in Nat, NEW k \in 0..length, FileFits(k), NEW n \in Nat, n > 0,
         NEW m \in Nat, m = IF n < length - k THEN n ELSE length - k
  PROVE  /\ Len(stream) = length - k
         /\ got \o Fread(n) = From(0, k + m)
         /\ AfterFread(n) = From(k + m, length - (k + m))
  <1>1. PICK L : L = length - k
    OBVIOUS
  <1>2. k \in Nat /\ L \in Nat /\ k + m \in 0..length /\ m \in 0..L /\ k + L = length
    BY <1>1
  <1>3. stream = From(k, L) /\ got = From(0, k) /\ (encrypted => k % Chunk = 0 \/ m = 0)
    BY <1>1, <1>2 DEF FileFits
  <1>4. Len(stream) = L
    BY <1>2, <1>3, FromLen
  <1>5. Fread(n) = From(k, m)
    <2>0. m = IF n < Len(stream) THEN n ELSE Len(stream)
      BY <1>1, <1>4
    <2>1. SubSeq(stream, 1, m) = From(k, m)
      BY <1>2, <1>3, FromCut
    <2>2. Plain(From(k, m)) = From(k, m)
      BY <1>2, <1>3, PlainFits
    <2> QED BY <2>0, <2>1, <2>2 DEF Fread
  <1>6. AfterFread(n) = From(k + m, L - m)
    <2>1. CASE n < L
      <3>1. SubSeq(From(k, L), n + 1, L) = From(k + n, L - n)
        <4>1. n \in 0..L
          BY <1>2, <2>1
        <4> QED BY <1>2, <4>1, FromLen DEF From
      <3> QED BY <1>1, <1>3, <1>4, <2>1, <3>1 DEF AfterFread
    <2>2. CASE ~(n < L)
      <3>1. AfterFread(n) = <<>>
        <4>1. stream \in Seq(Nat)
          BY <1>2, <1>3, FromLen
        <4>2. n + 1 \in Int /\ L \in Int /\ L < n + 1
          BY <1>2, <2>2
        <4>3. SubSeq(stream, n + 1, L) = <<>>
          BY <4>2, SubSeqEmpty
        <4> QED BY <1>4, <4>3 DEF AfterFread
      <3>2. L - m = 0 /\ k + m \in Nat
        BY <1>1, <1>2, <2>2
      <3>3. From(k + m, 0) = <<>>
        <4>1. \A h \in Nat : From(h, 0) = <<>>
          BY FromLen
        <4> QED BY <3>2, <4>1
      <3> QED BY <3>1, <3>2, <3>3
    <2> QED BY <2>1, <2>2
  <1>7. From(0, k) \o From(k, m) = From(0, k + m)
    BY <1>2, FromAppend
  <1>8. L - m = length - (k + m)
    BY <1>1, <1>2
  <1> QED BY <1>1, <1>3, <1>4, <1>5, <1>6, <1>7, <1>8

LEMMA InitStdio == Init => StdioInv
  <1> SUFFICES ASSUME Init PROVE StdioInv
    OBVIOUS
  <1>1. length \in Nat /\ 0 \in 0..length /\ length - 0 = length
    BY StdioAssumption DEF Init
  <1>2. got = From(0, 0) /\ stream = From(0, length) /\ 0 % Chunk = 0
    <2>1. got = <<>> /\ From(0, 0) = <<>>
      BY FromLen DEF Init
    <2>2. stream = From(0, length)
      BY <1>1, TextIsFrom DEF Init
    <2>3. 0 % Chunk = 0
      BY StdioAssumption
    <2> QED BY <2>1, <2>2, <2>3
  <1>3. FileFits(0) /\ BufferFits
    BY <1>1, <1>2 DEF Init, FileFits, BufferFits
  <1> QED BY <1>1, <1>3 DEF StdioInv

\* Of every read: getc, getc with ungetc, and fread by read_chars and read_all.
LEMMA NextStdio == StdioInv /\ [Next]_vars => StdioInv'
  <1> SUFFICES ASSUME StdioInv, [Next]_vars PROVE StdioInv'
    OBVIOUS
  <1>0. length \in Nat /\ BufferSize \in Nat /\ BufferSize > 0 /\ Chunk \in Nat /\ Chunk > 0
    BY StdioAssumption DEF StdioInv
  <1>1. CASE UNCHANGED vars
    <2>1. /\ length' = length /\ encrypted' = encrypted /\ is_stdin' = is_stdin /\ stream' = stream
          /\ counter' = counter /\ getc_buffer' = getc_buffer /\ got' = got /\ ended' = ended /\ used' = used
      BY <1>1 DEF vars, file, shim
    <2> QED BY <2>1 DEF StdioInv, ByFile, ByBuffer, FileFits, BufferFits
  <1>2. CASE ReadChar
    <2>1. /\ length' = length /\ encrypted' = encrypted /\ is_stdin' = is_stdin
          /\ used' = used \union {"char"}
      BY <1>2 DEF ReadChar, file, Use
    <2>2. PICK c \in Char :
            /\ \/ is_stdin /\ GetcBuffer(c) /\ stream' = AfterGetcBuffer
               \/ ~is_stdin /\ GetcHost(c) /\ stream' = AfterGetcHost
            /\ got' = IF c = EOF THEN got ELSE Append(got, c)
            /\ ended' = (ended \/ c = EOF)
      BY <1>2 DEF ReadChar
    <2>3. ASSUME ByFile' PROVE \E k \in 0..length : FileFits(k)'
      <3>1. ~is_stdin /\ ~encrypted /\ ByFile
        BY <2>1, <2>3 DEF ByFile
      <3>2. PICK k \in 0..length : FileFits(k)
        BY <3>1 DEF StdioInv
      <3>3. c = (IF stream = <<>> THEN EOF ELSE Head(stream)) /\ stream' = AfterGetcHost
        BY <2>2, <3>1 DEF GetcHost
      <3>4. PICK n \in Nat : n = length - k
        BY <1>0
      <3>5. stream = From(k, n) /\ got = From(0, k) /\ k \in Nat
        BY <1>0, <3>2, <3>4 DEF FileFits
      <3>6. CASE n = 0
        <4>1. stream = <<>> /\ c = EOF /\ stream' = stream /\ got' = got
          BY <2>2, <3>3, <3>5, <3>6, FromLen DEF AfterGetcHost
        <4>2. k = length
          BY <1>0, <3>4, <3>6
        <4>3. FileFits(k)'
          BY <2>1, <3>1, <3>2, <4>1, <4>2 DEF FileFits
        <4> QED BY <4>3
      <3>7. CASE n > 0
        <4>1. Head(stream) = k + 1 /\ Tail(stream) = From(k + 1, n - 1) /\ stream # <<>>
          BY <3>5, <3>7, FromTail
        <4>2. c = k + 1 /\ c # EOF /\ stream' = From(k + 1, n - 1)
          BY <3>3, <3>5, <4>1 DEF AfterGetcHost, EOF
        <4>3. got' = From(0, k + 1)
          BY <2>2, <3>5, <4>2, FromNext
        <4>4. PICK h \in 0..length : h = k + 1 /\ n - 1 = length - h
          BY <1>0, <3>4, <3>5, <3>7
        <4>5. k # length
          BY <1>0, <3>4, <3>7
        <4>6. ~ended
          BY <3>2, <4>5 DEF FileFits
        <4>7. ~ended'
          BY <2>2, <4>2, <4>6
        <4>8. FileFits(h)'
          BY <2>1, <3>1, <4>2, <4>3, <4>4, <4>7 DEF FileFits
        <4> QED BY <4>8
      <3> QED BY <3>4, <3>6, <3>7
    <2>4. ASSUME ByBuffer' PROVE BufferFits'
      <3>1. is_stdin /\ length > 0 /\ ~ended /\ c # EOF /\ used \subseteq {"char"}
        BY <2>1, <2>2, <2>4 DEF ByBuffer
      <3>2. BufferFits
        BY <3>1 DEF ByBuffer, StdioInv
      <3>3. GetcBuffer(c) /\ got' = Append(got, c)
        BY <2>2, <3>1
      <3>4. CASE counter = -1
        <4>1. got = <<>>
          BY <1>0, <3>2, <3>4 DEF BufferFits
        <4>2. Plain(Text) = From(0, length)
          <5>1. 0 % Chunk = 0
            BY <1>0
          <5>2. Text = From(0, length)
            BY <1>0, TextIsFrom
          <5> QED BY <1>0, <5>1, <5>2, PlainFits
        <4>3. /\ getc_buffer' = From(0, length) /\ counter' = 0
              /\ c = From(0, length)[1]
          BY <1>0, <3>1, <3>3, <3>4, <4>2 DEF GetcBuffer
        <4>4. c = 1
          <5>1. 1 \in 1..length /\ \A i \in 1..length : From(0, length)[i] = 0 + i
            <6>1. \A k \in Nat : \A i \in 1..length : From(k, length)[i] = k + i
              BY <1>0, FromLen
            <6> QED BY <1>0, <3>1, <6>1
          <5> QED BY <4>3, <5>1
        <4>5. got' = From(0, 1)
          <5>1. From(0, 0) = <<>> /\ Append(From(0, 0), 0 + 1) = From(0, 0 + 1)
            BY FromLen, FromNext
          <5> QED BY <3>3, <4>1, <4>4, <5>1
        <4>6. 1 \in 1..length /\ counter' = 1 - 1
          BY <1>0, <3>1, <4>3
        <4> QED BY <2>1, <4>3, <4>5, <4>6 DEF BufferFits
      <3>5. CASE counter # -1
        <4>1. PICK k \in 1..length :
                got = From(0, k) /\ counter = k - 1 /\ getc_buffer = From(0, length)
          BY <3>2, <3>5 DEF BufferFits
        <4>2. c = BufferChar(k) /\ counter' = k /\ getc_buffer' = getc_buffer
          BY <3>1, <3>3, <3>5, <4>1 DEF GetcBuffer
        <4>3. Len(getc_buffer) = length /\ \A i \in 1..length : getc_buffer[i] = 0 + i
          BY <1>0, <4>1, FromLen
        <4>4. k < length /\ c = k + 1
          BY <1>0, <3>1, <4>1, <4>2, <4>3 DEF BufferChar
        <4>5. got' = From(0, k + 1)
          <5>1. Append(From(0, k), k + 1) = From(0, k + 1)
            BY FromNext
          <5> QED BY <3>3, <4>1, <4>4, <5>1
        <4>6. k + 1 \in 1..length /\ counter' = (k + 1) - 1
          BY <1>0, <4>1, <4>2, <4>4
        <4> QED BY <2>1, <4>1, <4>2, <4>5, <4>6 DEF BufferFits
      <3> QED BY <3>4, <3>5
    <2> QED BY <1>0, <2>1, <2>3, <2>4 DEF StdioInv
  <1>3. CASE TestEof
    <2>1. /\ length' = length /\ encrypted' = encrypted /\ is_stdin' = is_stdin
          /\ used' = used \union {"peek"} /\ got' = got
      BY <1>3 DEF TestEof, file, Use
    <2>2. ASSUME ByFile' PROVE \E k \in 0..length : FileFits(k)'
      <3>1. ~is_stdin /\ ByFile
        BY <2>1, <2>2 DEF ByFile
      <3>2. PICK k \in 0..length : FileFits(k)
        BY <3>1 DEF StdioInv
      <3>3. PICK c \in Char : GetcHost(c) /\ stream' = stream /\ ended' = (ended \/ c = EOF)
        BY <1>3, <3>1 DEF TestEof
      <3>4. c = EOF => stream = <<>>
        <4>1. stream # <<>> => c = Garbage \/ c = Head(stream)
          BY <3>3 DEF GetcHost
        <4>2. stream # <<>> => Head(stream) \in Nat
          <5>1. PICK n \in Nat : n = length - k
            BY <1>0
          <5>2. stream = From(k, n) /\ k \in Nat
            BY <1>0, <3>2, <5>1 DEF FileFits
          <5>3. n = 0 => stream = <<>>
            BY <5>2, FromLen
          <5>4. n > 0 => Head(stream) = k + 1
            BY <5>2, FromTail
          <5> QED BY <5>1, <5>2, <5>3, <5>4
        <4> QED BY <4>1, <4>2 DEF EOF, Garbage
      <3>5. stream = <<>> => k = length
        <4>1. PICK n \in Nat : n = length - k
          BY <1>0
        <4>2. stream = From(k, n) /\ k \in Nat
          BY <1>0, <3>2, <4>1 DEF FileFits
        <4>3. n > 0 => stream # <<>>
          BY <4>2, FromTail
        <4> QED BY <1>0, <4>1, <4>3
      <3>6. FileFits(k)'
        BY <2>1, <3>2, <3>3, <3>4, <3>5 DEF FileFits
      <3> QED BY <3>6
    <2>3. ~ByBuffer'
      BY <2>1 DEF ByBuffer
    <2> QED BY <1>0, <2>1, <2>2, <2>3 DEF StdioInv
  <1>4. ASSUME NEW n \in Nat, n > 0, NEW way \in {"chars", "all"},
               UNCHANGED file, Use(way), way = "all" => n % Chunk = 0,
               got' = got \o Fread(n), stream' = AfterFread(n), ended' = (ended \/ Len(stream) < n)
        PROVE  StdioInv'
    <2>1. /\ length' = length /\ encrypted' = encrypted /\ is_stdin' = is_stdin
          /\ used' = used \union {way}
      BY <1>4 DEF file, Use
    <2>2. ASSUME ByFile' PROVE \E k \in 0..length : FileFits(k)'
      <3>1. ByFile /\ (encrypted => way = "all")
        BY <1>4, <2>1, <2>2 DEF ByFile
      <3>2. PICK k \in 0..length : FileFits(k)
        BY <3>1 DEF StdioInv
      <3>3. PICK m \in Nat : m = IF n < length - k THEN n ELSE length - k
        <4>1. length - k \in Nat /\ n \in Nat
          BY <1>0, <1>4
        <4> QED BY <4>1
      <3>4. /\ k + m \in 0..length
            /\ got' = From(0, k + m)
            /\ stream' = From(k + m, length - (k + m))
            /\ Len(stream) < n => k + m = length
            /\ k + m < length => m = n /\ k < length
        <4>1. /\ got \o Fread(n) = From(0, k + m)
              /\ AfterFread(n) = From(k + m, length - (k + m))
          BY <1>0, <1>4, <3>2, <3>3, FreadFits
        <4>2. Len(stream) = length - k
          BY <1>0, <1>4, <3>2, <3>3, FreadFits
        <4>3. /\ k + m \in 0..length
              /\ Len(stream) < n => k + m = length
              /\ k + m < length => m = n /\ k < length
          BY <1>0, <1>4, <3>3, <4>2
        <4> QED BY <1>4, <4>1, <4>3
      <3>5. PICK h \in 0..length : h = k + m
        BY <3>4
      <3>6. encrypted /\ h < length => h % Chunk = 0
        <4>1. SUFFICES ASSUME encrypted, h < length PROVE h % Chunk = 0
          OBVIOUS
        <4>2. m = n /\ k % Chunk = 0 /\ n % Chunk = 0
          BY <1>4, <3>1, <3>2, <3>4, <3>5, <4>1 DEF FileFits
        <4>3. (k + n) % Chunk = n % Chunk
          <5>1. k \in Nat /\ n \in Nat
            BY <1>0, <1>4
          <5> QED BY <1>0, <4>2, <5>1, Multiple
        <4> QED BY <3>5, <4>2, <4>3
      <3>7. ended' => h = length
        <4>1. ended => h = length
          <5>1. ended => k = length
            BY <3>2 DEF FileFits
          <5>2. k = length => m = 0
            BY <1>0, <1>4, <3>3
          <5> QED BY <1>0, <3>5, <5>1, <5>2
        <4>2. Len(stream) < n => h = length
          BY <3>4, <3>5
        <4> QED BY <1>4, <4>1, <4>2
      <3>8. FileFits(h)'
        BY <2>1, <3>4, <3>5, <3>6, <3>7 DEF FileFits
      <3> QED BY <3>8
    <2>3. ~ByBuffer'
      BY <1>4, <2>1 DEF ByBuffer
    <2> QED BY <1>0, <2>1, <2>2, <2>3 DEF StdioInv
  <1>5. ASSUME NEW n \in 1..BufferSize, ReadChars(n) PROVE StdioInv'
    BY <1>0, <1>4, <1>5 DEF ReadChars
  <1>6. CASE ReadAll
    BY <1>0, <1>4, <1>6, StdioAssumption DEF ReadAll
  <1>7. CASE NextRequest
    <2>1. /\ length' = length /\ encrypted' = encrypted /\ is_stdin' = is_stdin
          /\ counter' = -1 /\ got' = <<>> /\ ended' = FALSE
          /\ (~is_stdin => stream' = Text)
      BY <1>7 DEF NextRequest, file
    <2>2. got' = From(0, 0) /\ 0 % Chunk = 0 /\ Text = From(0, length)
      <3>1. From(0, 0) = <<>>
        BY FromLen
      <3> QED BY <1>0, <2>1, <3>1, TextIsFrom
    <2>3. 0 \in 0..length /\ length - 0 = length
      BY <1>0
    <2>4. ~is_stdin => FileFits(0)'
      BY <2>1, <2>2, <2>3 DEF FileFits
    <2>5. BufferFits'
      BY <2>1 DEF BufferFits
    <2> QED BY <1>0, <2>1, <2>3, <2>4, <2>5 DEF StdioInv, ByFile
  <1> QED BY <1>1, <1>2, <1>3, <1>5, <1>6, <1>7 DEF Next

\* Read in the ways of AsInC, a text is read from its start, nothing twice and nothing
\* left out, and its end is met only at its end (fread, decrypt_chunks and getc,
\* Enclave.cpp:355-451).
THEOREM TextIsRead == Spec => []ReadsText
  <1>1. StdioInv => ReadsText
    <2> SUFFICES ASSUME StdioInv, AsInC PROVE got = SubSeq(Text, 1, Len(got)) /\ (ended => got = Text)
      BY DEF ReadsText
    <2>1. length \in Nat
      BY DEF StdioInv
    <2>2. Text = From(0, length) /\ \A k \in 0..length : SubSeq(Text, 1, k) = From(0, k)
      BY <2>1, TextIsFrom
    <2>3. \A k \in 0..length : Len(From(0, k)) = k
      BY <2>1, FromLen
    <2>4. CASE ByFile
      <3>1. PICK k \in 0..length : FileFits(k)
        BY <2>4 DEF StdioInv
      <3> QED BY <2>2, <2>3, <3>1 DEF FileFits
    <2>5. CASE ByBuffer
      <3>1. \E k \in 0..length : got = From(0, k)
        <4>1. From(0, 0) = <<>> /\ 0 \in 0..length
          BY <2>1, FromLen
        <4>2. \A k \in 1..length : k \in 0..length
          BY <2>1
        <4> QED BY <2>5, <4>1, <4>2 DEF StdioInv, BufferFits
      <3> QED BY <2>2, <2>3, <2>5, <3>1 DEF ByBuffer
    <2> QED BY <2>4, <2>5 DEF AsInC, ByFile, ByBuffer
  <1> QED BY <1>1, InitStdio, NextStdio, PTL DEF Spec
=============================================================================
