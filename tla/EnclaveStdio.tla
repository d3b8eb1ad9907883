---------------------------- MODULE EnclaveStdio ----------------------------
(***************************************************************************)
(* The enclave's stdio shim (Enclave.cpp) under the reads of the Lua io    *)
(* library (liolib.cpp): one file that executed code reads, request after  *)
(* request.  The client encrypts a text in chunks, each with the key       *)
(* stream from its start; fread decrypts what one call returns, getc has a *)
(* buffer of its own for standard input and decrypts nothing otherwise.    *)
(*                                                                         *)
(* Character i of the text is i, encrypted or not; Garbage is anything     *)
(* else: a character decrypted at another place of the key stream or not   *)
(* at all, or memory that was never written.                               *)
(***************************************************************************)
EXTENDS Integers, Sequences

CONSTANTS MaxText,    \* bound: the longest text
          MaxReads,   \* bound: characters read in one request
          MaxBack,    \* bound: characters put back to standard input
          Chunk,      \* CHUNK_LEN
          BufferSize  \* LUAL_BUFFERSIZE

ASSUME StdioAssumption ==
  /\ {MaxText, MaxReads, MaxBack} \subseteq Nat
  /\ {Chunk, BufferSize} \subseteq Nat \ {0}
  /\ BufferSize % Chunk = 0

Garbage == 0
EOF == -1

VARIABLES length,     \* of the file
          encrypted,  \* the file is, and enclave_bootstrap is 0; else neither
          is_stdin,   \* the file is standard input, by its name
          stream,     \* what the host's FILE has still to return
          counter, getc_buffer,   \* the shim's own buffer
          reading,    \* read_all is in its loop
          got,        \* the characters the code has read in this request
          ended,      \* a read of this request met the end of the file
          used        \* the ways this request has read

file == <<length, encrypted, is_stdin>>
shim == <<counter, getc_buffer>>
vars == <<file, stream, shim, reading, got, ended, used>>

Text == [i \in 1..length |-> i]

Init ==
  /\ length \in 0..MaxText
  /\ encrypted \in BOOLEAN
  /\ is_stdin \in BOOLEAN
  /\ stream = Text
  /\ counter = -1 /\ getc_buffer = <<>>
  /\ reading = FALSE /\ got = <<>> /\ ended = FALSE /\ used = {}

-----------------------------------------------------------------------------
(* The shim.                                                               *)

\* Mutant: the key stream does not start again with each chunk.
DecryptOnce(piece) ==
  [j \in 1..Len(piece) |->
     IF (piece[j] - 1) % Chunk = j - 1 THEN piece[j] ELSE Garbage]

\* decrypt_chunks of the characters that one fread returned.
DecryptChunks(piece) ==
  [j \in 1..Len(piece) |->
     IF (piece[j] - 1) % Chunk = (j - 1) % Chunk THEN piece[j] ELSE Garbage]

\* fread of at most n characters, and what it leaves in the host's stream.
Plain(piece) == IF encrypted THEN DecryptChunks(piece) ELSE piece
Fread(n)     == Plain(SubSeq(stream, 1, IF n < Len(stream) THEN n ELSE Len(stream)))
AfterFread(n) == SubSeq(stream, n + 1, Len(stream))

\* Character n, from 0, of getc_buffer.
BufferChar(n) == IF n >= Len(getc_buffer) THEN EOF ELSE getc_buffer[n + 1]

\* getc on standard input: the first call reads the whole file into the buffer and
\* returns its first character; the later ones go on, and start again at the end.
GetcBuffer(c) ==
  \/ /\ counter = -1
     /\ getc_buffer' = Plain(Text)
     /\ c = IF length = 0 THEN Garbage ELSE getc_buffer'[1]
     /\ counter' = 0
  \/ /\ counter # -1
     /\ c = BufferChar(counter + 1)
     /\ counter' = IF c = EOF THEN 0 ELSE counter + 1
     /\ UNCHANGED getc_buffer
AfterGetcBuffer == IF counter = -1 THEN <<>> ELSE stream

\* getc on any other file: the host's character, as it is.
GetcHost(c) ==
  /\ c = IF stream = <<>> THEN EOF ELSE IF encrypted THEN Garbage ELSE Head(stream)
  /\ UNCHANGED shim
AfterGetcHost == IF stream = <<>> THEN stream ELSE Tail(stream)

-----------------------------------------------------------------------------
(* What the io library does with it.                                       *)

Use(way) == used' = used \union {way}
Char == {EOF, Garbage} \union 1..length

\* One l_getc of read_line or read_number.
ReadChar ==
  /\ ~reading
  /\ Len(got) < MaxReads
  /\ \E c \in Char :
       /\ \/ is_stdin /\ GetcBuffer(c) /\ stream' = AfterGetcBuffer
          \/ ~is_stdin /\ GetcHost(c) /\ stream' = AfterGetcHost
       /\ got' = IF c = EOF THEN got ELSE Append(got, c)
       /\ ended' = (ended \/ c = EOF)
  /\ Use("char")
  /\ UNCHANGED <<file, reading>>

\* test_eof: getc, then ungetc, which goes to the host's stream also when the
\* character came from the shim's buffer.
TestEof ==
  /\ ~reading
  /\ \E c \in Char :
       /\ \/ /\ is_stdin
             /\ Len(AfterGetcBuffer) < MaxBack
             /\ GetcBuffer(c)
             /\ stream' = (IF c = EOF THEN <<>> ELSE <<IF encrypted THEN Garbage ELSE c>>)
                          \o AfterGetcBuffer
          \/ ~is_stdin /\ GetcHost(c) /\ UNCHANGED stream
       /\ ended' = (ended \/ c = EOF)
  /\ Use("peek")
  /\ UNCHANGED <<file, reading, got>>

\* read_chars: one fread.
ReadChars(n) ==
  /\ ~reading
  /\ Len(got) < MaxReads
  /\ got' = got \o Fread(n)
  /\ ended' = (ended \/ Len(stream) < n)
  /\ stream' = AfterFread(n)
  /\ Use("chars")
  /\ UNCHANGED <<file, shim, reading>>

\* read_all: fread of BufferSize characters, again while it returns as many.
ReadAll ==
  /\ reading \/ Len(got) < MaxReads
  /\ got' = got \o Fread(BufferSize)
  /\ ended' = (ended \/ Len(stream) < BufferSize)
  /\ reading' = (Len(stream) >= BufferSize)
  /\ stream' = AfterFread(BufferSize)
  /\ Use("all")
  /\ UNCHANGED <<file, shim>>

\* The end of ecall_execute forgets the buffer.  The next request opens a file
\* anew; standard input stays open.
NextRequest ==
  /\ ~reading
  /\ counter' = -1 /\ getc_buffer' = <<>>
  /\ stream' = IF is_stdin THEN stream ELSE Text
  /\ got' = <<>> /\ ended' = FALSE /\ used' = {}
  /\ UNCHANGED <<file, reading>>

Next ==
  \/ ReadChar
  \/ TestEof
  \/ \E n \in 1..BufferSize : ReadChars(n)
  \/ ReadAll
  \/ NextRequest

Spec == Init /\ [][Next]_vars

-----------------------------------------------------------------------------
(***************************************************************************)
(* Where the shim is the C library: a plain file, however it is read; an   *)
(* encrypted one read whole (read_file of bootstrap.lua); and standard     *)
(* input read character by character, not empty and not beyond its end     *)
(* (the comment of getc, Enclave.cpp:415-422).                             *)
(***************************************************************************)
AsInC ==
  \/ ~is_stdin /\ (~encrypted \/ used \subseteq {"all", "peek"})
  \/ is_stdin /\ used \subseteq {"char"} /\ ~ended /\ length > 0

\* There, the code reads the text from its start, nothing twice, nothing left out,
\* and meets the end only at the end, in every request.
ReadsText == AsInC => got = SubSeq(Text, 1, Len(got)) /\ (ended => got = Text)

\* "Parse the whole file into a buffer, decrypt it once and each time a getc is
\* executed, we return the next char from the buffer" (Enclave.cpp:419-421).
GetcNextChar ==
  is_stdin /\ used \subseteq {"char"} /\ length > 0 =>
    \A i \in 2..Len(got) : got[i] = got[i - 1] + 1
=============================================================================
