------------------------------- MODULE Enclave -------------------------------
(***************************************************************************)
(* One SGX enclave: the globals of Enclave.cpp and what each ecall does to *)
(* them.  An ecall is a function from the enclave's state to its next one, *)
(* so that the host (Server) composes the ecalls of one handler in order.  *)
(***************************************************************************)
EXTENDS Wire

(***************************************************************************)
(* plain     enclave_bootstrap: files are read without being decrypted     *)
(* open      L is a Lua state that has not been closed                     *)
(* spk       the public key of the enclave's own pair                      *)
(* cpk       client_public_key                                             *)
(* key       encryption_key                                                *)
(* response  server_response: what the code printed                        *)
(* crashed   abort() was called: the SDK refuses every later ecall         *)
(***************************************************************************)
EnclaveState ==
  [plain : BOOLEAN, open : BOOLEAN, spk : Nat,
   cpk : Sessions \union {NoSession}, key : Nat,
   response : Seq(Request), crashed : BOOLEAN]

\* sgx_create_enclave: the globals' initial values.
Loaded == [plain |-> TRUE, open |-> FALSE, spk |-> Zero, cpk |-> NoSession,
           key |-> Zero, response |-> <<>>, crashed |-> FALSE]

\* What a file on the untrusted disk holds.
File == [out : Seq(Request), key : Nat]
Empty == [out |-> <<>>, key |-> Zero]

\* The shim's fread hands Lua the file's own text.
Reads(e, file) == file.key = (IF e.plain THEN Zero ELSE e.key)

\* bootstrap_lua: a new Lua state runs bootstrap.lua, a plain file of the host.
Bootstrap(e) == [e EXCEPT !.open = TRUE, !.crashed = @ \/ ~Reads(e, Empty)]

EcallInit(e) == Bootstrap(e)

EcallGenPkeys(e, k)       == [e EXCEPT !.spk = k]
EcallRegisterClient(e, c) == [e EXCEPT !.cpk = c]

\* Mutant: the random source always returns the same bytes.
EcallSendAesKeyFixed(e, k) == [e EXCEPT !.key = 1]

\* ecall_send_aes_key: a fresh key k, sent in two halves.
EcallSendAesKey(e, k) == [e EXCEPT !.key = k]
\* Mutant: only the first half of the key is sent.
KeyHalvesFirst(e) == <<[t |-> "box", v |-> e.key, cpk |-> e.cpk, spk |-> e.spk]>>

KeyHalves(e) ==
  LET half == [t |-> "box", v |-> e.key, cpk |-> e.cpk, spk |-> e.spk]
  IN  <<half, half>>

\* What the called function prints: its request and the text of the module file.
\* That is the file of whatever session uploaded one last, if the VM can read it:
\* nothing deletes it.  (A function that opens no file shows less.)
Printed(e, request, module) ==
  [request EXCEPT !.mod = IF Reads(e, module) /\ module.out # <<>>
                          THEN Head(module.out).s ELSE NoSession]

\* main() finds a Lua state, loads code.lua and finds a request in it.
Runs(e, code) == e.open /\ Reads(e, code) /\ code.out # <<>>

\* Mutant: main() closes the Lua state whatever the mode.
MainCloses(e, code, module) ==
  [e EXCEPT !.response = Append(@, Printed(e, Head(code.out), module)),
            !.open = FALSE]

\* main() on success.  The Lua state survives unless files are plain.
Main(e, code, module) ==
  [e EXCEPT !.response = Append(@, Printed(e, Head(code.out), module)),
            !.open = @ /\ ~e.plain]

\* ecall_execute up to main(): the local mode boots Lua again.
EcallExecuteStart(e, local) ==
  [(IF local THEN Bootstrap(e) ELSE e) EXCEPT !.plain = local]

\* The result packet: encrypted with the enclave's key unless local.
ResultPacket(e, local) ==
  Text("result", e.response, IF local THEN Zero ELSE e.key)

\* Mutant: server_response is not cleared.
EcallExecuteEndKeeps(e) == e

\* The end of ecall_execute: the response is cleared.
EcallExecuteEnd(e) == [e EXCEPT !.response = <<>>]
=============================================================================
