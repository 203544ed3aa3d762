----------------------------- MODULE SSLWrapper -----------------------------
(***************************************************************************)
(* Connections with TLS: SSLWrapper at both ends of a stream, as the       *)
(* client's and the server's Connection drive it.  OpenSSL's engine is     *)
(* external: a handshake of three flights ("hello", "server", "finished"), *)
(* records of application data, a memory BIO each way; a record that has   *)
(* come in part is one that has not come.  Calls come on the connection's  *)
(* thread, and the wrapper is there before the first read.                 *)
(***************************************************************************)
EXTENDS Integers, Sequences, SequencesExt

CONSTANTS
    Plaintexts,        \* for each end, the sequence of what its user writes
    MaxReads           \* bound on the records one read of the socket gets

Roles == {"client", "server"}
Texts == UNION {Range(Plaintexts[r]) : r \in Roles}

ASSUME TlsAssumption == Plaintexts \in [Roles -> Seq(Texts)] /\ MaxReads \in Nat

Peer(r) == IF r = "client" THEN "server" ELSE "client"

VARIABLES
    ends,              \* for each end, the wrapper and its engine
    stream             \* for each end, the records on their way to it

tlsVars == <<ends, stream>>

-----------------------------------------------------------------------------
(* OpenSSL: rbio holds what came, wbio what is to go.  w.ret is what the   *)
(* last call returned.                                                     *)

Flight(w, record) == [w EXCEPT !.wbio = Append(@, record)]
Heads(w, record) == w.rbio # <<>> /\ Head(w.rbio) = record
Taken(w) == [w EXCEPT !.rbio = Tail(@)]

SSLDoHandshake(w) ==
    IF w.role = "client"
    THEN CASE w.step = "start" -> [Flight(w, "hello") EXCEPT !.step = "waits", !.ret = "want_read"]
           [] w.step = "waits" /\ Heads(w, "server") ->
                [Flight(Taken(w), "finished") EXCEPT !.step = "done", !.ret = "ok"]
           [] w.step = "done" -> [w EXCEPT !.ret = "ok"]
           [] OTHER -> [w EXCEPT !.ret = "want_read"]
    ELSE CASE w.step = "start" /\ Heads(w, "hello") ->
                [Flight(Taken(w), "server") EXCEPT !.step = "waits", !.ret = "want_read"]
           [] w.step = "waits" /\ Heads(w, "finished") -> [Taken(w) EXCEPT !.step = "done", !.ret = "ok"]
           [] w.step = "done" -> [w EXCEPT !.ret = "ok"]
           [] OTHER -> [w EXCEPT !.ret = "want_read"]

SSLInitFinished(w) == w.step = "done"
SSLWrite(w, data) == Flight(w, <<data>>)

-----------------------------------------------------------------------------
(* SSLWrapper.                                                             *)

\* handleOut: all of wbio goes to _onEncryptedData
HandleOut(w) == [w EXCEPT !.sent = @ \o w.wbio, !.wbio = <<>>]

\* handleSSLError; nothing but WANT_READ comes of this engine
HandleSSLError(w) == IF w.ret = "want_read" THEN HandleOut(w) ELSE w

\* The cached writes, one after another: each is a record, and goes out with what
\* wbio has.
SendCached(w, cached) ==
    IF cached = <<>> THEN w
    ELSE [w EXCEPT !.sent = @ \o w.wbio \o [i \in DOMAIN cached |-> <<cached[i]>>],
                   !.wbio = <<>>, !.sendBuffer = <<>>]

\* mutant of DoHandshake: the last write goes first
DoHandshakeLastFirst(w) ==
    LET tried == SSLDoHandshake(w)
    IN  IF w.handshakeFinished THEN w
        ELSE IF tried.ret # "ok" THEN HandleSSLError(tried)
        ELSE SendCached([tried EXCEPT !.handshakeFinished = TRUE], Reverse(tried.sendBuffer))

\* doHandshake
DoHandshake(w) ==
    LET tried == SSLDoHandshake(w)
    IN  IF w.handshakeFinished THEN w
        ELSE IF tried.ret # "ok" THEN HandleSSLError(tried)
        ELSE SendCached([tried EXCEPT !.handshakeFinished = TRUE], tried.sendBuffer)

SendUnencrypted(w, data) ==
    IF ~w.handshakeFinished THEN DoHandshake([w EXCEPT !.sendBuffer = Append(@, data)])
    ELSE HandleOut(SSLWrite(w, data))

StartHandshake(w) == IF w.role # "client" \/ SSLInitFinished(w) THEN w ELSE DoHandshake(w)

\* SSL_read until it wants more
ReadAll(w) == HandleSSLError([w EXCEPT !.decrypted = @ \o [i \in DOMAIN w.rbio |-> w.rbio[i][1]],
                                       !.rbio = <<>>, !.ret = "want_read"])

\* one BIO_write takes all of it
OnRecvEncrypted(w, records) ==
    LET got == [w EXCEPT !.rbio = @ \o records]
        shaken == IF SSLInitFinished(got) THEN got ELSE DoHandshake(got)
    IN  HandleOut(IF shaken.handshakeFinished THEN ReadAll(shaken) ELSE shaken)

-----------------------------------------------------------------------------
(* Connection: enableTls and enableTlsClient, writeInner and readInner.    *)

NewWrapper(role) ==
    [role |-> role, step |-> "start", ret |-> "ok", rbio |-> <<>>, wbio |-> <<>>,
     handshakeFinished |-> FALSE, sendBuffer |-> <<>>, decrypted |-> <<>>, sent |-> <<>>,
     enabled |-> FALSE, written |-> 0]

TlsInit ==
    /\ ends = [r \in Roles |-> NewWrapper(r)]
    /\ stream = [r \in Roles |-> <<>>]

\* The wrapper's new state, and what it sent on the wire
Becomes(r, w, rest) ==
    /\ ends' = [ends EXCEPT ![r] = [w EXCEPT !.sent = <<>>]]
    /\ stream' = [rest EXCEPT ![Peer(r)] = @ \o w.sent]

EnableTls(r) ==
    /\ ~ends[r].enabled
    /\ Becomes(r, StartHandshake([ends[r] EXCEPT !.enabled = TRUE]), stream)

\* a user's write
WriteTls(r) ==
    LET w == ends[r] IN
    /\ w.enabled /\ w.written < Len(Plaintexts[r])
    /\ Becomes(r, SendUnencrypted([w EXCEPT !.written = @ + 1], Plaintexts[r][w.written + 1]), stream)

\* readInner
ReadTls(r, n) ==
    /\ ends[r].enabled /\ n <= Len(stream[r])
    /\ Becomes(r, OnRecvEncrypted(ends[r], SubSeq(stream[r], 1, n)),
               [stream EXCEPT ![r] = SubSeq(@, n + 1, Len(@))])

TlsNext ==
    \E r \in Roles :
        \/ EnableTls(r)
        \/ WriteTls(r)
        \/ \E n \in 1..MaxReads : ReadTls(r, n)

TlsSpec == TlsInit /\ [][TlsNext]_tlsVars

-----------------------------------------------------------------------------
(* Properties.                                                             *)

\* What an end is given is what the other end's user wrote, in order, whatever was
\* written before the handshake ended.
PlaintextInOrder ==
    \A r \in Roles :
        LET w == ends[r] IN
        \E n \in 0..ends[Peer(r)].written :
            w.decrypted = SubSeq(Plaintexts[Peer(r)], 1, n)

\* When nothing is on its way and both ends have begun, all that was written has
\* been read: neither the wrapper nor a BIO keeps anything back.
NothingKeptBack ==
    (\A r \in Roles : ends[r].enabled /\ stream[r] = <<>>) =>
        \A r \in Roles : Len(ends[r].decrypted) = ends[Peer(r)].written

\* All that is written arrives, in order, with nothing but what is on its way missing.
PlaintextFlows == PlaintextInOrder /\ NothingKeptBack

=============================================================================
