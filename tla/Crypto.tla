-------------------------------- MODULE Crypto --------------------------------
(***************************************************************************)
(* Keys, encryption and signatures (service/crypto), symbolically: a       *)
(* cipher text opens with the key it was made with and with no other, a    *)
(* signature verifies for the message and the key pair it was made with    *)
(* and for no other.  Then the one use of both at once: how a text message *)
(* is encrypted for its recipient and read back at either end              *)
(* (infra/message/TextMessage).                                            *)
(*                                                                         *)
(* A key is <<half, pair>>, the PEM text of one half of a key pair.        *)
(***************************************************************************)
CONSTANT BadKeys    \* nodes whose configured private key does not match their public key

pemFromEVP(pair, pub) == <<IF pub THEN "PUBLIC KEY" ELSE "PRIVATE KEY", pair>>

evpFromPem(key) == key[2]

generateKeyPair(pair) ==
    [publicKey |-> pemFromEVP(pair, TRUE), privateKey |-> pemFromEVP(pair, FALSE)]

\* PUBLIC_KEY and PRIVATE_KEY of a node's configuration: the two halves of the
\* pair generated for it, unless one of them has been replaced since.
publicKey(n) == generateKeyPair(<<n, "generated">>).publicKey
privateKey(n) ==
    generateKeyPair(<<n, IF n \in BadKeys THEN "replaced" ELSE "generated">>).privateKey

\* Diffie-Hellman: what one's private and the other's public key make is what
\* the other's private and one's public key make.
createSessionKey(private, public) == {evpFromPem(private), evpFromPem(public)}

encrypt(message, key) == [plain |-> message, key |-> key]

\* A failing tag check throws.
decrypts(cipher, key) == cipher.key = key
decrypt(cipher, key) == cipher.plain

sign(message, private) == [message |-> message, by |-> evpFromPem(private)]

verify(message, signature, public) ==
    signature.message = message /\ signature.by = evpFromPem(public)

-----------------------------------------------------------------------------
(* Text messages.                                                          *)

\* The JSON of a message on the wire and in both ends' tables.
serializeText(from, to, text) ==
    [from |-> from, to |-> to,
     message |-> encrypt(text, createSessionKey(privateKey(from), publicKey(to))),
     signature |-> sign(text, privateKey(from))]

\* Mutant: the reader always takes the sender's public key.
readableUninverted(reader, json, invertFromTo) ==
    LET sessionKey == createSessionKey(privateKey(reader), publicKey(json.from))
    IN  /\ decrypts(json.message, sessionKey)
        /\ verify(decrypt(json.message, sessionKey), json.signature, publicKey(json.from))

\* Whether the TextMessage constructor gets to the end of its try block.  The
\* other end's public key is the sender's or, for a message read back by the one
\* who sent it, the recipient's.
readable(reader, json, invertFromTo) ==
    LET sessionKey == createSessionKey(privateKey(reader),
                          publicKey(IF invertFromTo THEN json.to ELSE json.from))
    IN  /\ decrypts(json.message, sessionKey)
        /\ verify(decrypt(json.message, sessionKey), json.signature, publicKey(json.from))

CrashedMessage == "CRASHED MESSAGE"

\* The text of a message read from the table (createObjectIfError set).
textOf(reader, json, invertFromTo) ==
    IF readable(reader, json, invertFromTo) THEN json.message.plain ELSE CrashedMessage
=============================================================================
