----------------------------- MODULE SrtpCrypto -----------------------------
(***************************************************************************)
(* src/src/srtp_crypto.cpp with the key derivation of srtp_util.cpp, as    *)
(* terms: a derived key is named by its master key and label, an IV by the *)
(* fields that are written into it, a ciphertext by key, IV and plaintext, *)
(* a digest by its key and what went into it.  AES, GCM and HMAC-SHA1      *)
(* themselves are OpenSSL's and ideal: what was not made with the same key *)
(* and IV decrypts to garbage and does not authenticate.                   *)
(*                                                                         *)
(* What a packet looks like on the wire is part of the model: it is a      *)
(* sequence of fields with sizes, and a receiver finds a field by its      *)
(* distance from the end.                                                  *)
(***************************************************************************)
EXTENDS Integers, Sequences

GCM == {"AEAD_AES_256_GCM", "AEAD_AES_128_GCM"}
CM == {"AES128_CM_SHA1_80", "AES128_CM_SHA1_32"}
Profiles == GCM \cup CM

Garbage == <<"garbage">>        \* what a wrong key or IV yields
Refused == [refused |-> TRUE]   \* the operation returns false

kAESGCM_TagSize == 16
kRTCP_TrailerSize == 4
kRTCP_HeaderSize == 8
ControlDigestSize == 10   \* "for both SHA1_80 and SHA1_32"
NoExtension == -1

-----------------------------------------------------------------------------
\* Keys.

\* KeyDerivation::generate
KeyDerivation(master, label) == [master |-> master, label |-> label]

Vectors(master, stream) ==
    [key |-> KeyDerivation(master, <<stream, "key">>),
     auth |-> KeyDerivation(master, <<stream, "auth">>),
     salt |-> KeyDerivation(master, <<stream, "salt">>)]

\* SrtpCrypto::create
createCrypto(profile, sendMaster, receiveMaster) ==
    [profile |-> profile,
     sendRtp |-> Vectors(sendMaster, "rtp"), receiveRtp |-> Vectors(receiveMaster, "rtp"),
     sendRtcp |-> Vectors(sendMaster, "rtcp"), receiveRtcp |-> Vectors(receiveMaster, "rtcp")]

-----------------------------------------------------------------------------
\* Primitives (OpenSSL) and the wire.

Encrypt(key, iv, body) == [key |-> key, iv |-> iv, body |-> body]
Decrypt(key, iv, cipher) ==
    IF cipher = Encrypt(key, iv, cipher.body) THEN cipher.body ELSE Garbage

\* An authentication tag, cut to size bytes.
Digest(key, iv, content, size) == [key |-> key, iv |-> iv, content |-> content, size |-> size]

Field(value, size) == [value |-> value, size |-> size]

\* The number of bytes of the first i fields, for every i.
Bytes(wire) ==
    LET bytes[i \in 0..Len(wire)] == IF i = 0 THEN 0 ELSE bytes[i - 1] + wire[i].size
    IN bytes

WireLength(wire) == Bytes(wire)[Len(wire)]

\* What is read from the middle of a field.
NoField == [index |-> -1, encrypted |-> FALSE]

\* The field that starts offset bytes before the end.
FromEnd(wire, offset) ==
    LET starts == {i \in DOMAIN wire : WireLength(wire) - Bytes(wire)[i - 1] = offset}
    IN IF starts = {} THEN NoField ELSE wire[CHOOSE i \in starts : TRUE].value

-----------------------------------------------------------------------------
\* Media.

getMediaProtectionOverhead(profile) ==
    CASE profile \in GCM -> kAESGCM_TagSize
      [] profile = "AES128_CM_SHA1_80" -> 10
      [] profile = "AES128_CM_SHA1_32" -> 4

\* The part of an RTP packet that is not encrypted: 12 bytes, and the extension.
HeaderSize(header) == 12 + (IF header.ext = NoExtension THEN 0 ELSE 4 + 4 * header.ext)

MediaIV(v, header, rollover) == <<v.salt, header.ssrc, rollover, header.seq>>

\* p: header (ssrc, seq and the words of its extension), payload and its size.
\* A packet with an extension and no payload is refused.
ProtectWith(c, p, cipher, digest) ==
    IF p.header.ext # NoExtension /\ p.size = 0 THEN Refused
    ELSE << Field(p.header, HeaderSize(p.header)), Field(cipher, p.size),
            Field(digest, getMediaProtectionOverhead(c.profile)) >>

protectSendMediaGCM(c, p, rollover) ==
    LET iv == MediaIV(c.sendRtp, p.header, rollover)
    IN ProtectWith(c, p, Encrypt(c.sendRtp.key, iv, p.payload),
                   Digest(c.sendRtp.key, iv, <<p.header, p.payload>>, kAESGCM_TagSize))

protectSendMediaCM(c, p, rollover) ==
    LET iv == MediaIV(c.sendRtp, p.header, rollover)
        cipher == Encrypt(c.sendRtp.key, iv, p.payload)
    IN ProtectWith(c, p, cipher,
                   Digest(c.sendRtp.auth, <<>>, <<p.header, cipher, rollover>>,
                          getMediaProtectionOverhead(c.profile)))

protectSendMedia(c, p, rollover) ==
    IF c.profile \in GCM THEN protectSendMediaGCM(c, p, rollover)
    ELSE protectSendMediaCM(c, p, rollover)

\* A packet whose header leaves no room for a payload is refused.
MediaFits(c, wire) ==
    WireLength(wire) - getMediaProtectionOverhead(c.profile) > HeaderSize(wire[1].value)

unprotectReceiveMediaGCM(c, wire, rollover) ==
    LET header == wire[1].value
        iv == MediaIV(c.receiveRtp, header, rollover)
        payload == Decrypt(c.receiveRtp.key, iv, wire[2].value)
        tag == FromEnd(wire, kAESGCM_TagSize)
    IN IF MediaFits(c, wire)
          /\ tag = Digest(c.receiveRtp.key, iv, <<header, payload>>, kAESGCM_TagSize)
       THEN [header |-> header, payload |-> payload, size |-> wire[2].size] ELSE Refused

unprotectReceiveMediaCM(c, wire, rollover) ==
    LET header == wire[1].value
        size == getMediaProtectionOverhead(c.profile)
        iv == MediaIV(c.receiveRtp, header, rollover)
        tag == FromEnd(wire, size)
    IN IF MediaFits(c, wire)
          /\ tag = Digest(c.receiveRtp.auth, <<>>, <<header, wire[2].value, rollover>>, size)
       THEN [header |-> header, payload |-> Decrypt(c.receiveRtp.key, iv, wire[2].value),
             size |-> wire[2].size]
       ELSE Refused

unprotectReceiveMedia(c, wire, rollover) ==
    IF c.profile \in GCM THEN unprotectReceiveMediaGCM(c, wire, rollover)
    ELSE unprotectReceiveMediaCM(c, wire, rollover)

-----------------------------------------------------------------------------
\* Control.  The trailer is the SRTCP index with the encrypted bit: this code always
\* encrypts, a peer need not.

Trailer(index, encrypted) == [index |-> index, encrypted |-> encrypted]

ControlIV(v, ssrc, index) == <<v.salt, ssrc, index>>

\* p: ssrc, the body and its size.  The tag stands before the trailer.
protectSendControlGCM(c, p, index, encrypted) ==
    LET v == c.sendRtcp
        iv == ControlIV(v, p.ssrc, index)
        trailer == Trailer(index, encrypted)
        body == IF encrypted THEN Encrypt(v.key, iv, p.body) ELSE p.body
    IN << Field(p.ssrc, kRTCP_HeaderSize), Field(body, p.size),
          Field(Digest(v.key, iv, <<p.ssrc, trailer, p.body>>, kAESGCM_TagSize), kAESGCM_TagSize),
          Field(trailer, kRTCP_TrailerSize) >>

\* The tag stands behind the trailer.
protectSendControlCM(c, p, index, encrypted) ==
    LET v == c.sendRtcp
        trailer == Trailer(index, encrypted)
        body == IF encrypted THEN Encrypt(v.key, ControlIV(v, p.ssrc, index), p.body) ELSE p.body
    IN << Field(p.ssrc, kRTCP_HeaderSize), Field(body, p.size), Field(trailer, kRTCP_TrailerSize),
          Field(Digest(v.auth, <<>>, <<p.ssrc, body, trailer>>, ControlDigestSize),
                ControlDigestSize) >>

protectSendControl(c, p, index, encrypted) ==
    IF c.profile \in GCM THEN protectSendControlGCM(c, p, index, encrypted)
    ELSE protectSendControlCM(c, p, index, encrypted)

ControlBody(v, wire, trailer) ==
    IF trailer.encrypted
    THEN Decrypt(v.key, ControlIV(v, wire[1].value, trailer.index), wire[2].value)
    ELSE wire[2].value

unprotectReceiveControlGCM(c, wire) ==
    LET v == c.receiveRtcp
        ssrc == wire[1].value
        trailer == FromEnd(wire, kRTCP_TrailerSize)
        body == ControlBody(v, wire, trailer)
        tag == FromEnd(wire, kRTCP_TrailerSize + kAESGCM_TagSize)
    IN IF tag = Digest(v.key, ControlIV(v, ssrc, trailer.index), <<ssrc, trailer, body>>,
                       kAESGCM_TagSize)
       THEN [ssrc |-> ssrc, body |-> body, size |-> wire[2].size] ELSE Refused

unprotectReceiveControlCM(c, wire) ==
    LET v == c.receiveRtcp
        ssrc == wire[1].value
        trailer == FromEnd(wire, ControlDigestSize + kRTCP_TrailerSize)
        tag == FromEnd(wire, ControlDigestSize)
    IN IF tag = Digest(v.auth, <<>>, <<ssrc, wire[2].value, trailer>>, ControlDigestSize)
       THEN [ssrc |-> ssrc, body |-> ControlBody(v, wire, trailer), size |-> wire[2].size]
       ELSE Refused

unprotectReceiveControl(c, wire) ==
    IF c.profile \in GCM THEN unprotectReceiveControlGCM(c, wire)
    ELSE unprotectReceiveControlCM(c, wire)
=============================================================================
