------------------------------- MODULE Codec -------------------------------
(***************************************************************************)
(* The bytes of the protocol: how the client and the server build          *)
(* messages (client.c, server.c), how a message becomes a frame and a      *)
(* frame a message (serializer.c), and how the payloads of the CAP are     *)
(* prepared and parsed (cap.c); the class Message of the C++ library does  *)
(* the same for messages of its own (message.cpp).  A byte is a number below Base and a data  *)
(* size takes Digits bytes (256 and 8 in the code), so that every length   *)
(* kept in one byte wraps within reach.  Frames wait in a FIFO, wire, and  *)
(* one receive takes some of its first bytes: a frame, a part of it, or    *)
(* more than one.  Names and payloads are sequences of bytes.              *)
(***************************************************************************)
EXTENDS Integers, Sequences, SequencesExt

CONSTANTS
    Base,      \* the number of values of a byte
    Digits,    \* the bytes of a data size in a frame
    ByteXor,   \* the exclusive or of two bytes, ^ in C
    Fill,      \* the bytes a read past the end of a buffer may find
    First,     \* what may be asked for first
    Later      \* what may be asked for before anything is received

Byte == 0..Base - 1
Name == Seq(Byte)

ASSUME CodecAssumption ==
    /\ Base \in {8, 16, 32, 64, 128, 256}    \* the control bytes and the options fit
    /\ Digits \in Nat \ {0}
    /\ ByteXor \in [Byte \X Byte -> Byte]
    /\ Fill \subseteq Byte

\* What callers ask for; an assignment that is refused names no pipes, and the
\* C++ objects take any int as time to live.
Requests ==
    [kind : {"send"}, id : Name, remote : Name, data : Name, ttl : Byte, options : Byte]
        \cup [kind : {"object"}, id : Name, remote : Name, data : Name, ttl : Int, options : Byte]
        \cup [kind : {"subscribe"}, id : Name, groups : Seq(Name)]
        \cup [kind : {"unsubscribe"}, id : Name]
        \cup {r \in [kind : {"assign"}, id : Name, error : Byte, tx : Name, rx : Name] :
                  r.error # 0 => r.tx = <<>> /\ r.rx = <<>>}

ASSUME RequestsAssumption == First \cup Later \subseteq Requests

VARIABLES
    asked,     \* what callers asked to send, in order
    built,     \* the messages built from it
    wire,      \* the bytes of their frames not received yet
    taken,     \* how many bytes the receive got, 0 before it
    heard      \* what was made of them

vars == <<asked, built, wire, taken, heard>>

SOH == 1
STX == 2
ETX == 3
VERSION == 1
IGNORE_CHECKSUM == 4
SUBSCRIPTION == 1
UNSUBSCRIPTION == 2
ASSIGNMENT == Base - 1

\* A length kept in a uint8_t, and the characters of a name copied for it.
Narrow(name) == SubSeq(name, 1, Len(name) % Base)

-----------------------------------------------------------------------------
(* Payloads of the CAP *)

PrepareSubscription(groups) ==
    LET payload[k \in 0..Len(groups)] ==
            IF k = 0 THEN <<SUBSCRIPTION, Len(groups) % Base>>
            ELSE payload[k - 1] \o <<Len(groups[k]) % Base>> \o groups[k]
    IN  payload[Len(groups)]

PrepareUnsubscription == <<UNSUBSCRIPTION>>

PrepareAssign(error, tx, rx) ==
    <<ASSIGNMENT, error, Len(tx) % Base>> \o tx \o <<Len(rx) % Base>> \o rx

GetMessage(data) ==
    IF data # <<>> /\ data[1] \in {SUBSCRIPTION, UNSUBSCRIPTION, ASSIGNMENT} THEN data[1] ELSE 0

\* The groups read so far end before position at; broken says that the next one does not fit.
GroupAfter(data, read) ==
    LET size == data[read.at] IN
    IF read.broken \/ read.at > Len(data) THEN read
    ELSE IF read.at + size > Len(data) THEN [read EXCEPT !.broken = TRUE]
    ELSE [read EXCEPT !.at = @ + size + 1,
                      !.groups = Append(@, SubSeq(data, read.at + 1, read.at + size))]

\* wild counts the entries of the array of groups that are used or freed
\* without having been set.
ParseSubscribe(data) ==
    IF Len(data) < 2 \/ data[1] # SUBSCRIPTION
    THEN [rc |-> "BAD_PACKET", groups |-> <<>>, wild |-> 0]
    ELSE LET read[k \in 0..data[2]] ==
                 IF k = 0 THEN [at |-> 3, groups |-> <<>>, broken |-> FALSE]
                 ELSE GroupAfter(data, read[k - 1])
             all == read[data[2]]
         IN IF all.broken THEN [rc |-> "BAD_PACKET", groups |-> <<>>, wild |-> 1]
            ELSE [rc |-> "SUCCESS", groups |-> all.groups, wild |-> data[2] - Len(all.groups)]

\* Mutant: the second name is compared as the first one is.
ParseAssignStrict(data) ==
    LET refused == [rc |-> "BAD_PACKET", error |-> 0, tx |-> <<>>, rx |-> <<>>]
        r == 4 + data[3]
    IN  IF Len(data) < 4 \/ data[1] # ASSIGNMENT THEN refused
        ELSE IF data[2] # 0 THEN [rc |-> "SUCCESS", error |-> data[2], tx |-> <<>>, rx |-> <<>>]
        ELSE IF r > Len(data) \/ r + data[r] >= Len(data) THEN refused
        ELSE [rc |-> "SUCCESS", error |-> 0, tx |-> SubSeq(data, 4, r - 1),
              rx |-> SubSeq(data, r + 1, r + data[r])]

ParseAssign(data) ==
    LET refused == [rc |-> "BAD_PACKET", error |-> 0, tx |-> <<>>, rx |-> <<>>]
        r == 4 + data[3]            \* where the size of the second name is
    IN  IF Len(data) < 4 \/ data[1] # ASSIGNMENT THEN refused
        ELSE IF data[2] # 0 THEN [rc |-> "SUCCESS", error |-> data[2], tx |-> <<>>, rx |-> <<>>]
        ELSE IF r > Len(data) \/ r + data[r] > Len(data) THEN refused
        ELSE [rc |-> "SUCCESS", error |-> 0, tx |-> SubSeq(data, 4, r - 1),
              rx |-> SubSeq(data, r + 1, r + data[r])]

\* What the receiver of a message of the CAP makes of its payload.
Parsed(data) ==
    CASE GetMessage(data) = SUBSCRIPTION -> ParseSubscribe(data)
      [] GetMessage(data) = ASSIGNMENT -> ParseAssign(data)
      [] GetMessage(data) = UNSUBSCRIPTION -> [rc |-> "SUCCESS"]
      [] OTHER -> [rc |-> "UNKNOWN"]

-----------------------------------------------------------------------------
(* Messages *)

\* octopipes_send_ex ends the copy of the client's name at the length of the
\* remote's, and not its own: a shorter remote cuts the origin, a longer one
\* has a byte beyond the buffer set to 0, which may be one of the remote's.
SentOrigin(id, remote) ==
    [i \in 1..Len(Narrow(id)) |-> IF i = Len(Narrow(remote)) + 1 THEN 0 ELSE id[i]]

\* Mutant: the byte after the name's end is taken for one of the remote's also
\* when both names have the same length.
SentRemoteOffByOne(id, remote, hit) ==
    [i \in 1..Len(Narrow(remote)) |->
        IF i = hit /\ Len(Narrow(remote)) >= Len(Narrow(id)) THEN 0 ELSE remote[i]]

SentRemote(id, remote, hit) ==
    [i \in 1..Len(Narrow(remote)) |->
        IF i = hit /\ Len(Narrow(remote)) > Len(Narrow(id)) THEN 0 ELSE remote[i]]

\* The message each caller builds, hit being the byte of the remote that the
\* write beyond the origin falls on (0: none of them).
Message(r, hit) ==
    CASE r.kind = "send" ->
            [origin |-> SentOrigin(r.id, r.remote), remote |-> SentRemote(r.id, r.remote, hit),
             ttl |-> r.ttl, options |-> r.options, data |-> r.data]
      [] r.kind = "subscribe" ->
            [origin |-> Narrow(r.id), remote |-> <<>>, ttl |-> 5, options |-> 0,
             data |-> PrepareSubscription(r.groups)]
      [] r.kind = "unsubscribe" ->
            [origin |-> Narrow(r.id), remote |-> <<>>, ttl |-> 5, options |-> 0,
             data |-> PrepareUnsubscription]
      [] r.kind = "assign" ->
            [origin |-> <<>>, remote |-> Narrow(r.id), ttl |-> 5, options |-> 0,
             data |-> PrepareAssign(r.error, r.tx, r.rx)]
      [] r.kind = "object" ->                     \* Message::encodeData
            [origin |-> Narrow(r.id), remote |-> Narrow(r.remote), ttl |-> r.ttl % Base,
             options |-> r.options, data |-> r.data]

\* The characters of a name up to the first one that is 0.
CString(name) ==
    LET end == SelectInSeq(name, LAMBDA c : c = 0)
    IN  IF end = 0 THEN name ELSE SubSeq(name, 1, end - 1)

\* Mutant: the origin is made of the remote's name.
DecodeDataCopied(m) ==
    [crash |-> m.origin = <<>> \/ m.remote = <<>>, origin |-> CString(m.remote),
     remote |-> CString(m.remote), ttl |-> m.ttl, options |-> m.options, payload |-> m.data]

\* The object that Message::decodeData makes of a message; a name without
\* characters is NULL there, and no string can be made of it.
DecodeData(m) ==
    [crash |-> m.origin = <<>> \/ m.remote = <<>>, origin |-> CString(m.origin),
     remote |-> CString(m.remote), ttl |-> m.ttl, options |-> m.options, payload |-> m.data]

-----------------------------------------------------------------------------
(* Frames *)

\* n shifted right by j bytes.
Shifted(n) ==
    LET rest[j \in 0..Digits] == IF j = 0 THEN n ELSE rest[j - 1] \div Base
    IN  rest

SizeBytes(n) == [i \in 1..Digits |-> Shifted(n)[Digits - i] % Base]

SizeOf(bytes) ==
    LET size[j \in 0..Digits] == IF j = 0 THEN 0 ELSE Base * size[j - 1] + bytes[j]
    IN  size[Digits]

\* A size_t has as many bytes as a frame has for it.
ASSUME SizesAssumption ==
    \A r \in First \cup Later : Shifted(Len(Message(r, 0).data))[Digits] = 0

Layout(m, checksum) ==
    <<SOH, VERSION, Len(m.origin)>> \o m.origin \o <<Len(m.remote)>> \o m.remote
        \o <<m.ttl>> \o SizeBytes(Len(m.data)) \o <<m.options, checksum, STX>> \o m.data \o <<ETX>>

ChecksumOf(bytes) ==
    LET checksum[k \in 0..Len(bytes)] == IF k = 0 THEN 0 ELSE ByteXor[<<checksum[k - 1], bytes[k]>>]
    IN  checksum[Len(bytes)]

calculate_checksum(m) == ChecksumOf(Layout(m, 0))

Checked(options) == (options \div IGNORE_CHECKSUM) % 2 = 0

\* Mutant: the checksum of a frame that is not to be verified is left at -1.
EncodeSigned(m) == Layout(m, IF Checked(m.options) THEN calculate_checksum(m) ELSE -1)

Encode(m) == Layout(m, IF Checked(m.options) THEN calculate_checksum(m) ELSE 0)

Minimum == 9 + Digits

\* Mutant: data that was not received is left out instead of read.
DataClipped(bytes, at, size, fill) ==
    SubSeq(bytes, at, IF at + size - 1 > Len(bytes) THEN Len(bytes) ELSE at + size - 1)

\* The data a frame claims; beyond the bytes received, fill is found.
Data(bytes, at, size, fill) ==
    [i \in 1..size |-> IF at + i - 1 <= Len(bytes) THEN bytes[at + i - 1] ELSE fill]

\* The message that the fields of a frame describe, its checksum, and how many
\* bytes beyond those received were read for it.
Fields(bytes, fill) ==
    LET remoteAt == 4 + bytes[3]
        ttlAt == remoteAt + 1 + bytes[remoteAt]
        optionsAt == ttlAt + Digits + 1
        dataAt == optionsAt + 3
        data == Data(bytes, dataAt, SizeOf(SubSeq(bytes, ttlAt + 1, ttlAt + Digits)), fill)
        past == dataAt + Len(data) - 1 - Len(bytes)
    IN  [message |-> [origin |-> SubSeq(bytes, 4, remoteAt - 1),
                      remote |-> SubSeq(bytes, remoteAt + 1, ttlAt - 1),
                      ttl |-> bytes[ttlAt], options |-> bytes[optionsAt], data |-> data],
         checksum |-> bytes[optionsAt + 1], stx |-> bytes[optionsAt + 2] = STX,
         over |-> IF past > 0 THEN past ELSE 0]

Nothing == [rc |-> "none", message |-> <<>>, over |-> 0, parsed |-> <<>>, object |-> <<>>]

Failed(rc, over) == [Nothing EXCEPT !.rc = rc, !.over = over]

\* Mutant: a frame without data is taken for one that is too short.
NamesFitStrictly(bytes) ==
    /\ Len(bytes) > Minimum + bytes[3]
    /\ Len(bytes) > Minimum + bytes[3] + bytes[4 + bytes[3]]

\* Whether the two names announced fit in what was received.
NamesFit(bytes) ==
    /\ Len(bytes) >= Minimum + bytes[3]
    /\ Len(bytes) >= Minimum + bytes[3] + bytes[4 + bytes[3]]

\* The size of the data is compared with all that was received, not with what is left of it.
Decode(bytes, fill) ==
    IF Len(bytes) < Minimum \/ bytes[1] # SOH \/ Last(bytes) # ETX THEN Failed("BAD_PACKET", 0)
    ELSE IF bytes[2] # VERSION THEN Failed("UNSUPPORTED_VERSION", 0)
    ELSE IF ~NamesFit(bytes) THEN Failed("BAD_PACKET", 0)
    ELSE LET f == Fields(bytes, fill)
             m == f.message
         IN IF ~f.stx \/ Len(bytes) < Len(m.data) THEN Failed("BAD_PACKET", 0)
            ELSE IF Checked(m.options) /\ calculate_checksum(m) # f.checksum
            THEN Failed("BAD_CHECKSUM", f.over)
            ELSE [rc |-> "SUCCESS", message |-> m, over |-> f.over, parsed |-> Parsed(m.data),
                  object |-> DecodeData(m)]

-----------------------------------------------------------------------------

Init ==
    /\ asked = <<>> /\ built = <<>> /\ wire = <<>>
    /\ taken = 0
    /\ heard = Nothing

Send(r) ==
    /\ taken = 0
    /\ r \in IF asked = <<>> THEN First ELSE Later
    /\ Len(asked) < 2                       \* bound: two frames on the wire
    /\ \E hit \in 0..(IF r.kind = "send" THEN Len(Narrow(r.remote)) ELSE 0) :
          LET m == Message(r, hit) IN
          /\ built' = Append(built, m)
          /\ wire' = wire \o Encode(m)
    /\ asked' = Append(asked, r)
    /\ UNCHANGED <<taken, heard>>

\* A receive ends where the writer paused: anywhere in the bytes on the wire.
Receive(n) ==
    /\ taken = 0
    /\ \E fill \in Fill : heard' = Decode(SubSeq(wire, 1, n), fill)
    /\ taken' = n
    /\ wire' = SubSeq(wire, n + 1, Len(wire))
    /\ UNCHANGED <<asked, built>>

Next ==
    \/ \E r \in First \cup Later : Send(r)
    \/ \E n \in 1..Len(wire) : Receive(n)

Spec == Init /\ [][Next]_vars

-----------------------------------------------------------------------------

\* Every byte of the wire is a byte, and what was heard is one of the
\* results of octopipes_decode.
CodecTypeOK ==
    /\ wire \in Name
    /\ taken \in Nat
    /\ Len(built) = Len(asked)
    /\ \A i \in DOMAIN built : built[i].origin \in Name /\ built[i].remote \in Name
    /\ heard.rc \in {"none", "SUCCESS", "BAD_PACKET", "BAD_CHECKSUM", "UNSUPPORTED_VERSION"}

FirstFrame == Len(Encode(built[1]))

\* The receive ended where a frame ends, one or more frames having arrived.
WholeFrames == taken > 0 /\ (wire = <<>> \/ taken = FirstFrame)

\* A receive that ends where a frame ends makes of it the message the sender
\* built, and reads nothing beyond it, also when the frame of the next message
\* came with it: octopipes_decode inverts octopipes_encode for every length a
\* byte can hold, names without characters and data without bytes included
\* (serializer.c:40-260).
WholeHeard ==
    WholeFrames => heard.rc = "SUCCESS" /\ heard.message = built[1] /\ heard.over = 0

\* Whatever part of the frames a receive got, what octopipes_decode accepts
\* without reading beyond it is the message that was sent: the end of a
\* frame, a byte of data that looks like ETX, and a checksum that is not
\* verified never make another message of it (serializer.c:49-140).
AcceptedWasSent ==
    heard.rc = "SUCCESS" /\ heard.over = 0 => heard.message = built[1]

\* A message heard whole carries what the caller asked to send: its data,
\* options and time to live always, the origin when the remote's name is no
\* shorter than the client's and the remote when it is no longer, as long as
\* a byte holds their lengths (client.c:396-420, server.c:287-294).
AskedHeard ==
    WholeFrames /\ asked[1].kind = "send" =>
        LET r == asked[1]
            m == heard.message
        IN  /\ m.data = r.data /\ m.options = r.options /\ m.ttl = r.ttl
            /\ (Len(r.id) < Base /\ Len(r.remote) < Base) =>
                  /\ Len(r.remote) >= Len(r.id) => m.origin = r.id
                  /\ Len(r.remote) <= Len(r.id) => m.remote = r.remote

\* A Message encoded by one object and decoded by another is the same for
\* names that are not empty and hold no 0, as long as a byte holds their
\* lengths and the time to live; decodeData fails on nothing but empty names
\* (message.cpp, encodeData and decodeData).
ObjectHeard ==
    WholeFrames /\ asked[1].kind = "object" =>
        LET r == asked[1]
            o == heard.object
        IN  (Len(r.id) < Base /\ Len(r.remote) < Base) =>
                /\ o.crash = (r.id = <<>> \/ r.remote = <<>>)
                /\ o.payload = r.data /\ o.options = r.options /\ (r.ttl \in Byte => o.ttl = r.ttl)
                /\ (\A i \in DOMAIN r.id : r.id[i] # 0) => o.origin = r.id
                /\ (\A i \in DOMAIN r.remote : r.remote[i] # 0) => o.remote = r.remote

\* The groups of a subscription and the pipes of an assignment arrive as they
\* were given, with no entry of the array of groups left unset, whenever a
\* byte can hold their number and lengths; a refusal arrives as its error and
\* names no pipes (cap.c:37-98, 139-240).
ParsedAsAsked ==
    WholeFrames =>
        LET r == asked[1]
            p == heard.parsed
        IN  /\ r.kind = "subscribe" /\ Len(r.groups) < Base
               /\ (\A i \in DOMAIN r.groups : Len(r.groups[i]) < Base) =>
                     p.rc = "SUCCESS" /\ p.groups = r.groups /\ p.wild = 0
            /\ r.kind = "assign" /\ Len(r.tx) < Base /\ Len(r.rx) < Base =>
                  p = [rc |-> "SUCCESS", error |-> r.error, tx |-> r.tx, rx |-> r.rx]
=============================================================================
