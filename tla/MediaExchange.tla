--------------------------- MODULE MediaExchange ----------------------------
(* What a media call carries, on top of the control of Media: the capability  *)
(* the website signed, the file and header the page sealed, what the cleaner  *)
(* made of it, the balances the website replied to the charge, the response   *)
(* header the workload encodes after it, and the page's checks of that        *)
(* response. The programs must agree on them: security.py and app.py,         *)
(* media.py, receipts.py, and confidential-crypto.ts.                         *)
EXTENDS Media

CONSTANTS
    Capabilities,  \* the capabilities the website signs
    Files,         \* the headers and files the page seals
    Reports,       \* what the upstream cleaners report of a file
    Payloads       \* what the website may reply to a receipt

Terms == [kind : STRING, extension : STRING, mime : STRING, operation : STRING, bytes : Nat]
CleanerReport ==
    [format : STRING, actions : Nat, length : Nat, script : {"ascii", "bmp", "astral"},
     outputBytes : Nat]
ASSUME TermsAssumption == Files \subseteq Terms /\ Capabilities \subseteq Terms
ASSUME ReportsAssumption == Reports \subseteq CleanerReport

(* A JSON value, as far as the checks tell: null, a nonnegative safe integer, *)
(* any other finite nonnegative number, a negative or infinite one, or        *)
(* something else, which for creditsUsed is what float() raises for.          *)
Value == {"null", "count", "fraction", "negative", "nonfinite", "other"}
Balances == [creditsUsed : Value, remainingCredits : Value, guestCleansLeft : Value]
ASSUME PayloadsAssumption == Payloads \subseteq Balances

VARIABLES
    capability,  \* of each call
    file,        \* what the page of each call sealed
    report,      \* the report of each call's job, None before it
    balances,    \* the balances sealed into the response, None before it
    page         \* what the page made of the response

data == <<capability, file, report, balances, page>>

----------------------------------------------------------------------------
(* Tables: one extension for each way its kind, type and format may differ.   *)

ExtensionsByKind ==
    [IMAGE |-> {".png"}, VIDEO |-> {".mov"}, AUDIO |-> {".mp3", ".m4a"}]
Extensions == UNION {ExtensionsByKind[k] : k \in DOMAIN ExtensionsByKind}
MimeByExtension ==
    [e \in Extensions |-> CASE e = ".png" -> "image/png" [] e = ".mov" -> "video/quicktime"
                            [] e = ".mp3" -> "audio/mpeg" [] e = ".m4a" -> "audio/mp4"]
FormatByExtension ==
    [e \in Extensions |-> CASE e = ".png" -> "png" [] e = ".mp3" -> "mp3"
                            [] e \in {".mov", ".m4a"} -> "mp4"]
Lower(extension) == IF extension = ".MP3" THEN ".mp3" ELSE extension

(* Capability.validate_asset_measurements, for a file.                        *)
ValidCapability(k) ==
    /\ k.kind \in DOMAIN ExtensionsByKind
    /\ k.extension = Lower(k.extension)
    /\ k.operation \in {"METADATA", "AUDIO_PURIFY"}
    /\ k.operation = "AUDIO_PURIFY" => k.kind = "AUDIO"
    /\ k.bytes >= 1

(* decode_media_request, of a frame the client built.                         *)
Decodes(f) ==
    /\ f.kind \in DOMAIN ExtensionsByKind
    /\ Lower(f.extension) \in ExtensionsByKind[f.kind]
    /\ f.operation \in {"METADATA", "AUDIO_PURIFY"}
    /\ f.operation = "AUDIO_PURIFY" => f.kind = "AUDIO"
    /\ f.bytes >= 1

(* The decoded request is the one the capability was signed for.              *)
AuthorizedAnyType(f, k) ==                                       \* mutant
    /\ Decodes(f)
    /\ [f EXCEPT !.extension = Lower(@), !.mime = k.mime] = k
Authorized(f, k) == Decodes(f) /\ [f EXCEPT !.extension = Lower(@)] = k

(* clean_media: at most 30 actions of at most 300 characters; a purification  *)
(* puts a line of its own before 29 of them and always makes an .m4a.         *)
MaxHeader == 32000
MaxAction == 300
Least(a, b) == IF a <= b THEN a ELSE b
Purified(f) == f.operation = "AUDIO_PURIFY"
ActionsKept(f, r) == IF Purified(f) THEN Least(r.actions, 29) ELSE Least(r.actions, 30)
ActionCount(f, r) == ActionsKept(f, r) + IF Purified(f) THEN 1 ELSE 0
ActionLengthUncut(r) == r.length                                  \* mutant
ActionLength(r) == Least(r.length, MaxAction)
OutputExtensionOfInput(f) == Lower(f.extension)                   \* mutant
OutputExtension(f) == IF Purified(f) THEN ".m4a" ELSE Lower(f.extension)
OutputMime(f) == MimeByExtension[OutputExtension(f)]

(* json.dumps(ensure_ascii=True): the bytes of one character, plain, written  *)
(* as one \u escape ("bmp") or as two; the rest of the header, with the line   *)
(* of a purification and balances of ordinary length, takes at most           *)
(* FixedHeader.                                                               *)
EscapedBytes == [ascii |-> 1, bmp |-> 6, astral |-> 12]
FixedHeader == 700
HeaderBytes(f, r) ==
    FixedHeader + ActionsKept(f, r) * (ActionLength(r) * EscapedBytes[r.script] + 3)
Encodes(f, r) == HeaderBytes(f, r) <= MaxHeader

(* ReceiptClient.submit: creditsUsed goes through float(x or 0), and what     *)
(* that raises for is no acknowledgement; the others are passed on unchecked. *)
Readable(reply) == reply.creditsUsed # "other"
ReceiptResult(reply) ==
    [reply EXCEPT !.creditsUsed = IF @ = "null" THEN "count" ELSE @]

(* MediaResponseDecryptor.decrypt: a JavaScript string has two units for a    *)
(* character outside the BMP. The page compares with what it sealed. A number *)
(* that is not finite is not even JSON to it.                                 *)
Utf16Units == [ascii |-> 1, bmp |-> 1, astral |-> 2]
Accepts(f, k, r, b) ==
    /\ HeaderBytes(f, r) \in 2 .. MaxHeader
    /\ OutputExtension(f) = IF Purified(f) THEN ".m4a" ELSE f.extension
    /\ OutputMime(f) = IF Purified(f) THEN "audio/mp4" ELSE f.mime
    /\ k.bytes = f.bytes
    /\ r.outputBytes > 0
    /\ ActionCount(f, r) <= 30
    /\ ActionLength(r) * Utf16Units[r.script] <= MaxAction
    /\ b.creditsUsed \in {"count", "fraction"}
    /\ b.remainingCredits \in {"null", "count", "fraction"}
    /\ b.guestCleansLeft \in {"null", "count"}

----------------------------------------------------------------------------

DataTypeOK ==
    /\ TypeOK
    /\ capability \in [Calls -> Capabilities]
    /\ file \in [Calls -> Files]
    /\ report \in [Calls -> Reports \cup {None}]
    /\ balances \in [Calls -> Balances \cup {None}]
    /\ page \in [Calls -> {"waiting", "shown", "rejected"}]

ExchangeInit ==
    /\ Init
    /\ capability \in [Calls -> {k \in Capabilities : ValidCapability(k)}]
    /\ file \in [Calls -> Files]
    /\ report = [c \in Calls |-> None]
    /\ balances = [c \in Calls |-> None]
    /\ page = [c \in Calls |-> "waiting"]

(* The request is opened and compared with its capability before the lock.    *)
OpenRequest(c) ==
    /\ IF Authorized(file[c], capability[c]) THEN Admit(c) ELSE Mismatch(c)
    /\ UNCHANGED data

(* The cleaners detect a format, and clean_media raises if it is not that of  *)
(* the extension; they may raise on their own account.                        *)
CleanMedia(c) ==
    /\ ThreadEnds(c)
    /\ IF thread'[c] = "cleaned"
       THEN \E r \in Reports :
               /\ r.format = FormatByExtension[Lower(file[c].extension)]
               /\ report' = [report EXCEPT ![c] = r]
       ELSE UNCHANGED report
    /\ UNCHANGED <<capability, file, balances, page>>

(* The charge is acknowledged by a reply that can be read; the header is then *)
(* encoded, or is too large and the call is answered with a server error.     *)
EncodeResult(c) ==
    /\ Deliver(c)
    /\ pc'[c] = IF Encodes(file[c], report[c]) THEN "delivered" ELSE "broken"
    /\ \E reply \in {p \in Payloads : Readable(p)} :
          balances' = [balances EXCEPT ![c] = ReceiptResult(reply)]
    /\ UNCHANGED <<capability, file, report, page>>

Receive(c) ==
    /\ pc[c] = "delivered"
    /\ page[c] = "waiting"
    /\ page' = [page EXCEPT ![c] =
                   IF Accepts(file[c], capability[c], report[c], balances[c])
                   THEN "shown" ELSE "rejected"]
    /\ UNCHANGED <<vars, capability, file, report, balances>>

ExchangeNext ==
    \/ \E c \in Calls :
          \/ OpenRequest(c) \/ CleanMedia(c) \/ EncodeResult(c) \/ Receive(c)
          \/ /\ \/ StartJob(c) \/ ClaimFails(c) \/ ChargeFails(c) \/ Fail(c)
                \/ JobEnds(c) \/ CancelJob(c) \/ CancelSubmit(c)
             /\ UNCHANGED data
    \/ Restart /\ UNCHANGED data

ExchangeSpec == ExchangeInit /\ [][ExchangeNext]_<<vars, data>>
ExchangeFairSpec == ExchangeSpec /\ Fairness

----------------------------------------------------------------------------
(* Properties *)

(* The capability binds kind, operation, extension, type and byte count "to   *)
(* prevent operation or type substitution and under-billing" (README.md:53):  *)
(* whatever is charged or shown was sealed under exactly those terms, up to   *)
(* the case of the extension, was of the signed format inside, and came out   *)
(* in the format the signed operation makes.                                  *)
NoSubstitution ==
    \A c \in Calls :
        LET signed == capability[c] IN
        site[c] = "charged" \/ page[c] = "shown" =>
            /\ [file[c] EXCEPT !.extension = Lower(@)] = signed
            /\ report[c] \in Reports
            /\ report[c].format = FormatByExtension[signed.extension]
            /\ OutputExtension(file[c]) =
                  IF signed.operation = "AUDIO_PURIFY" THEN ".m4a" ELSE signed.extension

(* A file is charged before its result is encoded: the charge is lost in a    *)
(* server error only when the cleaners report text that JSON escapes.         *)
BrokenNeedsEscapes ==
    \A c \in Calls : pc[c] = "broken" => report[c].script # "ascii"

(* What the workload cleaned and charged is what the page expects, for every  *)
(* format and operation: it refuses a genuine result only if the page named   *)
(* the file in a way the workload normalises, for the text or emptiness of    *)
(* what the upstream cleaners returned, or for the website's reply: a balance *)
(* that is negative, not finite or no number, or a number of cleans left that *)
(* is no safe integer.                                                        *)
OrdinaryResultAccepted ==
    \A c \in Calls :
        page[c] = "rejected" =>
            \/ file[c].extension # Lower(file[c].extension)
            \/ file[c].mime # MimeByExtension[Lower(file[c].extension)]
            \/ report[c].outputBytes = 0
            \/ report[c].script = "astral"
            \/ \E name \in DOMAIN balances[c] :
                  balances[c][name] \in {"negative", "nonfinite", "other"}
            \/ balances[c].guestCleansLeft = "fraction"

(* confidential-crypto.ts:225-249 asserts that a response whose fields differ *)
(* was not made by the workload: "The workload returned invalid media result  *)
(* metadata." A genuine result would never be refused.                        *)
GenuineResultAccepted == \A c \in Calls : page[c] # "rejected"
=============================================================================
