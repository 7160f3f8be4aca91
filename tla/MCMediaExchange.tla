--------------------------- MODULE MCMediaExchange --------------------------
(* Two calls. Each format and operation as a page names it, one with another  *)
(* type, one in upper case, and files that are not what was signed for.       *)
EXTENDS MediaExchange

Item(kind, extension, mime, operation, bytes) ==
    [kind |-> kind, extension |-> extension, mime |-> mime,
     operation |-> operation, bytes |-> bytes]
Png(bytes) == Item("IMAGE", ".png", "image/png", "METADATA", bytes)
M4a == Item("AUDIO", ".m4a", "audio/mp4", "METADATA", 1)
Mp3 == Item("AUDIO", ".mp3", "audio/mpeg", "AUDIO_PURIFY", 1)

MCCapabilities ==
    {Png(1), Item("VIDEO", ".mov", "video/quicktime", "METADATA", 1),
     M4a, [M4a EXCEPT !.mime = "audio/x-m4a"], Mp3}
MCFiles ==
    MCCapabilities \cup {Png(0), Png(2), [Mp3 EXCEPT !.operation = "METADATA"],
                         [Mp3 EXCEPT !.extension = ".MP3"],
                         [M4a EXCEPT !.kind = "VIDEO"]}

Report(format, actions, length, script, outputBytes) ==
    [format |-> format, actions |-> actions, length |-> length,
     script |-> script, outputBytes |-> outputBytes]
MCReports ==
    {Report(f, 31, 2000, s, 1) : f \in {"png", "mp3", "mp4"}, s \in {"ascii", "astral"}}
    \cup {Report(f, 30, 40, "bmp", n) : f \in {"png", "mp3", "mp4"}, n \in {0, 1}}

(* Reports that no page has a reason to refuse.                               *)
MCOrdinaryReports == {r \in MCReports : r.script = "ascii"}

(* The replies of a website that keeps to the types of ReceiptResult, and one *)
(* for each way a single balance may break them.                              *)
Reply(used, credits, cleans) ==
    [creditsUsed |-> used, remainingCredits |-> credits, guestCleansLeft |-> cleans]
MCOrdinaryPayloads == {Reply("fraction", "fraction", "null"), Reply("null", "null", "count")}
MCPayloads ==
    MCOrdinaryPayloads \cup
    {Reply("negative", "count", "null"), Reply("nonfinite", "count", "null"),
     Reply("other", "count", "null"), Reply("count", "other", "null"),
     Reply("count", "null", "fraction"), Reply("count", "null", "negative")}
=============================================================================
