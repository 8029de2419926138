--------------------------- MODULE AttachmentRules ---------------------------
(***************************************************************************)
(* Which files the support desk takes, and what it tells the panel about   *)
(* that: services/support-attachment-types.ts.  A file is a record of      *)
(*   ext      the extension of its sanitized name, "" if it has none       *)
(*   marks    what its first bytes can be taken for                        *)
(*   plain    whether all it has been read of is UTF-8 without controls    *)
(*   entries  what the central directory of an archive lists, by what is   *)
(*            notable of each entry; archive tells whether it can be read  *)
(*   size     in MB                                                        *)
(*                                                                         *)
(* Left out: the bytes behind each content and entry, names beyond their   *)
(* extensions, messages.                                                   *)
(***************************************************************************)
EXTENDS Integers, FiniteSets, FiniteSetsExt, Sequences

Kinds == {"image", "video", "document", "text", "archive"}

\* ATTACHMENT_REGISTRY and MIME_BY_EXTENSION.
Extensions ==
    [image |-> {"png", "jpg", "jpeg", "webp", "gif"}, video |-> {"mp4", "mov", "webm"},
     document |-> {"pdf", "docx", "xlsx", "pptx"}, text |-> {"txt", "csv", "log", "json", "har"},
     archive |-> {"zip"}]
maxBytes == [image |-> 10, video |-> 100, document |-> 25, text |-> 10, archive |-> 50]
Previewable == {"image", "video", "document"}

\* The top-level type of the MIME type stored for an extension.
MimeOf(ext) ==
    IF ext \in Extensions.image THEN "image" ELSE IF ext \in Extensions.video THEN "video"
    ELSE IF ext \in {"txt", "log", "csv"} THEN "text" ELSE IF ext \in {"json", "har"} THEN "json"
    ELSE IF ext \in {"pdf", "zip"} THEN ext ELSE "office"

\* Of BLOCKED_EXTENSIONS, one of each group.
Blocked == {"exe", "js", "xlsm", "doc", "rar", "svg", "heic"}

Allowed == UNION {Extensions[k] : k \in Kinds}
KindOf(ext) == CHOOSE k \in Kinds : ext \in Extensions[k]

\* getAttachmentConfig.
getAttachmentConfig(kinds) ==
    [kinds |-> [k \in kinds |-> [extensions |-> Extensions[k], maxBytes |-> maxBytes[k],
                                 previewable |-> k \in Previewable]],
     max_bytes |-> Max({maxBytes[k] : k \in kinds} \union {0})]

\* The signatures in the order detectContent tries them: what it looks for, and its
\* answer.  Those of an executable are short, and "ftyp" is not at the start.
Signatures == << <<"MZ", "pe">>, <<"ELF", "elf">>, <<"Mach-O", "macho">>, <<"OLE2", "ole2">>,
                 <<"PNG", "png">>, <<"JPEG", "jpeg">>, <<"GIF8", "gif">>, <<"WEBP", "webp">>,
                 <<"%PDF", "pdf">>, <<"ftyp qt", "mov">>, <<"ftyp", "mp4">>, <<"EBML", "webm">>,
                 <<"PK", "zip">> >>
Executable == {"pe", "elf", "macho", "ole2"}

detectContent(file) ==
    LET found == {i \in DOMAIN Signatures : Signatures[i][1] \in file.marks}
    IN IF found # {} THEN Signatures[Min(found)][2] ELSE IF file.plain THEN "text" ELSE "unknown"

\* The parts an Office document must have, and entries that are refused in any archive.
Part == [docx |-> "word/document.xml", xlsx |-> "xl/workbook.xml", pptx |-> "ppt/presentation.xml"]
BadEntries == {"encrypted", "blocked", "nested", "bin", "bomb"}

\* inspectZip and validateZipSafety.
ZipSafe(file) == file.archive = "readable" /\ file.entries \intersect BadEntries = {}

validateOoxml(file) ==
    ZipSafe(file) /\ {"[content_types].xml", Part[file.ext]} \subseteq file.entries

(* Mutant: a .mov has to say it is QuickTime. *)
StrictMov(file, content) ==
    IF file.ext \in {"jpg", "jpeg"} THEN content = "jpeg"
    ELSE IF file.ext \in DOMAIN Part THEN content = "zip" /\ validateOoxml(file)
    ELSE IF file.ext = "zip" THEN content = "zip" /\ ZipSafe(file)
    ELSE IF file.ext \in Extensions.text THEN content = "text"
    ELSE content = file.ext

\* The content must be the extension's.
ContentFits(file, content) ==
    IF file.ext \in {"jpg", "jpeg"} THEN content = "jpeg"
    ELSE IF file.ext = "mov" THEN content \in {"mov", "mp4"}
    ELSE IF file.ext \in DOMAIN Part THEN content = "zip" /\ validateOoxml(file)
    ELSE IF file.ext = "zip" THEN content = "zip" /\ ZipSafe(file)
    ELSE IF file.ext \in Extensions.text THEN content = "text"
    ELSE content = file.ext

\* validateAttachment.
Accepted(file, kinds) ==
    /\ file.size > 0
    /\ file.ext \notin Blocked /\ file.ext \in Allowed /\ KindOf(file.ext) \in kinds
    /\ detectContent(file) \notin Executable
    /\ ContentFits(file, detectContent(file))
    /\ file.size <= maxBytes[KindOf(file.ext)]

\* kindForAttachment: by the extension of the stored name, else by the MIME type.
kindForAttachment(mime, ext) ==
    IF ext \in Allowed THEN KindOf(ext)
    ELSE IF mime \in {"image", "video"} THEN mime
    ELSE IF mime = "pdf" THEN "document" ELSE IF mime = "zip" THEN "archive"
    ELSE IF mime \in {"text", "json"} THEN "text" ELSE "none"

\* What the thread shows of a stored attachment (serializeAttachments), and whether a
\* download is shown inline (canPreviewAttachment); kind may be missing in old ones.
storedKind(att) == IF att.kind # "none" THEN att.kind ELSE kindForAttachment(att.mime, att.ext)
serializeAttachment(att) ==
    [kind |-> storedKind(att), removed |-> att.removed,
     previewable |-> ~att.removed /\ storedKind(att) \in Previewable]
canPreviewAttachment(kind, mime, ext) ==
    IF kind # "none" THEN kind \in Previewable
    ELSE IF ext \in Allowed THEN KindOf(ext) \in Previewable
    ELSE mime \in {"image", "video"}

-----------------------------------------------------------------------------
(* Properties of one file and one set of enabled kinds.                    *)

\* The file a program writes under an extension, on any platform: an iPhone's .mov and
\* a browser's recording begin like an .mp4.  A text that begins with the letters MZ
\* is taken for a program, and a document with printer settings for one with macros.
Written ==
    [png |-> {"PNG"}, jpg |-> {"JPEG"}, jpeg |-> {"JPEG"}, gif |-> {"GIF8"}, webp |-> {"WEBP"},
     mp4 |-> {"ftyp"}, mov |-> {"ftyp", "ftyp qt"}, webm |-> {"EBML"}, pdf |-> {"%PDF"},
     docx |-> {"PK"}, xlsx |-> {"PK"}, pptx |-> {"PK"}, zip |-> {"PK"}]
Genuine(file) ==
    /\ file.archive = "readable" /\ file.entries \intersect BadEntries = {}
    /\ IF file.ext \in DOMAIN Written
       THEN file.marks # {} /\ file.marks \subseteq Written[file.ext]
       ELSE file.ext # "" /\ file.marks = {} /\ file.plain
    /\ file.ext \in DOMAIN Part => {"[content_types].xml", Part[file.ext]} \subseteq file.entries

\* The panel and the server cannot disagree: a genuine file is taken exactly if the
\* configuration the panel was sent lists its extension and allows its size, and
\* whatever is taken is a file of a kind the panel was told about.
PanelAgrees(file, kinds) ==
    LET config == getAttachmentConfig(kinds)
        listed == \E k \in kinds : /\ file.ext \in config.kinds[k].extensions
                                   /\ file.size \in 1..config.kinds[k].maxBytes
    IN /\ Genuine(file) => (Accepted(file, kinds) <=> listed)
       /\ Accepted(file, kinds) => listed /\ file.size <= config.max_bytes

\* A file keeps its kind: what is stored with it, its name and its MIME type, says the
\* same as its upload did, the MIME type alone too, but for Office documents; and the
\* thread offers a preview exactly of what a download shows inline.
KindIsKept(file, kinds) ==
    Accepted(file, kinds) =>
        /\ kindForAttachment(MimeOf(file.ext), file.ext) = KindOf(file.ext)
        /\ MimeOf(file.ext) # "office" => kindForAttachment(MimeOf(file.ext), "") = KindOf(file.ext)
        /\ \A kind \in {KindOf(file.ext), "none"}, ext \in {file.ext, ""} :
              LET att == [kind |-> kind, mime |-> MimeOf(file.ext), ext |-> ext, removed |-> FALSE]
              IN serializeAttachment(att).previewable
                    <=> canPreviewAttachment(storedKind(att), att.mime, att.ext)
=============================================================================
