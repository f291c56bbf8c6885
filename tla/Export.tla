--------------------------------- MODULE Export ---------------------------------
(***************************************************************************)
(* The export screen (hooks/useExportController.ts and screens/Export).    *)
(* A preview is fetched for every choice of format and payload level and   *)
(* kept; the file is written by a command with the choice of that moment.  *)
(***************************************************************************)
EXTENDS Integers

LOCAL INSTANCE Functions

CONSTANTS
    Formats,       \* the formats offered; "json" is preselected
    PayloadLevels, \* the payload levels offered; "metadata_only" is preselected
    MaxPreviews    \* bound: previews in flight

ASSUME ExportConstants ==
    /\ "json" \in Formats
    /\ "metadata_only" \in PayloadLevels
    /\ PayloadLevels \subseteq {"metadata_only", "headers", "full_payload"}
    /\ MaxPreviews \in Nat \ {0}

VARIABLES
    export,          \* what the mounted screen holds
    previewCache,    \* the choices whose preview is kept
    previewQueries,  \* per choice: previews in flight
    exportCall,      \* the export under way: its choice and stage
    openCall         \* is an "open the file" under way

exportVars == <<export, previewCache, previewQueries, exportCall, openCall>>

ExportChoices == Formats \X PayloadLevels
NoPreview == [any |-> FALSE, format |-> "json", level |-> "metadata_only", payloads |-> FALSE]
\* enrichedPreview: the level and what it says of payloads are put in by the client.
PreviewOf(choice) ==
    [any |-> TRUE, format |-> choice[1], level |-> choice[2], payloads |-> choice[2] = "full_payload"]
NotExporting == [stage |-> "none", choice |-> <<"json", "metadata_only">>]
NoQueries == [c \in ExportChoices |-> 0]
ExportFresh == [format |-> "json", level |-> "metadata_only", preview |-> NoPreview,
                status |-> "loading-preview", busy |-> FALSE, notice |-> "none",
                artifact |-> FALSE, opening |-> FALSE]

ExportInit ==
    /\ export = ExportFresh
    /\ previewCache = {}
    /\ previewQueries = [NoQueries EXCEPT ![<<"json", "metadata_only">>] = 1]
    /\ exportCall = NotExporting
    /\ openCall = FALSE

Chosen(screen) == <<screen.format, screen.level>>

\* The rules listed with a preview: that of its level comes first, whatever it was before.
FormatSanitizedRules(level) ==
    [metadata_only |-> "no packet payloads leave", headers |-> "application body stripped",
     full_payload |-> "packet payloads included"][level]

ExportPreviewCard(p) == [rule |-> FormatSanitizedRules(p.level), warns |-> p.payloads]

ExportView ==
    [selectors |-> ~export.busy, start |-> ~export.busy,
     open |-> export.artifact /\ ~export.opening,
     preview |-> IF export.preview.any THEN ExportPreviewCard(export.preview)
                 ELSE IF export.status = "loading-preview" THEN "skeleton" ELSE "nothing",
     \* A notice is a success only as long as nothing moved the status on.
     noticeLevel |-> IF export.status = "completed" THEN "success" ELSE "error"]

\* fetchPreview, up to its await: the effect on every change of the choice.
FetchPreview(screen) ==
    LET choice == Chosen(screen)
    IN IF choice \in previewCache
       THEN /\ export' = [screen EXCEPT !.preview = PreviewOf(choice), !.status = "preview-ready"]
            /\ UNCHANGED previewQueries
       ELSE /\ SumFunction(previewQueries) < MaxPreviews
            /\ export' = [screen EXCEPT !.status = "loading-preview", !.notice = "none"]
            /\ previewQueries' = [previewQueries EXCEPT ![choice] = @ + 1]

SetFormat(f) ==
    /\ ExportView.selectors /\ f # export.format
    /\ FetchPreview([export EXCEPT !.format = f])
    /\ UNCHANGED <<previewCache, exportCall, openCall>>

\* The preview on the screen is relabelled at once, then fetched.
SetLevel(lvl) ==
    /\ ExportView.selectors /\ lvl # export.level
    /\ FetchPreview([export EXCEPT !.level = lvl,
                        !.preview = IF @.any THEN PreviewOf(<<@.format, lvl>>) ELSE @])
    /\ UNCHANGED <<previewCache, exportCall, openCall>>

PreviewAnswered(choice, kind) ==
    /\ previewQueries[choice] > 0
    /\ previewQueries' = [previewQueries EXCEPT ![choice] = @ - 1]
    /\ previewCache' = IF kind = "ok" THEN previewCache \cup {choice} ELSE previewCache
    /\ export' = [export EXCEPT
                    !.preview = IF kind = "ok" THEN PreviewOf(choice) ELSE NoPreview,
                    !.status = [ok |-> "preview-ready", other |-> "idle", failed |-> "failed"][kind],
                    !.notice = IF kind = "failed" THEN "failed" ELSE @]
    /\ UNCHANGED <<exportCall, openCall>>

StartExport ==
    /\ ExportView.start
    /\ export' = [export EXCEPT !.notice = "none", !.busy = TRUE, !.status = "exporting"]
    /\ exportCall' = [stage |-> "asked", choice |-> Chosen(export)]
    /\ UNCHANGED <<previewCache, previewQueries, openCall>>

\* The command ends: with the file it wrote, without naming one, or with an error.
ExportEnded(how) ==
    /\ exportCall.stage = "asked"
    /\ export' = [export EXCEPT
                    !.busy = FALSE, !.notice = how,
                    !.status = IF how = "failed" THEN "failed" ELSE "completed",
                    !.artifact = (how = "written") \/ (@ /\ how = "failed")]
    /\ exportCall' = NotExporting
    /\ UNCHANGED <<previewCache, previewQueries, openCall>>

OpenArtifact ==
    /\ ExportView.open
    /\ export' = [export EXCEPT !.opening = TRUE, !.notice = "none"]
    /\ openCall' = TRUE
    /\ UNCHANGED <<previewCache, previewQueries, exportCall>>

ArtifactOpened(how) ==
    /\ openCall
    /\ export' = [export EXCEPT !.opening = FALSE, !.notice = how]
    /\ openCall' = FALSE
    /\ UNCHANGED <<previewCache, previewQueries, exportCall>>

DismissExportNotice ==
    /\ export.notice # "none"
    /\ export' = [export EXCEPT !.notice = "none"]
    /\ UNCHANGED <<previewCache, previewQueries, exportCall, openCall>>

\* The cache is the hook's own: it goes with the screen.
LeaveExport ==
    /\ export' = ExportFresh
    /\ previewCache' = {}
    /\ previewQueries' = [NoQueries EXCEPT ![<<"json", "metadata_only">>] = 1]
    /\ exportCall' = NotExporting
    /\ openCall' = FALSE

ExportAnswers ==
    \/ \E c \in ExportChoices, kind \in {"ok", "other", "failed"} : PreviewAnswered(c, kind)
    \/ \E how \in {"written", "unreported", "failed"} : ExportEnded(how)
    \/ \E how \in {"opened", "unconfirmed", "failed"} : ArtifactOpened(how)

ExportNext ==
    \/ \E f \in Formats : SetFormat(f)
    \/ \E lvl \in PayloadLevels : SetLevel(lvl)
    \/ StartExport \/ OpenArtifact \/ DismissExportNotice \/ LeaveExport
    \/ ExportAnswers

-----------------------------------------------------------------------------
ExportTypeOK ==
    /\ export.format \in Formats /\ export.level \in PayloadLevels
    /\ export.status \in {"idle", "loading-preview", "preview-ready", "exporting", "completed", "failed"}
    /\ export.notice \in {"none", "failed", "written", "unreported", "opened", "unconfirmed"}
    /\ previewCache \subseteq ExportChoices
    /\ previewQueries \in [ExportChoices -> Nat]
    /\ exportCall.stage \in {"none", "asked"} /\ openCall \in BOOLEAN

\* The file that is being written is of the choice still on the screen: no selection made
\* meanwhile makes the screen name another one.
WritesWhatIsChosen ==
    /\ export.busy <=> exportCall.stage = "asked"
    /\ export.busy => exportCall.choice = Chosen(export)

\* The screen waits for a preview, and opens a file, only while one is on its way.
ExportWaitHasCause ==
    /\ export.status = "loading-preview" => \E c \in ExportChoices : previewQueries[c] > 0
    /\ export.opening => openCall
================================================================================
