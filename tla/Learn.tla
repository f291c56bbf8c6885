--------------------------------- MODULE Learn ---------------------------------
(***************************************************************************)
(* The curriculum (hooks/useLearnController.ts, screens/Learn).  A lesson  *)
(* is opened by a command, then its text is asked for; an answer to its    *)
(* exercise is judged by the engine, which keeps what was learned.  A text *)
(* that comes late is put on the screen whatever lesson is open by then.   *)
(***************************************************************************)
EXTENDS Integers, FiniteSets

CONSTANTS
    Lessons,      \* the lessons of the curriculum
    Needs(_),     \* the prerequisites of a lesson
    Steps(_),     \* how many steps its walkthrough has
    MaxLessonCalls \* bound: lessons being opened or read when another one is opened

ASSUME LearnConstants ==
    /\ \A l \in Lessons : Needs(l) \subseteq Lessons \ {l} /\ Steps(l) \in Nat \ {0}
    /\ MaxLessonCalls \in Nat \ {0}

NoLesson == "none"

VARIABLES
    learn,        \* what the mounted screen holds
    learned,      \* the engine: the lessons completed
    lessonCalls,  \* calls under way: opening, texts, catalogues, the reset
    judging       \* the answer with the engine: of which lesson, to which exercise

learnVars == <<learn, learned, lessonCalls, judging>>

LearnFresh == [loaded |-> FALSE, completed |-> {}, listed |-> FALSE,
               lesson |-> NoLesson, detail |-> NoLesson, step |-> 0,
               outcome |-> "none", validating |-> FALSE]
CallsFresh == [opening |-> {}, details |-> {}, catalogue |-> TRUE, reset |-> FALSE, reread |-> NoLesson]
NotJudging == [any |-> FALSE, lesson |-> NoLesson, exercise |-> NoLesson]

LearnInit ==
    learn = LearnFresh /\ learned = {} /\ lessonCalls = CallsFresh /\ judging = NotJudging

Locked(l) == ~(Needs(l) \subseteq learn.completed)
\* The engine recommends one of the lessons not mastered whose prerequisites are completed;
\* mastery, an average over the answers, is not kept, so it may be any of these.
Recommended == {l \in Lessons : ~Locked(l)}

LessonMenu == [start |-> {l \in Lessons : ~Locked(l)}, recommended |-> Recommended, reset |-> TRUE]

\* The workspace falls back on the first step when the one it is on does not exist.
LessonWorkspace ==
    LET last == Steps(learn.detail) - 1
    IN [back |-> TRUE, shownStep |-> IF learn.step <= last THEN learn.step ELSE 0,
        previous |-> learn.step > 0, next |-> learn.step # last /\ last > 0,
        choices |-> ~learn.validating,
        nextLesson |-> Recommended \ {learn.lesson}]

LearnView ==
    IF ~learn.loaded THEN "loading"
    ELSE IF learn.lesson # NoLesson /\ learn.detail # NoLesson THEN "workspace"
    ELSE IF learn.listed THEN "menu" ELSE "empty"

LessonsAsked == Cardinality(lessonCalls.opening) + Cardinality(lessonCalls.details)

\* fetchCurriculum.
CurriculumLoaded(ok) ==
    /\ lessonCalls.catalogue
    /\ lessonCalls' = [lessonCalls EXCEPT !.catalogue = FALSE]
    /\ learn' = [learn EXCEPT !.loaded = TRUE, !.listed = @ \/ ok,
                              !.completed = IF ok THEN learned ELSE @]
    /\ UNCHANGED <<learned, judging>>

\* selectLesson, up to its await: a lesson of the menu, or the next one of the workspace.
OpenLesson(l) ==
    /\ \/ LearnView = "menu" /\ l \in LessonMenu.start \cup LessonMenu.recommended
       \/ LearnView = "workspace" /\ l \in LessonWorkspace.nextLesson
    /\ LessonsAsked < MaxLessonCalls
    /\ lessonCalls' = [lessonCalls EXCEPT !.opening = @ \cup {l}]
    /\ learn' = [learn EXCEPT !.outcome = "none"]
    /\ UNCHANGED <<learned, judging>>

\* Its end, whether or not the command succeeded, and the effect of the lesson's change:
\* the lesson's text is asked for, that of the lesson before stays on the screen.
LessonOpened(l) ==
    /\ l \in lessonCalls.opening
    /\ lessonCalls' = [lessonCalls EXCEPT !.opening = @ \ {l},
                          !.details = IF l # learn.lesson THEN @ \cup {l} ELSE @]
    /\ learn' = IF l # learn.lesson
                THEN [learn EXCEPT !.lesson = l, !.outcome = "none"]
                ELSE learn
    /\ UNCHANGED <<learned, judging>>

\* fetchLessonDetail, after its await; the walkthrough of a mounted workspace keeps its step.
DetailLoaded(l, ok) ==
    /\ l \in lessonCalls.details
    /\ lessonCalls' = [lessonCalls EXCEPT !.details = @ \ {l}]
    /\ learn' = IF ok
                THEN [learn EXCEPT !.detail = l, !.outcome = "none",
                         !.step = IF LearnView = "workspace" THEN @ ELSE 0]
                ELSE learn
    /\ UNCHANGED <<learned, judging>>

BackToMenu ==
    /\ LearnView = "workspace" /\ LessonWorkspace.back
    /\ learn' = [learn EXCEPT !.lesson = NoLesson, !.detail = NoLesson, !.step = 0,
                              !.outcome = "none"]
    /\ UNCHANGED <<learned, lessonCalls, judging>>

GoToStep(s) ==
    /\ LearnView = "workspace" /\ s # learn.step
    /\ \/ Steps(learn.detail) > 1 /\ s \in 0 .. Steps(learn.detail) - 1
       \/ LessonWorkspace.previous /\ Steps(learn.detail) > 1 /\ s = learn.step - 1
    /\ learn' = [learn EXCEPT !.step = s]
    /\ UNCHANGED <<learned, lessonCalls, judging>>

\* submitChoice, up to its await: the exercise of the text shown, for the lesson that is open.
SubmitChoice ==
    /\ LearnView = "workspace" /\ LessonWorkspace.choices
    /\ learn' = [learn EXCEPT !.validating = TRUE]
    /\ judging' = [any |-> TRUE, lesson |-> learn.lesson, exercise |-> learn.detail]
    /\ UNCHANGED <<learned, lessonCalls>>

\* Mutant: any correct answer completes the lesson that is open.
JudgedAnyhow(correct) ==
    [refused |-> FALSE, outcome |-> IF correct THEN "correct" ELSE "wrong",
     learned |-> IF correct THEN learned \cup {judging.lesson} ELSE learned]

\* validate_choice: an exercise that is not the lesson's is refused, a correct answer
\* completes the lesson.
Judged(correct) ==
    IF judging.lesson # judging.exercise
    THEN [refused |-> TRUE, outcome |-> "none", learned |-> learned]
    ELSE [refused |-> FALSE, outcome |-> IF correct THEN "correct" ELSE "wrong",
          learned |-> IF correct THEN learned \cup {judging.lesson} ELSE learned]

ChoiceJudged(correct) ==
    /\ judging.any
    /\ LET verdict == Judged(correct)
       IN /\ learned' = verdict.learned
          /\ learn' = [learn EXCEPT !.validating = FALSE,
                          !.outcome = IF verdict.refused THEN @ ELSE verdict.outcome]
          /\ lessonCalls' = [lessonCalls EXCEPT !.catalogue = @ \/ ~verdict.refused]
    /\ judging' = NotJudging

\* The answer could not be asked about.
ChoiceFailed ==
    /\ judging.any
    /\ learn' = [learn EXCEPT !.validating = FALSE]
    /\ judging' = NotJudging
    /\ UNCHANGED <<learned, lessonCalls>>

\* resetProgress: the command, then the catalogue, then the lesson that was open.
ResetProgress ==
    /\ LearnView = "menu" /\ LessonMenu.reset /\ ~lessonCalls.reset
    /\ LessonsAsked < MaxLessonCalls
    /\ lessonCalls' = [lessonCalls EXCEPT !.reset = TRUE, !.reread = learn.lesson]
    /\ UNCHANGED <<learn, learned, judging>>

ProgressReset(ok) ==
    /\ lessonCalls.reset
    /\ learned' = IF ok THEN {} ELSE learned
    /\ lessonCalls' = [lessonCalls EXCEPT !.reset = FALSE, !.reread = NoLesson,
                          !.catalogue = @ \/ ok,
                          !.details = IF ok THEN @ \cup ({lessonCalls.reread} \ {NoLesson}) ELSE @]
    /\ UNCHANGED <<learn, judging>>

LearnNext ==
    \/ \E ok \in BOOLEAN : CurriculumLoaded(ok) \/ ProgressReset(ok)
    \/ \E l \in Lessons : OpenLesson(l) \/ LessonOpened(l) \/ \E ok \in BOOLEAN : DetailLoaded(l, ok)
    \/ \E s \in 0 .. 3 : GoToStep(s)
    \/ \E c \in BOOLEAN : ChoiceJudged(c)
    \/ BackToMenu \/ SubmitChoice \/ ChoiceFailed \/ ResetProgress

-----------------------------------------------------------------------------
LearnTypeOK ==
    /\ learn.lesson \in Lessons \cup {NoLesson} /\ learn.detail \in Lessons \cup {NoLesson}
    /\ learn.outcome \in {"none", "correct", "wrong"}
    /\ learn.step \in Nat /\ learn.completed \subseteq Lessons /\ learned \subseteq Lessons
    /\ lessonCalls.opening \subseteq Lessons /\ lessonCalls.details \subseteq Lessons
    /\ lessonCalls.reset \in BOOLEAN

\* Whatever lesson the learner moves on to, the choices are held exactly while an answer
\* is with the engine, and there is only one.
HeldWhileJudged == learn.validating <=> judging.any

\* Texts may come late and land on another lesson; still, a lesson is only ever completed
\* by an answer to its own exercise.
CompletedByOwnExercise ==
    [][\A l \in learned' \ learned : judging.exercise = l /\ judging.lesson = l]_learnVars
=============================================================================
