--------------------------- MODULE CommandLineProofs ----------------------------
(***************************************************************************)
(* Proofs about CommandLine: what the exit code of sestest tells, and on   *)
(* which options its commands act, for every command line and whatever is  *)
(* given as a log level.                                                   *)
(***************************************************************************)
EXTENDS CommandLine, TLAPS

OptionsOK == \A name \in DOMAIN args.options : Option(name).isOk

\* What the variables are at each stage of Main.
StageOK ==
    /\ pc \in {"parse", "options", "execute", "exited"}
    /\ pc # "exited" => deeds = {}
    /\ pc = "parse" => ~logger
    /\ pc \in {"options", "execute"} => logger /\ logged = {}
    /\ pc = "execute" \/ deeds # {} => OptionsOK

ExitOK == ExitCodeTellsOutcome /\ AllFaultsLogged

Inv == args \in CommandLines /\ StageOK /\ ExitOK

-----------------------------------------------------------------------------
(* Options.                                                                *)

LEMMA CommandLineShape ==
    ASSUME args \in CommandLines
    PROVE  /\ args.verb \in Verbs
           /\ args.options \in [Options(args.verb) -> Texts]
  BY DEF CommandLines

\* An option is usable, or wrong by itself, or evaluating it throws.
LEMMA OptionShape ==
    ASSUME args \in CommandLines, NEW name \in DOMAIN args.options
    PROVE  /\ name # "exception"
           /\ Option(name) = Value(name) \/ Option(name) = Wrong(name) \/ Option(name) = Exception
  <1>1. name \in Options(args.verb) /\ args.options[name] \in Texts /\ args.verb \in Verbs
    BY CommandLineShape
  <1>2. name # "exception"
    BY <1>1 DEF Options, Verbs
  <1>3. ASSUME NEW text
        PROVE  FindByThumbprint(name, text) \in {Value(name), Wrong(name), Exception}
    BY DEF FindByThumbprint
  <1>4. CASE args.verb = "server"
    BY <1>1, <1>2, <1>3, <1>4 DEF Option, ServerOption
  <1>5. CASE args.verb = "generate"
    BY <1>1, <1>2, <1>3, <1>5 DEF Option, GenerateOption
  <1>6. CASE args.verb = "verify"
    <2>1. name \in {"server", "token", "app", "api"}
      BY <1>1, <1>6 DEF Options
    <2> QED
      BY <2>1, <1>6 DEF Option, VerifyOption
  <1>7. CASE args.verb = "list-certificates"
    BY <1>1, <1>2, <1>7 DEF Option, ListOption
  <1>8. CASE args.verb = "find-certificate"
    BY <1>1, <1>2, <1>3, <1>8 DEF Option
  <1> QED
    BY <1>1, <1>2, <1>4, <1>5, <1>6, <1>7, <1>8 DEF Verbs

LEMMA ErrorsOfOption ==
    ASSUME NEW name
    PROVE  /\ Value(name).isOk /\ ErrorsOf(Value(name)) = {}
           /\ ~Wrong(name).isOk /\ ErrorsOf(Wrong(name)) = {name}
           /\ ~Exception.isOk /\ ErrorsOf(Exception) = {"exception"}
  BY DEF Value, Wrong, Exception, Ok, Error, ErrorsOf

\* Which options a command acts on.
LEMMA UsableOptions ==
    ASSUME args \in CommandLines, OptionsOK
    PROVE  OnlyUsableOptionsAct
  <1> SUFFICES ASSUME NEW name \in DOMAIN args.options, args.options[name] # "good"
               PROVE  \/ /\ args.options[name] = "absent"
                         /\ \/ name \in {"signing", "encrypting", "encryption", "url", "show",
                                        "extra-columns", "api"}
                            \/ args.verb = "verify" /\ name \in env
                      \/ /\ args.options[name] \in {"blank", "bad"}
                         /\ args.verb = "verify" /\ name \in {"token", "app", "api"}
                      \/ args.options[name] = "blank" /\ name = "url"
    BY DEF OnlyUsableOptionsAct
  <1>1. name \in Options(args.verb) /\ args.options[name] \in Texts /\ args.verb \in Verbs
    BY CommandLineShape
  <1>2. Option(name).isOk
    BY DEF OptionsOK
  <1>3. \A n : ~Wrong(n).isOk /\ ~Exception.isOk
    BY ErrorsOfOption
  <1>4. \A text : text # "good" => ~FindByThumbprint(name, text).isOk
    BY <1>3 DEF FindByThumbprint
  <1>5. CASE args.verb = "server"
    BY <1>1, <1>2, <1>3, <1>4, <1>5 DEF Option, ServerOption, Options, Texts
  <1>6. CASE args.verb = "generate"
    <2>1. name \in {"properties", "signing", "encryption"}
      BY <1>1, <1>6 DEF Options
    <2>2. Option(name) = GenerateOption(name, args.options[name])
      BY <1>6 DEF Option
    <2> QED
      BY <1>2, <1>3, <1>4, <2>1, <2>2 DEF GenerateOption
  <1>7. CASE args.verb = "verify"
    BY <1>1, <1>2, <1>3, <1>7 DEF Option, VerifyOption, Options, Texts
  <1>8. CASE args.verb = "list-certificates"
    BY <1>1, <1>2, <1>3, <1>8 DEF Option, ListOption, Options, Texts
  <1>9. CASE args.verb = "find-certificate"
    BY <1>1, <1>2, <1>3, <1>4, <1>9 DEF Option, Options, Texts
  <1> QED
    BY <1>1, <1>5, <1>6, <1>7, <1>8, <1>9 DEF Verbs

\* What the options come to does not change once the command line is read.
LEMMA OptionsStay ==
    ASSUME UNCHANGED <<args, env>>
    PROVE  /\ OptionsOK' <=> OptionsOK
           /\ \A name : Option(name)' = Option(name)
  <1>1. \A name : Option(name)' = Option(name)
    BY DEF Option, VerifyOption
  <1> QED
    BY <1>1 DEF OptionsOK

-----------------------------------------------------------------------------
(* The steps of Main.                                                      *)

LEMMA InvInit == Init => Inv
  BY DEF Init, Inv, StageOK, ExitOK, ExitCodeTellsOutcome, AllFaultsLogged

LEMMA ParseKeeps == Inv /\ (ParseFails \/ ConfigureLogging) => Inv'
  <1>1. ASSUME Inv, ParseFails
        PROVE  Inv'
    BY <1>1 DEF ParseFails, Exit, Inv, StageOK, ExitOK, ExitCodeTellsOutcome, AllFaultsLogged,
                Failed, Success
  <1>2. ASSUME Inv, ConfigureLogging
        PROVE  Inv'
    <2> DEFINE levels == Query([console |-> TryParseLogLevel(args.logLevel, "console"),
                                file |-> TryParseLogLevel(args.logFileLevel, "file")])
    <2>1. logged' = ErrorsOf(levels) /\ logger' = levels.isOk /\ UNCHANGED <<args, env, deeds>>
          /\ pc = "parse"
          /\ IF levels.isOk THEN pc' = "options" /\ UNCHANGED exitCode ELSE Exit(Failed)
      BY <1>2 DEF ConfigureLogging
    <2>2. levels.isOk => ErrorsOf(levels) = {}
      BY DEF ErrorsOf
    <2>3. levels.isOk \in BOOLEAN
      BY DEF Query, Ok, Error
    <2> HIDE DEF levels
    <2> QED
      BY <1>2, <2>1, <2>2, <2>3
         DEF Exit, Inv, StageOK, ExitOK, ExitCodeTellsOutcome, AllFaultsLogged, Failed, Success
  <1> QED
    BY <1>1, <1>2

LEMMA EvaluateKeeps == Inv /\ EvaluateOptions => Inv'
  <1> SUFFICES ASSUME Inv, EvaluateOptions
               PROVE  Inv'
    OBVIOUS
  <1> DEFINE results == [name \in DOMAIN args.options |-> Option(name)]
  <1>0. PICK threw \in BOOLEAN :
           LET outcome == IF threw THEN Exception ELSE Query(results)
           IN  /\ (\E name \in DOMAIN results : Threw(results[name])) => threw
               /\ logged' = logged \cup ErrorsOf(outcome)
               /\ IF outcome.isOk THEN pc' = "execute" /\ UNCHANGED exitCode
                  ELSE Exit(IF threw THEN InternalError ELSE Failed)
    BY DEF EvaluateOptions
  <1> DEFINE outcome == IF threw THEN Exception ELSE Query(results)
             wrong == {name \in DOMAIN args.options : ~Option(name).isOk}
  <1>1. /\ pc = "options" /\ logged' = logged \cup ErrorsOf(outcome)
        /\ IF outcome.isOk THEN pc' = "execute" /\ UNCHANGED exitCode
           ELSE Exit(IF threw THEN InternalError ELSE Failed)
        /\ UNCHANGED <<args, env, logger, deeds>>
        /\ ~threw => \A name \in DOMAIN results : ~Threw(results[name])
    BY <1>0 DEF EvaluateOptions
  <1>2. logger /\ logged = {} /\ deeds = {} /\ args \in CommandLines
    BY <1>1 DEF Inv, StageOK
  <1>3. CASE threw
    <2>1. ~outcome.isOk /\ ErrorsOf(outcome) = {"exception"}
      BY <1>3, ErrorsOfOption
    <2> HIDE DEF outcome
    <2> QED
      BY <1>1, <1>2, <1>3, <2>1
         DEF Inv, StageOK, ExitOK, ExitCodeTellsOutcome, AllFaultsLogged, Exit, Failed, InternalError, Success
  <1>4. CASE ~threw
    <2>1. ASSUME NEW name \in DOMAIN args.options
          PROVE  ErrorsOf(Option(name)) = (IF Option(name).isOk THEN {} ELSE {name})
      <3>1. ErrorsOf(Option(name)) # {"exception"}
        BY <1>1, <1>4 DEF Threw
      <3> QED
        BY <1>2, <3>1, OptionShape, ErrorsOfOption
    <2>2. outcome.isOk <=> OptionsOK
      BY <1>4 DEF Query, Ok, Error, OptionsOK
    <2>3. OptionsOK => ErrorsOf(outcome) = {}
      BY <2>2 DEF ErrorsOf
    <2>4. ~OptionsOK => ErrorsOf(outcome) = wrong
      <3>1. ~OptionsOK => outcome = Error(UNION {ErrorsOf(results[name]) : name \in DOMAIN results})
        BY <1>4 DEF Query, OptionsOK
      <3>2. \A name \in DOMAIN args.options :
               ErrorsOf(results[name]) = (IF Option(name).isOk THEN {} ELSE {name})
        BY <2>1
      <3>3. UNION {ErrorsOf(results[name]) : name \in DOMAIN results} = wrong
        <4>1. \A x \in wrong : \E name \in DOMAIN results : x \in ErrorsOf(results[name])
          BY <3>2
        <4>2. ASSUME NEW name \in DOMAIN results, NEW x \in ErrorsOf(results[name])
              PROVE  x \in wrong
          BY <3>2, <4>2
        <4> HIDE DEF results, wrong
        <4> QED
          BY <4>1, <4>2
      <3>4. ~OptionsOK => outcome = Error(wrong)
        BY ONLY <3>1, <3>3
      <3> HIDE DEF results, outcome, wrong
      <3> QED
        BY <3>4 DEF Error, ErrorsOf
    <2>5. ~OptionsOK => wrong # {}
      BY DEF OptionsOK
    <2>6. wrong' = wrong /\ (OptionsOK' <=> OptionsOK)
      BY <1>1, OptionsStay
    <2> HIDE DEF outcome
    <2>7. CASE OptionsOK
      BY <1>1, <1>2, <2>2, <2>3, <2>6, <2>7
         DEF Inv, StageOK, ExitOK, ExitCodeTellsOutcome, AllFaultsLogged
    <2>8. CASE ~OptionsOK
      <3>1. pc' = "exited" /\ exitCode' = Failed /\ logged' = wrong'
        BY <1>1, <1>2, <1>4, <2>2, <2>4, <2>6, <2>8 DEF Exit
      <3>2. AllFaultsLogged'
        BY <3>1 DEF AllFaultsLogged
      <3>3. ExitCodeTellsOutcome'
        BY <1>1, <1>2, <2>5, <2>6, <2>8, <3>1 DEF ExitCodeTellsOutcome, Failed, Success
      <3> QED
        BY <1>1, <1>2, <3>1, <3>2, <3>3 DEF Inv, StageOK, ExitOK
    <2> QED
      BY <2>7, <2>8
  <1> QED
    BY <1>3, <1>4

\* A command that acts ends with 0; one that does not says why.
LEMMA ExecuteKeeps ==
    Inv /\ (Serve \/ Generate \/ Submit \/ ListCertificates \/ FindCertificate) => Inv'
  <1> SUFFICES ASSUME Inv, NEW verb, Executing(verb),
                      \/ \E deed : Does(deed, Success)
                      \/ Reports("exception", InternalError)
                      \/ Reports("status", Failed)
               PROVE  Inv'
    BY DEF Serve, Generate, Submit, ListCertificates, FindCertificate, Throws
  <1>1. /\ pc = "execute" /\ UNCHANGED <<args, env, logger>>
        /\ deeds = {} /\ OptionsOK /\ args \in CommandLines
    BY DEF Executing, Inv, StageOK
  <1>2. OptionsOK'
    BY <1>1, OptionsStay
  <1>3. ASSUME NEW deed, Does(deed, Success)
        PROVE  Inv'
    BY <1>1, <1>2, <1>3
       DEF Does, Exit, Inv, StageOK, ExitOK, ExitCodeTellsOutcome, AllFaultsLogged, Success
  <1>4. CASE Reports("exception", InternalError)
    BY <1>1, <1>4 DEF Reports, Exit, Inv, StageOK, ExitOK, ExitCodeTellsOutcome, AllFaultsLogged,
                      InternalError, Failed, Success
  <1>5. CASE Reports("status", Failed)
    BY <1>1, <1>5 DEF Reports, Exit, Inv, StageOK, ExitOK, ExitCodeTellsOutcome, AllFaultsLogged,
                      Failed, Success
  <1> QED
    BY <1>3, <1>4, <1>5

LEMMA InvStep == Inv /\ [Next]_vars => Inv'
  <1> SUFFICES ASSUME Inv, [Next]_vars
               PROVE  Inv'
    OBVIOUS
  <1>1. CASE Exited \/ UNCHANGED vars
    <2>1. UNCHANGED vars
      BY <1>1 DEF Exited
    <2>2. UNCHANGED <<args, env>>
      BY <2>1 DEF vars
    <2> QED
      BY <2>1, <2>2, OptionsStay
         DEF vars, Inv, StageOK, ExitOK, ExitCodeTellsOutcome, AllFaultsLogged
  <1> QED
    BY <1>1, ParseKeeps, EvaluateKeeps, ExecuteKeeps DEF Next

\* The invariant holds in every state of a run of sestest.
THEOREM InvHolds == Spec => []Inv
  BY InvInit, InvStep, PTL DEF Spec

\* The exit code is 0 exactly when the command did what it is for, and any other
\* one comes with an error in the log once there is a log (Main and RunCommand).
THEOREM ExitCodesTell == Spec => []ExitCodeTellsOutcome
  <1>1. Inv => ExitCodeTellsOutcome
    BY DEF Inv, ExitOK
  <1> QED
    BY <1>1, InvHolds, PTL

\* No command acts while one of its options is missing or wrong: the queries over
\* the options come before the first effect of each command.
THEOREM OptionsComeFirst == Spec => []OnlyUsableOptionsAct
  <1>1. Inv => OnlyUsableOptionsAct
    BY UsableOptions DEF Inv, StageOK, OnlyUsableOptionsAct
  <1> QED
    BY <1>1, InvHolds, PTL

\* What is logged when a command ends for its options is every option that is
\* wrong, no more and no less, unless evaluating one of them throws.
THEOREM FaultsAreLogged == Spec => []AllFaultsLogged
  <1>1. Inv => AllFaultsLogged
    BY DEF Inv, ExitOK
  <1> QED
    BY <1>1, InvHolds, PTL
=============================================================================
