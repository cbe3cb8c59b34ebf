---------------------------- MODULE MCCiReport ------------------------------
(* Runs for one pull request: what each is given differs where the         *)
(* runs can affect each other, and one of each kind of faulty input.       *)
EXTENDS CiReport

Good == [maxReviewComments |-> 50, missing |-> {}, event |-> "object",
         report |-> "valid", diagnostics |-> <<"error", "warning">>,
         blocking |-> "error", want |-> Surfaces, dryRun |-> FALSE, token |-> TRUE]

MCInvocations ==
  {Good,
   [Good EXCEPT !.maxReviewComments = 1, !.diagnostics = <<"warning", "warning">>],
   [Good EXCEPT !.want = {"comment"}, !.blocking = "warn", !.diagnostics = <<>>],
   [Good EXCEPT !.want = {"reviewComments"}, !.blocking = "none"],
   [Good EXCEPT !.dryRun = TRUE],
   [Good EXCEPT !.token = FALSE],
   [Good EXCEPT !.maxReviewComments = 0],
   [Good EXCEPT !.missing = {"headSha"}],
   [Good EXCEPT !.missing = {"pullRequestEvent"}, !.event = "null"],
   [Good EXCEPT !.event = "null"],
   [Good EXCEPT !.report = "null"],
   [Good EXCEPT !.report = "unparseable"]}
=============================================================================
