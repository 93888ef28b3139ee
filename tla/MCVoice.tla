------------------------------- MODULE MCVoice -------------------------------
EXTENDS VoicePipeline, TLC

CONSTANTS s1, s2

MCTextLen == (s1 :> 1 @@ s2 :> 2)

Local == [route |-> "v1", pipeline |-> "local", diarize |-> "off", perTurn |-> FALSE,
          space |-> FALSE, large |-> FALSE, ask |-> FALSE]

\* Each pipeline once: a Space with an analysis, per-turn transcription of a
\* local diarization, a cloud diarization merged into the whole file, Gemini
\* with and without an upload, and the Anusandhan route.
MCConfigs ==
  { [Local EXCEPT !.space = TRUE, !.ask = TRUE],
    [Local EXCEPT !.diarize = "local", !.perTurn = TRUE],
    [Local EXCEPT !.diarize = "cloud", !.ask = TRUE],
    [Local EXCEPT !.pipeline = "gemini", !.large = TRUE],
    [Local EXCEPT !.pipeline = "gemini", !.route = "anusandhan"],
    [Local EXCEPT !.route = "anusandhan"] }
=============================================================================
