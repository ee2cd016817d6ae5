---------------------------- MODULE MCParserList ----------------------------
(* Instance of ParserList for TLC: a list of one's own and a shared one,   *)
(* without a limit and with a limit of one parser.                         *)
EXTENDS ParserList

MCOptions == [shared : BOOLEAN, limit : {0, 1}]
=============================================================================
