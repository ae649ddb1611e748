---------------------------- MODULE MCCandleCache ----------------------------
(* The candle cache at the scale of a few candles and two callers, which   *)
(* may overlap or follow each other: a candle lasts two units, so that a   *)
(* window may begin inside one; a page holds one candle, and a window two, *)
(* where the exchange's holds 1000 and a window 1001.                      *)
EXTENDS CandleCache

MCFrame == 2
MCLimit == 1

\* The clock is in the middle of a candle and goes on to its end, where the
\* next one begins.
MCStart   == 3
MCHorizon == 4

\* A window of one candle, and one of several full pages.
MCSpans == {MCFrame, MCStart}
==============================================================================
