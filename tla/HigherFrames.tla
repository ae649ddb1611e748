---------------------------- MODULE HigherFrames -----------------------------
(***************************************************************************)
(* Candles of a higher frame made from those of a lower one, by the two    *)
(* awk programs of scripts/: by count in fetch_15m_and_agg.sh, by time in  *)
(* fetch_bybit_rest.sh.  Rows are the times of candles, in units of the    *)
(* lower frame; a bar is the time it is given and the rows it is made of.  *)
(***************************************************************************)
EXTENDS Integers, SequencesExt

Bar(ts, rows) == [ts |-> ts, rows |-> rows]
Adding(bar, row) == [bar EXCEPT !.rows = Append(@, row)]

\* Mutant: the first row is not counted.
BeginUncounted(row) == [bars |-> <<>>, bar |-> Bar(row, <<row>>), prev |-> 0, n |-> 0]

\* Bars so far, the one being made, its bucket, and the rows read.
Begin(row) == [bars |-> <<>>, bar |-> Bar(row, <<row>>), prev |-> 0, n |-> 1]

\* agg_from_15m: G rows to a bar, whatever their times.
ByCount(rows, G) ==
  LET Next(s, row) ==
        LET bucket == s.n \div G IN
        IF bucket # s.prev
        THEN [bars |-> Append(s.bars, s.bar), bar |-> Bar(row, <<row>>),
              prev |-> bucket, n |-> s.n + 1]
        ELSE [s EXCEPT !.bar = Adding(@, row), !.n = @ + 1]
      end == FoldLeft(Next, Begin(Head(rows)), Tail(rows))
  IN Append(end.bars, end.bar)

\* _agg of agg_from_60: the rows of one period to a bar that begins with it.
ByTime(rows, P) ==
  LET Start(row) == Bar((row \div P) * P, <<row>>)
      Next(s, row) ==
        IF Start(row).ts # s.bar.ts
        THEN [bars |-> Append(s.bars, s.bar), bar |-> Start(row)]
        ELSE [s EXCEPT !.bar = Adding(@, row)]
      end == FoldLeft(Next, [bars |-> <<>>, bar |-> Start(Head(rows))], Tail(rows))
  IN Append(end.bars, end.bar)

==============================================================================
