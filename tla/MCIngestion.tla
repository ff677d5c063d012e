------------------------------ MODULE MCIngestion ------------------------------
EXTENDS Ingestion, TLC

\* sizes, in chunks, of the documents of each run
LongThenShort == <<2, 1>>
LongTwoShort  == <<2, 1, 1>>
EmptyFitsHuge == <<0, 1, 2>>

Interchangeable == Permutations(Workers)
=============================================================================
