----------------------------- MODULE MCBenchmark -----------------------------
EXTENDS Benchmark, TLC

MCNumbers == {1, 3, 4, 5, 7, 30, 33}
=============================================================================
