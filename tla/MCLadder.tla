------------------------------ MODULE MCLadder ------------------------------
\* The scripts of the ladder as data, on GPUs 0-5.  A script that runs a model in
\* the foreground forks its lane and waits for it.
EXTENDS Ladder

CONSTANTS llama13b, deepseek, openllama, yi34b

McLanes == {"a", "b", "c", "d"}
J(m, g) == [model |-> m, gpus |-> g]
fork(l) == [op |-> "fork", lanes |-> {l}]
wait(s) == [op |-> "wait", lanes |-> s]
Queues(a, b, c, d) == [l \in McLanes |-> CASE l = "a" -> a [] l = "b" -> b [] l = "c" -> c [] l = "d" -> d]

\* 13b in the background, openllama when deepseek frees its cards, then Yi-34B
Take(gpus13b) ==
  [steps |-> <<fork("a"), wait({"b"}), fork("c"), wait({"c"}), wait({"a"}), fork("d"), wait({"d"})>>,
   queue |-> Queues(<<J(llama13b, gpus13b)>>, <<J(deepseek, {2, 3})>>,
                    <<J(openllama, {2, 3})>>, <<J(yi34b, 0..3)>>),
   orphans |-> {"b"}]
finish_ladder_v2 == Take({0, 1})
finish_ladder_v3 == Take({1})
finish_ladder_mixed == Take({0})
finish_ladder_v4 ==
  [steps |-> <<fork("c"), fork("d"), wait({"c", "d"})>>,
   queue |-> Queues(<<>>, <<>>, <<J(openllama, {0})>>, <<J(yi34b, 1..3)>>),
   orphans |-> {}]
improved_ladder_fine ==
  [steps |-> <<fork("a"), fork("b"), fork("c"), wait({"a", "b", "c"}), fork("d"), wait({"d"})>>,
   queue |-> Queues(<<J(llama13b, {0, 1})>>, <<J(deepseek, {2, 3})>>,
                    <<J(openllama, {4, 5})>>, <<J(yi34b, 0..3)>>),
   orphans |-> {}]
improved_ladder_fine_gpu0123 ==
  [steps |-> <<wait({"b"}), fork("c"), wait({"c"}), wait({"a"}), fork("d"), wait({"d"})>>,
   queue |-> Queues(<<J(llama13b, {0, 1})>>, <<J(deepseek, {2, 3})>>,
                    <<J(openllama, {2, 3})>>, <<J(yi34b, 0..3)>>),
   orphans |-> {"a", "b"}]

\* One model in the foreground, beside a job of another script or on its own.
Single(l, job, beside, other) ==
  [steps |-> <<fork(l), wait({l})>>,
   queue |-> [k \in McLanes |-> IF k = l THEN <<job>> ELSE IF k \in beside THEN <<other>> ELSE <<>>],
   orphans |-> beside]
yi34b_fine == Single("d", J(yi34b, 1..3), {"c"}, J(openllama, {0}))
openllama_parallel == Single("c", J(openllama, {0, 4}), {"d"}, J(yi34b, 1..3))
openllama_retry == Single("c", J(openllama, {1, 2}), {}, J(yi34b, 1..3))
McScripts == {finish_ladder_v2, finish_ladder_v3, finish_ladder_mixed, finish_ladder_v4,
              improved_ladder_fine, improved_ladder_fine_gpu0123,
              yi34b_fine, openllama_parallel, openllama_retry}

McOldFiles == {<<>>, <<Header>>,
               <<[kind |-> "header", fields |-> "older"],
                 [kind |-> "row", fields |-> "older", model |-> deepseek, ok |-> TRUE]>>}
=============================================================================
