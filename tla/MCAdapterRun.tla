------------------------------ MODULE MCAdapterRun ------------------------------
EXTENDS AdapterRun

\* A timeout_s below every floor, one with a small and one with the full margin.
TwoFrameworks == {<<"pydantic-ai", 1>>, <<"pydantic-ai", 7>>,
                  <<"deepagents", 3>>, <<"deepagents", 12>>}
=============================================================================
