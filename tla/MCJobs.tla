------------------------------- MODULE MCJobs -------------------------------
\* One posting and two profiles, one that fits it and one that does not.
EXTENDS Jobs

MCWeights == [skill |-> 40, experience |-> 25, location |-> 15, salary |-> 10, description |-> 10]
MCPosting == [j \in JobIds |->
    [title |-> {"backend"}, req |-> {"go", "sql"}, text |-> {"go"}, remote |-> "remote",
     places |-> {}, min |-> 50, max |-> 70]]
MCPreferences == [remoteOnly |-> TRUE, places |-> {}, min |-> 50, max |-> 70]
MCProfiles ==
    {[skills |-> {"go", "sql"}, roles |-> <<[title |-> {"backend"}, skills |-> {"go"}]>>,
      prefs |-> MCPreferences],
     [skills |-> {},
      roles |-> <<[title |-> {"cook"}, skills |-> {}], [title |-> {"barista"}, skills |-> {"sql"}],
                  [title |-> {"clerk"}, skills |-> {}], [title |-> {"porter"}, skills |-> {"go"}]>>,
      prefs |-> [MCPreferences EXCEPT !.remoteOnly = FALSE, !.places = {"oslo"}]]}
=============================================================================
