SPECIFICATION FairSpec
CONSTANT MaxSurvey = 3
INVARIANTS AnsweredOnce SurveyWatched
PROPERTIES RequestAnswered ConnectGoesOn StopReturns
