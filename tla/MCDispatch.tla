---------------------------- MODULE MCDispatch ----------------------------
EXTENDS Dispatch

AllFamilies == {"Go", "TypeScript", "Python", "Java", "Clang", "Dotnet",
                "Rust", "Ruby", "Dart", "Php"}

\* Two solutions that share a project, a project no solution lists, and three
\* that are not in the tree.
TwoSolutions == <<<<"a.sln">>, <<"src", "b.slnx">>>>
SixProjects == <<<<".hg", "h.csproj">>, <<"p.csproj">>, <<"src", "q.csproj">>,
                 <<"src", "obj", "g.csproj">>, <<"up", "p.csproj">>,
                 <<"src", "r.vbproj">>>>
ThreeGemspecs == <<<<"a.gemspec">>, <<"b.gemspec">>, <<"lib", "c.gemspec">>>>
Kept == {<<".hg", "h.csproj">>, <<"src", "obj", "g.csproj">>, <<"up", "p.csproj">>,
         <<"lib", "c.gemspec">>}
DotNames == {".hg"}
\* "up" leads out of the workspace.
LinkPaths == {<<"up">>, <<"b.gemspec">>}

Sharing == (<<"a.sln">> :> {<<"p.csproj">>})
             @@ (<<"src", "b.slnx">> :> {<<"p.csproj">>, <<"src", "q.csproj">>})
\* The same as the SDK may print it.
Printed ==
  (<<"a.sln">> :> {<<"src", "..", "p.csproj">>})
    @@ (<<"src", "b.slnx">> :> {<<"..", "..", "workspace", "p.csproj">>,
                              <<".", "q.csproj">>})
=============================================================================
