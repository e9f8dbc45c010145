\* Violation run: the Post.Office greeting of spec.md P6.
INIT Init
NEXT Next
INVARIANT P6Greeting
